# Solador: models and proofs

Solador is a desktop cockpit (a Tauri application, Rust with a web front end)
and a small metrics agent that runs on the machines the cockpit watches. This
directory holds TLA+ modules that model the parts of it where several actors,
failures or restarts meet, TLC configurations that check them on small
instances, and proofs that TLAPS checks for every value of the constants.

Paths below are relative to the repository root. `main.rs` without a path is
`app/src-tauri/src/main.rs`.

## 1. The system

### Parts that hold state

| Part | State | Operations | Where |
|---|---|---|---|
| Agent self-update | the live binary and its siblings `.new`, `.prev`, `.rollback-displaced`, `.tmp`; the lock `.update.lock`; the service | `update`, `rollback`; also the operator by hand and the timer | `agent/src/update.rs` |
| Unattended update guard | the stamp of the last attempt, hold files | one check per timer firing | `agent/deploy/update-guard.sh` |
| Agent server | sampled snapshot, when it was written, the counters' windows, the GPU reading, TLS identity | sample, restart after a panic, probe, `/v1/snapshot`, `/v1/health`, `/v1/containers` | `agent/src/server.rs`, `metrics.rs`, `gpu.rs`, `tls.rs` |
| Store | settings, hosts, repositories, accounts, runner roster in memory and in `store.json` | load, save (temp file and rename) | `crates/store/src/lib.rs` |
| Credential store | one keychain item per credential, or the blob `secrets_v1` | read, save, clear, migrate | `crates/store/src/secrets.rs` |
| Poll set | one task per enabled host with its client and token, its last snapshot, failure streak, error | reconcile, reload, restart one task, poll, health poll | `main.rs` |
| Host watch, vendor status watch, approval watch | what each host, vendor or repository last was | observe a pass, reset after a resume | `app/src-tauri/src/services.rs`, `github/notify.rs` |
| Hand-off | one pairing at a time: decision, probe, confirm, write | `host add`, `host check` through a local channel | `app/src-tauri/src/handoff.rs`, `crates/hostsetup` |
| Plan usage | per provider: opt-in, generation, last attempt, parked, not-before, reading | the loop's pass, the flip and reset of an opt-in | `app/src-tauri/src/plan_usage.rs` |
| OpenClaw | session, reducer, backoff, device identity, panel sections | connect, stream, reconnect, restart on a wake | `main.rs`, `app/src-tauri/src/openclaw.rs`, `crates/openclaw` |
| Containers panel | the last lists and clocks of each source; presence records in the store | a pass over this machine's runtimes and the hosts' agents, a render, edits of the rules | `main.rs`, `app/src-tauri/src/containers/` |
| GitHub pass, usage loop, crons, Azure, services loops | one cell each, plus wake channels | a pass on a cadence, or on a wake | `main.rs` and one module each |
| App self-update | one small state machine | check, install | `app/src-tauri/src/update.rs`, `main.rs` |
| Agent installer | the binary and its siblings, the env file with token, bind and HTTPS, units, the TLS pair | install, re-run, uninstall, purge | `agent/deploy/install.sh`, `agent/src/tls.rs` |
| Dashboard page | the view it shows, the undo history, the call under way, the open Full view | read every second, edit, undo, change what tiles share, open and leave a Full view | `app/ui/dashboard.js`, `app/ui/app.js`, `main.rs` |

The other parts (view models, tiles, the window, rendering, readers of one
request, build and release automation) keep no state that several actors share;
`PROJECT.json` lists each with the reason it is left out.

### How they interact

* Every Settings command runs on the window's thread, takes the store's lock,
  changes memory, saves the whole of `store.json`, releases the lock and then
  makes the change live: it reloads the poll set, restarts one task, resets a
  provider or wakes a loop. The loops run on the runtime's threads and read
  settings and credentials anew on every pass, so *what a loop read before an
  await may be old when it acts on it*.
* The hand-off runs the same writes as Settings from a runtime thread.
* A wake is a `tokio::sync::Notify` permit: at most one is kept, and none is lost
  between two waits.
* The credential store is slow (a prompt may be showing) and may fail on every
  call; the file system may fail on every save; the process may end anywhere.
* The updater and the cockpit share nothing: several updaters (the timer, an
  operator, a remote update) share one install through a `flock`.

### What is hard, and what correctness means

| Part | Hard behaviour | Correct means |
|---|---|---|
| Agent self-update | kills between any two file operations, hostile feed, two runs at once, a service that starts and dies by itself | only trusted complete binaries are ever live; nothing is lost; the reported outcome is true; the lock is released |
| Hosts | two writers, two locks taken one after the other, saves that fail and roll back, keychain failures | memory within the file, no orphan token, every task with the stored token, no second card for one machine |
| Credentials | whole-map writes by two threads, migration that may fail, a crash between the blob's write and the item's deletion, a damaged blob | what was saved is what is read; what was cleared does not come back |
| Plan usage | an opt-in flipped between any two steps of a read that may take a minute; a denied prompt; sleeps computed from data that is changing | an opt-in that is off shows nothing and its read is dropped; a denial is final; no due read is slept over; every read happens in the end |
| Host watch | polls, edits, a resume and the watch interleave; debounce | a banner only for a change, no banners after a resume |
| OpenClaw | restart on a wake in any phase, backoff, gateway changed while streaming | no rows of another gateway; delays that follow the documented policy |
| Update guard | stamp before attempt, clock going back | at most one attempt an interval, and never none for good on a host that stays awake past the settle window now and then |
| Store file | crashes and power loss around a rename, adoption of an older directory, a migration that waits for a token | the file is always one that was saved; an inherited portfolio is never lost; owners are not invented |
| Usage loop | two halves with their own cadences on one loop, wakes that force one of them, cadences edited while it sleeps | no half is read before it is due, and none is slept over |
| App self-update | checks and installs that end in either order, a feed that moves on or back | one install at a time, and "installed" only of what is on disk |
| Agent installer | killed or failing at any step and run again, HTTPS and binds kept from an earlier run, a TLS pair of which half is there | the last good binary is kept, a paired host stays paired, an uninstall that says so is done |
| Dashboard page | answers that arrive in any order, after an edit, a change or another tile's Full view | what is shown never goes back, an undo reverses an edit, a panel is of its tile |
| Agent sampler | panics and hangs of the loop while requests are answered, a GPU probe that never returns, two cadences on counters that are differences | health never says ok of frozen numbers; each figure is divided by its own window; fresh numbers come again |
| Containers panel | runtimes that fail one by one, records saved under one lock and shown under another, renders, edits and relaunches in between | no alarm before its grace and none put off by rows that were only retained; no section of a host that is gone |
| Status watch, GitHub pass | partial failure of a pass, membership that changes | no false banner, absence clocks frozen while a fetch fails |

`PROJECT.json` lists each hazard at its line with the properties that catch it.

## 2. Plan

Done in this order, because the first ones can lose a machine, a host or a
credential:

1. `AgentUpdate` with the abstract `InstallContract` and the refinement between
   them; proofs of the invariant and of the refinement.
2. `HostRoster`: Settings, the hand-off and the poll set; proofs.
3. `PlanUsage`: the plan loop and its opt-ins, with time; proofs, liveness.
4. `Secrets`: the blob, its migration and its two writers; proofs.
5. `HostWatch` and `VendorWatch`: polls, debounce, resume, edits, banners.
6. `RunnerRoster`, `RepoPass`, `ApprovalWatch`: the GitHub pass.
7. `StoreFile`: load, adoption, migration, temporary file and rename, shown to
   implement the abstract `DurableFile`.
8. `OpenClaw`, `UsageLoop`, `UpdateGuard`, `AppUpdate`: the other loops.
9. `AgentInstall`: the installer and the agent's TLS pair.
10. `Dashboard`: the page, its undo history and the Full view.
11. `Sampler`: the agent's sampler, its supervisor and the GPU probe.
12. `Containers`: the containers panel's pass, records and renders.

Theorems about the modules of 5 to 12 are in `WatchesProofs`, `GithubProofs`,
`LoopsProofs` and `DashboardProofs`; those about `StoreFile` and `AgentInstall`
are in `SecretsProofs`, whose run they share. Every safety group that a run checks
is a theorem, and the safety half of every liveness property that has one. What
could still be added is of the parts listed as not modelled, none of which has
state of several actors.

## 3. The modules and the code

### AgentUpdate (`agent/src/update.rs`)

Any number of updater processes `Proc` act on one install. `disk` maps the live
path and its siblings to an executable, `Absent` or `Partial`; `serving` is the
executable of the process that answers on the socket; `lock` is the `flock`.
`pc[p]` follows `run_update` and `run_rollback` line by line: `Start`, `Acquire`
or `Busy` (`TransactionLock`), `Preflight` (`Service::preflight`), `FetchFeed`
(`Trust::verify`), `Compare`, `Download` (`verify_binary`), `Stage`, `Staged`,
`StageFails` (`stage_candidate`), `Candidate`, `CopyBegins`, `CopyEnds`,
`CopyFails` (`copy_executable`, four uses listed in `Copies`), `Swap`,
`SwapFails`, `Restart`, `HealthOk`, `HealthFails` (`wait_for_health`,
`restore_previous`), and the rollback's `HasPrevious`, `RollbackProbe`, `Anchor`.
`Crash` is a kill at any step: the lock goes with the process, the files stay.
`ServiceStarts`, `ServiceDies` and `OperatorMoves` are the environment.

`InstallContract` is the abstract specification: one transaction at a time, in
which the live executable and the anchor change only by saving, installing a
newer signed release, recovering, or exchanging the two. `AgentUpdate` defines
the instance `Contract` (its `WITH` maps `disk["live"]`, `disk["prev"]`, `lock`
and `base`) and `ImplementsContract == Contract!Spec`.

### HostRoster (`main.rs`, `handoff.rs`, `crates/hostsetup`)

`mem` and `file` are the host rows in memory and in `store.json`, `keychain` the
tokens, `polled` the poll set. Two actors, `settings` and `handoff`, each follow
the code: enter the critical section (`AddHost`, `SaveHost`, `SetHostEnabled`,
`RemoveHost`, `Commit`), `DeleteToken`, `SaveWorks` or `SaveFails` with the
roll-back, `SetSecret` or `SetSecretFails`; then, with the lock released,
`RestartTask`, `ReadDesired`, `Apply` (the two locks of `reload_hosts`). The
hand-off's pairing is `PairRequest`, `TokenMatches`, `HealthPasses`,
`HealthFails`, `AnswerUnchanged`, `AnswerRemoved`, `Commit` (`decide`,
`confirm`). `Relaunch` is a crash and another launch. `overtaken` is history: the
actors whose list another one's change has passed between their two locks, until
somebody's next reload. Names and the display order are left out.

### PlanUsage (`plan_usage.rs`, `plan_usage_loop` in `main.rs`)

`on` and `disk` are the opt-ins in memory and in the file; `reading`, `parked`,
`due`, `denied`, `owed` the two providers' states; `pc`, `turn`, `asked`,
`elapsed`, `matching`, `fresh`, `alarm` the loop. Time is in ticks: `due[p]` is
the time until p's next read, relative to now. `Ask`, `GateOff`, `GateSkip`,
`StartRead`, `Land`, `Inputs`, `Sleep`, `Wake` are the steps of the loop between
its locks and awaits; `Flip`, `Reset`, `Notify` those of the Settings command;
`SaveOther` any other save, `WakeOther` any other wake, `Relaunch` a launch.
`matching` is the comparison of generations. `fresh`, `denied` and `owed` are
history.

### Secrets (`crates/store/src/secrets.rs`, its callers in `main.rs`)

`items` are the items of the older scheme, `blob` the map in `secrets_v1`,
`blobIs` whether it is absent, sound or corrupt. A launch is one of `Migrated`,
`Scrubbed` or `NotMigrated` (nothing to do, or a failure). A writer takes
`blob_lock` and reads the blob (`Start`), writes it back (`WriteBlob`) or writes
the credential's item (`WriteItem`), or is `Rejected`; the removal of a host goes
on to its row (`DropRow`). `Damaged` and `Deleted` are the keychain's. `saved`,
`ever` and `exposed` are history.

### HostWatch and VendorWatch (`main.rs`, `services.rs`)

`HostWatch` has the poll set as far as the watch sees it (`task`, `asking`), each
card (`latest`, `streak`, `error`) and the watch (`wpc`, `loud`, `readings`,
`seen`). A poll is asked and answered in two steps (`Poll`: `Ask`, `PollOk`,
`PollFails`; `record_poll` counts up to `Threshold`); a pass of the watch in
three, because it reads the setting, copies the cards and compares under three
different locks (`ReadNotify`, `ReadCards`, `Observe`). `Resume` resets the
watch's memory, `SpawnHost` and `DropHost` are `reconcile`.

`VendorWatch` has the vendors of Settings and those with a stored credential
(`Credentialed`), the Services loop (`lpc`, `batch`, `heard`) and the panel's
entries. `FoldWith(ans)` is the end of a pass for one outcome per page: the
entries, the footer, and the banners (`Bannered`) against the `baseline`.
`EditVendor` then `WakeServices` is a Settings command, whose wake is a
notification with one permit (`permit`).

### RunnerRoster, RepoPass, ApprovalWatch (`github/mod.rs`, `main.rs`)

Three halves of one pass that share only the instant they begin. `RunnerRoster`:
ages instead of times; a pass reads the roster once (`records`), fetches each
organisation or not, and stores, at its end, its own copy of those that answered
(so that `ForgetSticks` speaks of what is forgotten between passes: within one,
the code says itself, "the window is one fetch"). `RepoPass`: `plan_github_pass`
is the operator `Planned`, taken at the start of a pass; `FinishRepos` delivers
what became of it, after any edits. `ApprovalWatch`: repositories are read one
after the other (`ReadRepo`), then the preference (`ReadApprovals`), then
compared (`ObserveGates`).

### StoreFile and DurableFile (`crates/store/src/lib.rs`)

`file` is what programs read, `disk` what a power loss would leave, `tempFile`
the temporary file from created to synced. `LaunchStore`, `OpenFile`,
`CreateFile` are the load with its adoption of the older directory and the
migrations of schemas; `WriteTemp`, `SyncTemp`, `RenameTemp`, `FlushDirectory`,
`WriteFails` are `write_atomically`. `DurableFile` promises that a save happens
whole or not at all and that a power loss goes back to a saved file at most;
`Durable` is its instance and `FileIsDurable == Durable!Spec`. This is what
`SaveWorks` and `SaveFails` of the other modules stand on.

### OpenClaw, UsageLoop, UpdateGuard, AppUpdate

`OpenClaw` (`main.rs`, `crates/openclaw`): the loop at its top, idle, connecting,
connected or waiting (`opc`); an edit is saved and then announced
(`SaveGateway`, `Announce`), and the announcement cuts the loop short wherever it
waits. Delays are exponents of two up to `MaxLevel`. `strikes` counts, as
history, the sessions in a row that failed young.

`UsageLoop` (`main.rs`): `forced` are the flags, `permit` the notification, `upc`
the loop between its reads of the flags, its pass and its sleep. A wake sets its
flags and then notifies, in two steps.

`UpdateGuard` (`agent/deploy/update-guard.sh`, `run-agent.sh`): one firing is one
step (the script runs in less than a tick); the clock steps, the host sleeps and
reboots, the system manager may forget a resume. A firing that a sleep takes is
missed and not made up, and one within the settle window (`awake < Settle`, which
the next sleep may cut short) is discarded, so a host may sleep its way past every
update. `NeverStarves` therefore has its assumption as an antecedent, `HostAllows`:
again and again the host stays awake for the settle window, and the firings do not
for ever miss those moments. Without that antecedent it is false (a host that
sleeps just after each firing and wakes just before the next), and the cadence
means it to be (`agent/README.md:1754-1758`, `run-agent.sh:128-139`). With it, it
says that the guard never stands in its own way: a resume the system manager has
forgotten, a count of suspends, a stamp ahead of the clock.

`AppUpdate` (`app/src-tauri/src/update.rs`, `main.rs`): `check` and `install` are
the panel's two words; each check and each install is a task of its own, from its
question to the feed to its end.

### AgentInstall (`agent/deploy/install.sh`, `agent/src/tls.rs`)

`files` maps the live binary, `.prev`, `.new`, the env file, the unit and the TLS
pair to what they hold; `service` is what systemd has, `serving` the running agent
with the bind, token and certificate it read when it started. What an install
decides before it changes anything (`Install`: `TlsValue`, `Bind`, `KeptToken`)
is one step; then one step per file it changes (`WriteEnv`, `Preserve`,
`StageNew`, `SwapIn`, `PutUnit`, `RestartAgent`), and each may be the last.
`Uninstall` stops units and removes files in the script's order. The agent makes
its pair (`Generate`) only where neither half is there (`MayGenerate`).

### Dashboard (`app/ui/dashboard.js`, `app/ui/app.js`, `main.rs`)

`stored` is the store (revision, layout, a version of what all tiles share),
`model` what the page shows. A call is asked, runs in one step of the app (the
commands are synchronous) and is answered, in three steps with any others in
between: `view` is the read of the overview (`pending`), `call` the edit or
change (`busy`), `panelReads` the readings of a Full view's panel. `Paintable`
is the page's three checks of an answer. `trail` is history: what the edits not
undone replaced in the store.

### Sampler (`agent/src/metrics.rs`, `gpu.rs`, `server.rs`)

`loopAt` follows `sampler_loop` from `Prime` through `RefreshMachine`, `Compute`,
`WriteSnapshot` and `MarkSampled`; `SamplerPanics` may end it at any of them but
the last, and `Respawn` is its supervisor. A reading is the windows it was
measured over: `window` says how long ago each counter was refreshed, and
`OneHandle` is what the two `System` handles of `SamplerSystems` keep apart.
`served` and `markAge` are what requests read (`Status`). The probe (`probeAt`)
runs beside the loop, arm after arm; on a Mac the first may never answer.

### Containers (`main.rs`, `app/src-tauri/src/containers/`)

`poll_containers` is `BeginPass`, `AskRuntimes` (each runtime is not installed,
fails or answers, or the task panics), `SnapshotHosts`, `Fetch`, `Record` (under
the store's lock) and `Apply` (under the panel's). `pass` is what it carries from
one to the next, `panel` is `ContainersState`, `presence` the records in memory,
`onDisk` what the file has. `Noted` is `presence::note` for one name, `Merged`
is `merge`: a runtime that fails keeps its rows and gives no fresh fact.
`BeginRender` and `EndRender` are the two locks of `containers_view_in`.
`EditRules`, `SaveOther`, `ReloadHosts` and `StartAgain` happen at any step.

The rules of a section are what they make of each name: whether some rule expects
it, whether by its exact name, and whether an earlier rule hides or collapses it.
Host names stand for hosts (a rename is one leaving and another coming), as in
the code, which keys sections and records by name. `sighted` and `told` are
history: when a record was last due to a sighting that counts, and the same as
far as passes that the panel has applied knew; `left` is the hosts that left the
poll set since the snapshot of the last whole pass.

## 4. The runs

A run may follow parts that share no state. Its specification has a variable
`part`, chosen at the start, and follows only that part while the others stay as
they began: it checks each of them as if alone, in one run (the `VIEW` of
`secrets` keeps only the part that moves, which tells as many states apart). A
`.cfg` names properties in groups, as one conjunction each; the groups are
defined at the end of their modules.

| Run | Checks | Bounds |
|---|---|---|
| `agent_update` | `BinariesAreSafe` (only trusted runs, nothing is lost), `ReportIsTrue` (outcome, verified service), `RunsAreOrderly` (a leftover is kept, no run goes back), the refinement `ImplementsContract`, `LockIsReleased` under `FairSpec` | two updaters; three releases, a source build and a build without a version; a feed per release, a mismatched and an unsigned one |
| `half_done` | refutes `HalfDoneIsTrue` | as `agent_update` |
| `roster` | `TasksAreRight`, `NothingHalfStored`, `NoSecondCard`; of the page `DashInv`, `ShownNeverGoesBack` | two addresses, one certificate, two hosts; Settings alone with two tokens and two faults, or with the hand-off, one token and none. The page: two tiles of one source, 3 edits or changes, 3 Full views, 5 of them together, 2 readings under way, an undo history of 2 |
| `roster_race`, `roster_overwritten` | refute `PollSetFollowsStore`, `NotOverwritten` | as `roster` |
| `plan` | `ReadingsFollowOptIns`, `AlarmInTime`, `NotAskedTooSoon`, `DueIsRead` under `FairSpec` | a cadence of 2 ticks, a turn of at most 1, a Retry-After of 3 |
| `plan_off_read` | refutes `OffNeverRead` | the same |
| `secrets` | `SavedIsRead`, `ReadIsGenuine`; of the store file `StoreInv`, `PortfolioIsKept` (with the refinement `FileIsDurable`); of the installer `InstallInv`, `PairingKept`; of the containers panel `ContainersInv` | one fixed credential, one host, one account, two values, both writers; a portfolio of one repository, one organisation and its runners; two releases, the second of which serves HTTPS, two scripts, three minted secrets; of the panel one container, two instants with a grace between, and either this machine with two runtimes, the second of which lists nothing, and saves that work, or one host and saves that fail |
| `secrets_stranded` | refutes `NothingStranded` | the same |
| `watches` | `CardsAreDebounced`, `HostsAreTold`, `PanelIsOfTheList`, `VendorsAreTold`, `SamplerInv`, `FreshAgain` | two hosts and a threshold of 2; two vendors, one with a credential; of the sampler (`SamplerInv`, `FreshAgain`) processes every 2 ticks (60 in the code), stale after 2 (3), a probe every 2 (5) of at most 1 (2), one panic |
| `github` | `RosterIsTrue`, `RowsFollowSelection`; `NothingUnmentioned`, `ReadByItsOwner`; `ToldOnceAtMost`, `NeverSilent` | two organisations with one runner's name, a grace of 1 tick, an age-out of 2, a pass of at most 1; two accounts and one repository; two gated repositories and three run ids |
| `loops` | `ClawInv`, `SessionFollowsSettings`; `UsageInv`, `HalvesKeepTheirOwnTime`; `GuardInv`, `AttemptsArePaced`; `AppInv` | two gateways and two doublings; cadences of 1 and 3; an interval of 3 and a settle window of 2; three versions, two checks and two installs at once |

Why the bounds are enough. *Two updaters* are what a lock must keep apart; a
third can only wait for either. *Three ordered releases* give an older, an equal
and a newer candidate for each installed one, and the two builds without a CalVer
the two refusals. *Two addresses, one certificate, two hosts* give every outcome
of `decide` (no host, one at the address, one holding the certificate, both, two
different ones); a second certificate adds only rows that do not match. *Two
faults* let a step fail and its clean-up fail too. *A Retry-After longer than the
cadence, a turn shorter* give every order of the two in `next_wake`. *One
credential of each kind* is every branch of the routing, and two of them are
enough for one write to lose another. *A threshold of 2* tells one failure from
enough of them, *two organisations that share a runner's name* is what a roster
keyed wrongly mixes up, *a cadence of 1 beside one of 3* lets either half be due
several times in the other's turn. *A settle window of two ticks* is one that a
sleep can cut short, *an interval of three* is longer than it. *Two scripts* let a second install or
uninstall meet what a first one left half done; what three in a row add (two
failures, then a success) is bounded by `tried` in `GoodIsKept`, which promises
nothing beyond one release under trial. *Two tiles of one source* share a panel,
*three Full views* let one be left and opened again with a reading of the first
under way, and *three edits* overrun an undo history of two (20 in the
code). *One container of one source* is what each record, row and clock is kept
by, and *two runtimes* let one fail beside one that answers; *two instants a
grace apart* are a sighting and the alarm it earns (a longer grace, with instants
in between, is the proof's). *Processes every 2
ticks, stale after 2* tell a window of one interval
from a longer one and an age that is due from one that is past. The proofs
then drop these bounds.

Type invariants are checked as parts of the groups; those of the first four
modules and of `AgentInstall`, and the inductive invariants, are carried by the
proofs instead.
Deadlock is checked in every run.

## 5. Fairness

* `FairSpec` of `AgentUpdate`: weak fairness of `Step(p)` for every process. A
  running process is scheduled and every wait in it has a deadline
  (`wait_for_health`, the HTTP timeouts), so each step is left in finite time,
  one way or the other. Nothing is assumed of `Crash`, of the service, of the
  operator, or of which answer the network gives.
* `FairSpec` of `PlanUsage`: one launch, with weak fairness of the loop's steps,
  of `Reset` and `Notify` (a command begun is finished: nothing in it waits but
  for two short locks) and of time. Nothing is assumed of the operator, who may
  flip opt-ins or not, nor of launches.
* `watches`: weak fairness of the watch's steps, of each host's `Poll` (its
  request has a timeout, so it is answered or fails; which of the two is not
  assumed), of the Services loop and of the wake that ends a Settings command. In
  the sampler, of the loop with its supervisor, of the clock and of the probe's
  timers (`ProbeStarts`, and `nvidia-smi`, which is killed at its cap); not of
  IOKit, which nothing stops from hanging.
* `github`: weak fairness of the loop and of `ForgetRow`, the second half of a
  command begun. The passes' outcomes are left open.
* `loops`: weak fairness of each loop's steps and of the announcements and wakes
  that end commands. Time is strongly fair in the usage loop, since wakes, which
  it does not exclude, may come at every instant in between, and weakly fair in
  the guard. Nothing is assumed of the guard's timer: neither launchd nor systemd
  makes up for a firing that a sleep takes, and a sleep may follow any wake at
  once. What `NeverStarves` needs of the host is its antecedent `HostAllows`, not
  a conjunct of the specification. Nothing is assumed of gateways, of the clock or
  of the operator, except where a property says that edits or meddling end.
* The other parts have safety properties only and no fairness.

## 6. What is proved

Every theorem rests on its module's named assumptions only; TLC evaluates them in
every run. They say that null values are not values (`Absent` is no env file,
`NoRows` no rows, `NoFile` no store), that bounds are numbers, that a debounce or
an interval is at least one, that an age-out is longer than the grace before an
alarm, that there are three run ids (a parked run, the one read before it and the
next), and at most three runtimes on the cockpit's machine, as in the code. None
of them bounds the number of hosts, vendors, repositories, scripts or steps.

* `AgentUpdateProofs`: `Invariance` (`IInv`), from it `TypeCorrect`,
  `OnlyTrustedRunsHolds`, `NothingLostHolds`, `OutcomeIsTrueHolds`,
  `VerifiedServingHolds`, `LeftoverKeptHolds`, `RunsEnd` (a run takes 19 steps at
  most, by the rank `Ahead`), and `Implementation`: every
  behaviour of the transaction, through the refinement mapping, is one of
  `InstallContract`. `IInv` = type, the lock is held by exactly the process that
  is inside (`LockInv`), the history is of trusted executables (`BaseInv`), and
  for each pc what the files, the update and the rollback have done so far
  (`FilesInv`, `UpdateInv`, `RollbackInv`). The safety properties speak of the
  end of a run only; without what each pc knows they are not inductive.
* `HostRosterProofs`: `RosterInvariant`, from it `TypeCorrect`, `NothingUnsaved`,
  `TokensHaveHosts`, `TasksSendStoredToken`, `OneCardPerMachine`,
  `TasksStayRight`. `RosterInv`
  says who is inside the lock, that ids are minted in order, what an operation
  under way has already changed (`OpInv`), which rows memory and file may differ
  in (`RowsInv`), and that a task with an older token is about to be replaced
  (`StaleInv`). `NothingUnsaved` and `TokensHaveHosts` are proved with the
  hand-off running and any number of faults, which the run with faults does not
  cover.
* `PlanUsageProofs`: `PlanInvariant` (`PlanInv` and `AlarmInTime`), from it
  `TypeCorrect`, `NoStaleReading`, `OffIsEmpty`, `OnPersists`, `WakesInTime`,
  `DenyIsFinal`, for any cadence, turn length and set of waits. The strengthening
  says what each part of the loop has still to do about what a flip may have left
  behind: `OffInv` (who will clear a reading that is left), `DeniedInv` (a
  refusal stays parked until the reset that ends a flip, unless the loop finds
  the provider off first), `AskedIsCurrent` and `FreshInv`. `WaitsAsTold` has an
  invariant of its own, `OwedInv`: what is left of a Retry-After never exceeds
  the time to the next read by more than a turn, for a provider that is on or is
  about to be read.
* `SecretsProofs`: `SecretsInvariant`, from it `SavedIsReadAlways` and
  `NothingComesBack`, for any credentials, hosts, accounts and values.
  `SecretsInv` adds to `SavedIsRead`: the holder of the lock has the blob as its
  copy (`LockInv`), where there is no blob it holds nothing (`BlobInv`), hosts
  that have no id yet have no token (`UnbornInv`), an account's token is outside
  the blob only if it was saved without one (`ExposedInv`), and both places hold
  only values saved since the credential was last cleared (`GenuineInv`).

  `StoreFile`: `StoreInvariant` (`KeptInv`), from it `StoreIsInOnePiece`,
  `OwnersStay`, and `StoreIsDurable`, the step simulation of `DurableFile`, both
  in `PortfolioStays`. `KeptInv` adds to `StoreInv` that no file is torn but the
  temporary one (`NothingTorn`), who is writing in which phase (`WritesAreBegun`)
  and that the older directory is adopted before anything is opened
  (`AdoptionIsFirst`): without the last an interrupted adoption could be followed
  by an empty store.
  `AgentInstall`: `HostsAreInductive` (`HostInv`), from it `InstallsAreSafe` and
  `PairingsStay`, on every host an installer finds, for any releases and scripts.
  `HostInv` follows a bind from the env file through the decision to what is
  served (`BindInv`), the good release through the steps that replace it
  (`GoodIsNear`, `ReplacedInv`), what an uninstall has stopped and removed so far
  (`StoppedInv`), and the pairing's token and certificate from file to file
  (`TokenInv`, `CertInv`).
* `WatchesProofs`: `CardsOnlyTurnWhenDue`, whose property is inductive as it
  stands; `PanelFollowsTheList`, with `NoEditMissed` for `EditIsSeen`: a pass
  that is waiting has seen the last edit, or the wake for it is there or to come
  (`NoWakeIsDue`); `BannersAreTheNews` and
  `BannersAreTheChanges`, the safety halves of `HostsAreTold` and
  `VendorsAreTold`, from the fact that the watch's baseline is what history says
  it saw; `ServingIsInductive` (`ServingInv`) and from it `ServedIsTrue`.
  `ServingInv` relates the age of each counter's window to where the loop is
  (`FigureInv`), the mark's age to the write's (`MarkInv`), and how long a card
  has been gone to the arm the probe is in (`ProbeInv`).
* `GithubProofs`: `WaitingIsInductive` (`GateInv`), from it `WaitingIsToldOnce`
  and `WaitingIsTold`: what was announced or silenced is in the baseline, or in
  what the pass under way has read, unless its repository could not be read.
  `PlansAreInductive` (`ReposInv`), from it `NothingGoesUnmentioned`, and
  `OwnersRead`: while no wake is pending, the plan under way is the one the
  settings of now would give (`PlanIsCurrent`); an edit sets the wake, and the
  pass that ends with a wake set is not at rest. `CopiesAreInductive`
  (`PassInv`), from it `ClocksAreTrue`: a pass's copy of the roster is the last
  sightings less what it has itself delivered, and holds nothing that was
  forgotten between passes. `ClocksAreTrue` has the safety half of
  `RowsFollowSelection` too, `SelectionIsShown`: at rest with no wake stored the
  rows are of the organisations selected (`RowsAreOfThePlan`, of a pass as well).
* `LoopsProofs`: `AppIsTrue` (`AppInv` is inductive); `PaceIsInductive`
  (`PaceInv`), from it `DiscardsEnd` and `AttemptsAreApart`: during a run of
  discards every clock goes on as long as `calm`, so that the rules that discard
  run out; `LoopMissesNothing` (`LoopInv`) and `HalvesAreApart`: a flag that the
  loop has already passed in this turn has its notification before it; and
  `PanelIsOfThisGateway` (`FarmInv`) and `NoEditIsLost`, the safety half of
  `SessionFollowsSettings`.
* `DashboardProofs`, of the page: `PageIsInductive` (`PageInv`), from it
  `UndoAndBodyAreTrue` and `PageNeverGoesBack`, for any number of tiles, edits,
  changes, views and readings. `PageInv` says how a late answer is told from a
  new one (`OlderReadsAreTold`), and what the history will be once the call under
  way is answered (`HistoryIsOfTheTrail`). Of the containers panel:
  `PanelIsInductive` (`PanelInd`), from it `AlarmsAreEarned`, for any hosts,
  containers, rules and grace, with a machine whose runtimes and whose saves
  fail, and several hosts at once, which the run leaves out. The one bound, three
  runtimes at most, is `LocalRuntime::ALL`. `PanelInd` adds to the properties
  that a pass is no older than anything it may overwrite (`PassIsLast`), which
  hosts a snapshot may still be ahead of (`SectionsAreOfTheSet`), and what a
  render that began before a pass ended may hold (`RenderIsOfThisPass`): a date
  older than the panel knows of only if the panel now lists the container, so
  that the mix of an old record and a new clock raises no alarm.
* `HostRosterProofs` also says how far `PollSetFollowsStore`, which `roster_race`
  refutes, is true. `FollowInv`: a list that was read and not overtaken is still
  the one to apply, and one that was applied so is what is polled. From it
  `OnlyCrossingReloadsFallBehind`, with both actors: two reloads that cross are
  the only way the poll set falls behind, whatever fails and however often the
  process stops. And `AloneThePollSetFollows`: with any one actor nothing is
  overtaken, and the property holds as it stands.

The groups that the runs name are theorems too: `BinariesStaySafe`,
`ReportsAreTrue`, `RunsStayOrderly`, `NoHalfIsLeft`, `TasksStayRight`,
`OptInsAreFollowed`, `AsksInTime`, `PortfolioStays`, `InstallsAreSafe` and those
above.

What the proofs found wrong, in the models and not in the code:

* The installer's history `asked` kept the operator's bind through a `--purge`
  that had deleted the env file and failed to delete the older agent's: with
  *three* scripts the next install takes the older agent's wildcard, and
  `OwnWildcardHasTls` was violated, because `asked` did not say that this bind was
  an operator's word too. `asked` now follows the files a purge leaves; TLC agrees
  with three scripts, the proof with any number.
* `RunnerRoster`'s type did not hold of a pass longer than the age-out: the age
  of a sighting was not saturated when it was delivered. `ForgetSticks` no longer
  excepts a pass that is about to store.
* Some `CASE` arms overlapped, which TLC resolves by their order and TLA+ does
  not (`VendorWatch`, `HostWatch`, `RepoPass`, `RunnerRoster`); they are disjoint
  or nested `IF`s now.
* `StoreFile`, `AgentInstall` and `Sampler` needed it said that their null value
  is none of the values.

Model-checked only: every liveness property, for fairness is out of the prover's
reach (`LockIsReleased`, `DueIsRead`, `FreshAgain`, `RowsFollowSelection`,
`SessionFollowsSettings`, and the halves `DownIsNoticed`, `EditIsSeen`,
`BothAreRead`, `NeverStarves` of the groups that have one). What safety they rest
on is proved: that no edit is left to the cadence (`NoEditMissed`,
`SelectionIsShown`, `NoEditIsLost`), that the alarm is set in time
(`AlarmInTime`), and that a run of the updater only goes forward
(`RunsGoForward`, the rank behind `LockIsReleased`). Model-checked only, too, are
the refutations, which are single behaviours, and what the migrations and figures
compute from data that the models abstract.

## 7. Where the code and its words disagree

1. `half_done`: a rollback that stops between its copy to `.rollback-displaced`
   and its swap makes the next one report a half-done rollback that did not
   happen, and print a remedy that overwrites `.prev` (`update.rs:2989`).
2. `roster_race`: two reloads apply in the opposite order to that in which they
   read; the poll set keeps the older list (`main.rs:1277`).
3. `roster_overwritten`: `confirm` compares which row was decided about, not what
   it holds (`pairing.rs:46`).
4. `plan_off_read`: an opt-in turned off between the loop's question and its lock
   is read after it was turned off (`plan_usage.rs:326`).
5. `secrets_stranded`: after a failed migration an account's token is saved to
   its own item, which the next launch's blob shadows (`main.rs:7421`).

The following are in the models, which do what the code does, or were met while
modelling, and have no run of their own.

Updates and installs:

* An update whose swap rename fails exits 1, "failed and nothing changed", after
  it has replaced `.prev` (`update.rs:2860`, `SwapFails`).
* `install.sh` replaces `.new`, `.prev` and the live binary without the updater's
  lock (2290), against its comment at 836-838.
* It writes the env file (2258) before it swaps the binary (2291): a run that
  stops between leaves `SOLADOR_AGENT_TLS=1`, and the bind the installer chose
  for it, to an older binary that ignores both until the next run (comment
  2003-2006). `OwnWildcardHasTls` therefore speaks of binaries that can serve
  HTTPS only.
* `uninstall --purge` leaves `solador-agent.env.new`, with its token, and the
  TLS pair's `.new` files of a run that was killed.
* Reinstalling the last good release over one that was never verified copies the
  unverified one over `.prev`; `GoodIsKept` does not promise otherwise.
* The launcher discards what "all of which tomorrow's firing resolves by itself"
  (`run-agent.sh:149-150`), yet has no hold for a stamp far in the future
  (209-212); `GuardDiscardsEnd` is stated for systemd.
* The app's banner is "one per version, per process" (`update.rs:24`), but a feed
  that goes forth, back and forth again is told twice; and a check that finds
  nothing newer clears "installed" although the app never restarted (204-209).

Hosts and hand-off:

* "unchanged" is answered from a decision that the health check made old
  (`server.rs:196`, `AnswerUnchanged`).
* A resume that falls between the copy of the cards and the comparison is
  followed by a pass that takes its baseline from before the sleep
  (`services.rs:1080`).

Credentials, plans, the store file:

* A Retry-After is counted from before the keychain and the request, so
  `RetryAfterHonoured` allows for the length of a turn (`plan_usage.rs:206`).
* A v1 file that waits for its token, and whose repository names an account
  removed meanwhile, has it given to the minted account (`migrate_v1_to_v2`).
* The comment at `main.rs:1576-1578` says the GitHub tab still writes the v1
  token; no field of Settings does.
* The blob's lock is the process's own: two instances of the app can lose each
  other's write (`secrets.rs:493`).

GitHub and OpenClaw:

* A repository that is removed keeps its row when the pass has no results
  (`main.rs:2044-2048`), against `github/mod.rs:355-356`.
* A session that ends with pairing required goes on without `backoff.reset`
  (`main.rs:4163`), against `backoff.rs:89-93`.
* `load_or_create` overwrites the approved device key when reading it fails and
  writing works; an agent whose end was missed stays "running"; `reducer.rs:34`
  says one reducer per session, `main.rs:4061` one per gateway; deleted cron jobs
  stay until the gateway changes.

The containers panel:

* "a host removed mid-poll cannot leave a ghost section" (`main.rs:1415`): the
  set of hosts it goes by was taken before the requests (1332), so it can, until
  the next pass ends. `GhostsEndWithAPass` promises that much.
* "a restart cannot manufacture an alarm" (`containers/mod.rs:115`): the first
  answer after the app was not running for longer than the grace sets the clock,
  and a container it does not list is "missing" at once, although nobody looked in
  between. `MissingIsEarned` measures from the last sighting.

The agent's sampler:

* `metrics.rs:706` says `/v1/health` tells a consumer that a sample is a
  placeholder; the mark begins as now (609), so an agent that has just begun says
  "ok" of its placeholder for three intervals. `OkIsEarned` excepts it: its
  history, too, begins with the start.
* `metrics.rs:754` calls the rates' divisor the elapsed time, and the loop passes
  a constant second (682): after a refresh that hung, disk and network rates are
  too high once. The model keeps the windows, `OwnWindows` promises nothing of
  that quotient.

The dashboard page:

* When the answer to an edit is lost, a read that is forced (Settings closes, a
  Full view opens or closes) takes the new layout and keeps the history of before
  it: Undo then skips that edit. `UndoReversesTheLastEdits` excepts it
  (`unheard`).
* A panel's first reading, asked before `dashboard.js` has loaded, is not held
  against a Full view's generation when it returns (`app.js:42`); the model
  begins after these readings.
* `tileGone` decides by "a fresh model" (`dashboard.js:2726`), but its read is
  skipped while an edit is under way or Settings is open: a refusal for a tile
  that is being hidden then counts as a failed read of the machines, until the
  next one works.

## 8. What is not modelled

* In `AgentUpdate`: finding the install (unit and plist parsing), the env file,
  the wording of reports; `redeploy.sh`, and `install.sh` beside a running
  updater; a power loss that reorders renames; cryptography.
* In `HostRoster`: names, display order, container rules and other settings
  (`SaveOther` stands for their saves); `store.save` is one step that works or
  fails (`StoreFile` has its steps); the channel's framing and peer checks.
* In `PlanUsage`: the wording of rows and logs; a change of cadence (its wake is
  `WakeOther`, its new value is not taken).
* In `Secrets`: the device key, which never enters the blob; two app instances
  on one keychain, which the code itself excludes (`secrets.rs:490`); switching
  `SOLADOR_LEGACY_SECRETS` between launches; damage to the blob in the middle of
  a write; a failing save of a host's row (`HostRoster` has it). A launch with
  another store directory touches fixed credentials only.
* In the watches: what a snapshot holds and when it is stale, thresholds of
  warnings, a vendor's components; in the GitHub modules: what a run's rows say,
  pagination, rate limits (a fetch fails), issues and pull requests.
* In `StoreFile`: settings and records no migration moves; two processes on one
  directory. In `OpenClaw`: several agents of one gateway, cron jobs, the frames
  of the protocol. In `UsageLoop`: what the two halves read.
* In `AgentInstall`: the tailnet-only mode (`SOLADOR_AGENT_REQUIRE_TAILNET`),
  `--migrate-from-opt`, launchd and the system daemon, the update timer's files,
  `redeploy.sh`, `bootstrap.sh`, the updater at the same time, and an env file
  edited by hand.
* In `RepoPass`: an account whose item name cannot be resolved, which polls
  nothing and says so (`main.rs:1728-1729`); a save and its wake are one step,
  where the code has two (`main.rs:5466-5469`), the wake being kept either way.
* In `OpenClaw`: the address and the token are read at once, where the code takes
  two locks; a session that began with one of each ends at the wake that the edit
  goes on to give.
* In `UpdateGuard`: what holds a firing before the settle rule is one choice
  (`placed`): the arguments, the clock, the activation, the count of suspends, or
  the launcher's wake and boot times.
* In `Sampler`: the figures, the filters of volumes and processes, the request
  handlers but for the health status, authentication, the containers command. No
  tick passes between the write of a snapshot and its mark, where the code waits
  for nothing.
* In `Containers`: a clock that is set back, aggregates, the footer and the title,
  the parsing of what the tools print, a pass that spans two renders' locks (a
  render overlaps one pass at most), two hosts of one name.
* In `Dashboard`: saves from an open Full view (the runner's own switch,
  `dashboard.js:2705`); the inspector with its preview, Detail, dragging, the window's
  height, focus; how readings become rows and warnings (pure, and data); a call
  that never returns.
* The remaining parts that `PROJECT.json` lists as not modelled, with the reason
  each: most are one loop that fills one cell, one request, or pure formatting.
