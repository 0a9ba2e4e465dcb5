# Formal models of traction-control

TLA+ models of the stateful parts of traction-control, the TLC
configurations that check them on small instances, and proofs that TLAPS
checks for every instance.  `PROJECT.json` maps each definition to the lines of
source it stands for, lists every run with what it shows, and pairs each checked
property with a change of the code that would break it.

## 1. The system

traction-control is a set of command line programs that govern a portfolio of
git checkouts.  No program is a server: each invocation is a process that reads
owner-only JSON files, takes `flock(2)` locks, calls git, `gh`, restic or systemd
under time limits, and replaces files.  What makes the programs hard is that
several run at once (timers, an operator at a terminal, an agent), that any
of them can be killed between two writes, and that an operator edits the files
they read.

| Component | State it keeps | Operations | Talks to |
| --- | --- | --- | --- |
| Private sidecar coordinator `portfolio_sidecar.py` | state file (generation, per dataset sequence, manifest and replicas), evidence files, `spool/`, the sidecar lock | `init-config`, `inventory-candidates`, `init-state`, `validate`, `plan`, `backup`, `drill` | registry and catalog (reads them, holds their locks), restic targets over ssh |
| Repository visibility registry `repository_visibility.py` | the private and the public registry file, one generation | `init`, `record-private`, `record-public-observed`, `reconcile-observed`, `audit`, `scan` | GitHub through `gh`, git indexes |
| Catalog and materializer `portfolio_materializer.py` | catalog file (generation, bound registry generation), checkouts below the portfolio root | `init`, `reconcile`, `refresh-archive-state`, `plan`, `audit`, `materialize`, `sync` | registry (holds its lock), git, GitHub |
| Job guard `job_guard.py`, `job_guard_notify.py` | per-unit deferral counters, event log, the notifier's cursor | `check`, the notifier's run, `install`, `status` | systemd, the hardware sensors, a messaging tool |
| Agent job runner `run_traction_control_job.py` | per-job schedule file, the job lock | `run` | launchd, the job it starts, the boot identity, the network |
| Actions switch `actions_switch.py` | the ledger of pauses and announcements | `enable`, `disable`, `check`, `status` | GitHub Actions settings through `gh`, a messaging tool |
| Portfolio purge `portfolio_purge.py`, `branch_inventory.py` | none of its own | classify, remove worktrees, local and remote branches | git, GitHub's pull requests |
| CI mail monitor `monitor_github_ci_emails.py` | state file of failures, the folders of a mailbox | one scan | IMAP, GitHub, a messaging tool, the repair timer |
| Archility deployment `archility_pr_deploy.py` | branches and pull requests on GitHub | deploy | git, `gh`, an external renderer |
| Lifecycle review `portfolio_lifecycle_review.py` | none | report | catalog and registry |
| Azure runner secret rotation | client secrets of an application, a Kubernetes secret | rotate, remove the old secret | Azure, Kubernetes |
| Firewall hardening | firewalld zones and their backup | harden, verify, roll back | firewalld |
| Renderers, audits, installers, settings tools | files they write once | render, scan, install | - |

How the parts interact:

* The registry is the root of trust.  A catalog is bound to a registry
  generation, a sidecar policy and target file to another, a sidecar state to
  the content of all of them.  A reader that finds the generations apart refuses.
* Locks are nested sidecar, then registry, then catalog, and held across the
  last comparison and the write that depends on it.  They are `flock`s on open
  files: the kernel drops them when the process dies.
* Files are replaced with `os.replace`, or published with `os.link` where
  nothing may be overwritten.
* Timers, the operator and agents start the programs; nothing coordinates
  starts but the locks.

What is hard here, and what the properties are for, is listed line by
line under "hazards" in `PROJECT.json`: reads before the lock, locks let go
while restic runs, a kill at a timeout after the work was done, quorum versus
all, a crash between two replaces, events applied out of order, a counter shared
by two retry chains, a ledger saved by two programs.

Correctness, component by component:

* sidecar: the state records only snapshots that exist, with enough
  acknowledgements; no commit is lost or built on old data; evidence is true,
  bound to the state and never replaced; every command ends;
* its first files: both documents or neither, and nobody's file replaced;
* its captures: what is stored is what all files were at one moment, and a
  restore is accepted only if it is that;
* its subprocesses: no signal to a stranger, nobody left behind, every run ends;
* registry: readers never act on a mix of two registries, and every entry is what
  GitHub showed;
* catalog: the rows of one registry generation, none lost; no checkout
  overwritten, none installed under a wrong name;
* job guard: heavy jobs do not run together, a deferred job is retried until it
  is dropped, and every drop is told;
* job runner: a job runs again and again, alone, and not before its time;
* actions switch: every pause that was reported has its reason on file, what needs
  attention is announced, what was switched on is on;
* purge: only finished work goes, whatever people do meanwhile;
* mail monitor: no failure is lost, and every fix is announced;
* archility deployment: one open request for a repository, and every drift
  proposed.

## 2. The modules

| Module | Models | Run by |
| --- | --- | --- |
| `Sidecar` | `init-state`, `validate`, `plan`, `backup`, `drill` as concurrent processes, with registry, catalog, operator and targets around them; refines `ProtectionLedger` | `MCSidecar` |
| `ProtectionLedger` | what the sidecar promises: a ledger of commits without files, locks or processes | |
| `Bootstrap` | `init-config` and `inventory-candidates`: publication by link and unlink, rollback, the double enumeration | `MCUpkeep` |
| `Capture` | the copy of one dataset while people write to it, and the comparison of what a target gives back | `MCHost` |
| `Supervision` | the process group of one restic run, from launch to the last collected helper | `MCHost` |
| `Registry` | the two registry files, their writers and their readers; refines `Classification` | `MCRegistry` |
| `Classification` | what the registry promises: one slug and one visibility for a repository | |
| `Catalog` | `init`, `reconcile`, `refresh`, `materialize`, `sync` under the registry and catalog locks | `MCCatalog` |
| `JobGuard` | the check before every timer-driven job, under systemd's activations | `MCHost`, `MCUpkeep`, alone |
| `JobGuardNotify` | the notifier, its state file and its channels | `MCTimers`, alone |
| `JobRunner` | the interval jobs of macOS: lock, schedule file, boots, network | `MCTimers` |
| `ActionsSwitch` | `enable`, `disable`, `check` and their ledger | `MCTimers` |
| `MailMonitor` | scans of the inbox, notices, repair triggers, the state file | `MCUpkeep`, alone |
| `Purge` | removal of worktrees and branches while people work | `MCUpkeep`, alone |
| `Archility` | the diagram job: look, clone, render, push, request | `MCUpkeep` |
| `SidecarProofs`, `RegistryProofs`, `CatalogProofs`, `JobGuardProofs`, `BootstrapProofs`, `HostProofs`, `UpkeepProofs`, `TimersProofs` | the theorems; the last three are about the modules that `MCHost`, `MCUpkeep` and `MCTimers` compose | |

How the modules compose.  `Sidecar` contains the registry and the catalog as far
as it sees them (generations, locks, and commands that rewrite them under these
locks); `Catalog` contains the registry in the same way, with its contents, and
GitHub.  A capture and a run of restic are one step each in `Sidecar`: `Capture`
justifies that a manifest is the files of one moment (`CapturedAtOneMoment`) and
that a drill that finds a snapshot good has found that very content
(`RestoredWasThere`); `Supervision` justifies the fairness of the steps that
wait for restic (`RunEnds`).  `Registry` and `JobGuard` stand alone: the guard
reads nothing of the others.  The programs of `MCHost`, `MCUpkeep` and `MCTimers`
share no variable; a variable `program` chooses one of them at the start, so
that one run answers for all without multiplying their states.

### 2.1 Sidecar

A process `p` runs one command after another.  Its program counter names the
place in the command, and the places are the same for every command because the
code shares them:

| `pc[p]` | Code (`portfolio_sidecar.py`) | Actions |
| --- | --- | --- |
| `governance`, `documents` | `_load_inputs`: the registry and the catalog, then `load_policy`, `load_targets`, `load_state` | `ReadGovernance`, `ReadDocuments`, `RejectInputs` |
| `sidecar` | `_SidecarLock`, the no-overwrite checks, `_StagingArea.__enter__` | `LockSidecar`, `Refuse` |
| `registry`, `catalog` | `_locked_registry_snapshot`, `_CatalogLock`, then `_locked_current_inputs`: every input read again and compared | `LockRegistry`, `RegistryMoved`, `LockCatalog`, `InputsMoved` |
| `current` | the first locked section: publish the first state, or capture the datasets | `InitializeState`, `Validate`, `CaptureDataset`, `Plan`, `Stage`, `MovedWhileCapturing` |
| `work` | restic at the targets, only the sidecar lock held | `Replicate`, `ReplicateFails`, `VerifyReplica`, `VerifyFails`, `Settle` |
| `registry again`, `catalog again` | the same locks and comparisons a second time | as above |
| `current again` | the second locked section: capture again, then `_write_state_json` or `_write_new_private_json` | `Recapture`, `SourceChanged`, `Commit`, `CommitNothing`, `PublishEvidence` |

`Interrupt` is an exception or Ctrl-C at any place, `Crash` is the death of the
process: the kernel drops its locks, nobody removes its run directory from
`spool/`.  `Leave` is the way out through the `with` blocks, the removal of
the run directory included, which may itself fail.

Data is reduced to what the code compares.  The selected files of a dataset are
a version number (the capture compares inodes and change times, so putting the
old bytes back is still a change), a manifest digest is the version it was
computed from, a snapshot identifier is an index into the repository of its
target.  A document is a record and equals another when all its fields do, which
is how the code binds a state to policy, targets and registry.  The catalog and
the registry are generations.  The environment edits the files, rewrites the
registry and reconciles the catalog under their own locks, retires a state epoch,
clears a stale spool, and loses snapshots at a target.

### 2.2 JobGuard

One activation of a unit runs through `phase`: `checking` (the readings and the
list of active units have not been taken), `admitted`, `deferring`, `noting` (the
retry timer exists, the counter is not yet written), `announcing` (the counter is
cleared, the event not yet appended), `running`, and `stopping` (the time limit
has passed and processes linger).  `Decide` is `read_readings`, `active_units`
and `decide`; `Retry` and `Note` are `schedule_retry` and `write_state`, in
that order; `Drop` and `Announce` are the branch above the cap.  systemd is
external: `TimersFire`, `RetryFires`, `MergedStart` (a start of an active unit
joins the activation under way), `Finish`, `Overrun`.  The start times that the
code sorts by are modelled by `ahead`: the units that are active and started
earlier, or at the same instant with a smaller name.

Three constants say which faults a unit is exposed to, so that one run shows
that a faulty unit harms nobody else: `Blind` (the listing fails, or the unit
runs on after its time limit, which systemd does not list as active),
`Forgetful` (its timers, its counter or its event are lost, or its check is
killed) and `Overlap` (its own timer may fire while a retry is pending).

### 2.3 JobGuardNotify

One run of the notifier is `ReadEvents`, `MakePlan`, a send, `Truncate`, `Save`:
the events and the deferral files are read at two moments, and the state file is
truncated before it is written.  A send may succeed, fail, or succeed and be
reported as failed, when the channel is given up after its time limit.  The guard
is reduced to what it leaves behind: `first_deferred_at` of a unit, and
events whose time is taken (`Stamp`) before they are appended (`Append`).

### 2.4 Registry

A writer observes GitHub where its command does (`Observe`), takes the lock,
loads and checks the pair (`Load`: `load_pair`, then `record_private`,
`record_public_observed` or `reconcile_observed`), and replaces the private file
and then the public one.  `GiveUp` is a refusal, an error or a kill between any
two steps.  A reader (`ReadPrivate`, `ReadPublic`) takes no lock and refuses a
pair that `load_pair` would.  A document is its generation and its entries
`<<id, slug>>`.  `coherent` and `past` are history: the pairs that were on disk
complete.

### 2.5 Catalog

A process runs one command: `Start` and `Load` read registry and catalog without
a lock, `Hosted` asks GitHub, `LockRegistry`, `LockCatalog` and `Reload` take the
locks and compare.  `init` discovers checkouts (`Discover`, `Create`, `WriteNew`),
`reconcile` and `refresh` replace the file (`LoadStale`, `Observe`, `Replace`,
`ReadBack`), `materialize` and `sync` go through the rows (`InspectRow`, `Clone`,
`VerifyClone`, `StillFree`, `Rename`; `VerifyRow`, `Fetch`, `VerifyAgain`).  The
registry is the sequence of its generations, so that one read earlier can be
compared.  A place on disk has a kind, the slugs its remotes name, and the
repository whose content it holds, which no command can see but only ask GitHub
about.  `Register`, `Move`, `Edit` and `Kill` are the world.

### 2.6 Bootstrap

A paper has a writer, the pair of generations it was bound to, and its links: 1
when it is published, 2 between `os.link` and `os.unlink`, when no reader
accepts it.  `init-config` is `WriteDocument` twice, `CheckPair` and, when it
fails, `Undo`, which removes only what is still the file it made.  The lister
enumerates each candidate, has git prove it ignored, enumerates it again, asks
for git's list again, and compares registry, catalog and output before it
writes.  A kill between link and unlink leaves a paper with two links, which
`docs/private-sidecar.md` leaves to a person (`RemoveLone`).

### 2.7 Capture

A file has two parts and a time of change; parts are read one after the other
(`ReadPart`) between the two looks at the time (`OpenFile`, `CloseFile`).  A
selector is enumerated (`OpenFolder`, `StatNode`, `CloseFolder`), first before and
then after the copies (`ListAgain`), and `FinishCapture` compares the two lists
and the times of the copies, asks for the state of the checkout and the ignore
proof again, and stages.  `Store` gives what is staged to a target; the commit
may follow or not.  A target may give back a snapshot with a file lost, changed
or added, or the files of one capture with the manifest of another
(`Restorable`); `VerifyRestored` accepts what passes the digest of the manifest,
the comparison of names, and the digests of the files.  Equal digests stand for
equal content.

### 2.8 Supervision

`members` is the state of restic and its helpers as the kernel sees them, `at`
the place in `_run_bounded_process_locked`.  A helper is collected by its
parent; when the parent exits, by the subreaper on Linux and by launchd on
Darwin.  restic is observed with `WNOWAIT` (`SeeExit`), the group is killed
while its leader is still uncollected (`KillGroup`), then the leader is waited for
(`WaitLeader`), and on Linux what was adopted is collected and struck again
(`ReapGroup`, `StrikeAgain`).  `Recycle` gives the number of the group to a
stranger as soon as the kernel may.  On Darwin a zombie that launchd has not yet
collected makes a good run fail (`Probe`), which is on the safe side.

### 2.9 JobRunner, ActionsSwitch

`JobRunner` keeps times as what is left until them.  `Poll` reads the clock,
`TakeLock` may come up to `MaxLag` later, `Renew`, `Attempt`, `RunCommand` and
`CommandEnds` are `_prepare_due_interval`, its write, the command and
`_record_success`.  A kill leaves the old file, since it is replaced, and leaves
the command running; a reboot changes the boot identity.

`ActionsSwitch` has two processes, the daily `check` and an operator, each with its copy
of the file from load to save.  `Visit`, `Permit` and `Revive` are the calls of `enable`
and `disable` for one repository.  While GitHub does not answer, a call is reported as
failed and the run goes on with the next repository: it changed nothing (`VisitFailed`,
`CallFailed`), or GitHub did what a `PUT` asked for and the answer was lost
(`AnswerLost`; `gh` fails, or is given up after 60 seconds).  A `disable` whose answer
was lost leaves the repository off and writes no note; the next `disable` finds it off
and writes one.  `Examine`, `Judge`, `Send`, `SaveTold` are `check`, and `SendFailed` is a
send that was reported as failed, delivered or not, after which nothing is saved.  That
two runs overlap, that one is killed, and that a person uses GitHub's own switches are
actions of the world.  Histories keep what the properties speak of: which repositories
are off since `disable` reported them as off (`paused`), what was announced (`told`), and
which announcements the file need not name (`unfiled`), since a check has found them
resolved or their send was reported as failed.

### 2.10 MailMonitor, Purge, Archility

A mail is a CI run and the attempt that failed.  A scan moves each mail (copy,
flag, and an expunge that takes along whatever is flagged), then its own old
notices, asks GitHub for the last run of each branch (`LookAt`), announces
(`SendNotice`), schedules a repair (`Trigger`) and writes the file (`Save`).  A call
that fails ends the scan where it is (`Stop`).

In `Purge` a commit is a change, and branches are sets of changes; a squash gives
main the content without the history.  The run looks at a worktree or branch in
one step and removes it in a later one; in between people commit, push, lock,
merge and switch.  git's own refusals (`Refused`, `Deletable`) are external.

In `Archility` a branch is named for the commit of the default branch that
`ReadBase` saw, and shows what the clone, made later, contained.  Two runs, the
scheduled and a manual one, may overlap.

## 3. What is checked

Every property of a passing run is paired in `PROJECT.json` with a change to a
definition that a plausible bug would make (a comparison dropped, a lock let go
early, a quorum off by one) and that makes TLC find the property violated.

| Run | Question | Bounds |
| --- | --- | --- |
| `race` | Two processes open an epoch and back up one dataset that is edited meanwhile.  Are commits lost or stale?  Does every command end? | 2 processes, 1 dataset, 1 target, 2 versions, 2 snapshots, no edits of the inputs |
| `governance` | Two commands run while registry, catalog, policy, targets, known_hosts and state move.  Is what is acted on and written one governance, the one in force? | 2 processes, 1 registry step, 3 edits of any file, 1 version, 1 snapshot |
| `targets` | Backups and drills of two datasets share the directory while a target fails or loses a snapshot.  Is evidence true, bound to the state and never replaced?  Does the state promise only what exists?  Is the ledger implemented? | 2 processes, 2 datasets, 2 targets, either quorum, 1 snapshot for each target, 1 lost |
| `host` | Guard: three heavy units, one of them faulty in every way.  Do the others take turns, is waiting free of circles?  Capture: is what is staged of one moment, and what a restore accepts that?  Supervision: is a stranger struck, is anybody left, does every run end? | 3 heavy units, cap 2, 1 trigger each; 2 directories with 3 files, of which 2 are allowed, 2 captures, 2 changes; restic and 3 helpers, any number of runs |
| `registry` | Two commands of any kind on two repositories, failing anywhere, while GitHub changes.  Do readers see one registry, is the classification implemented? | 2 processes, 2 ids, 2 slugs, 3 generations, 1 change on GitHub |
| `catalog` | Two commands of any kind while a repository is registered or renamed, a file edited, a process killed.  Are rows lost, checkouts overwritten, or installed under a wrong name? | 2 processes, 2 ids, 2 slugs, 2 registry generations, 1 event |
| `upkeep` | Guard: is every deferral followed up, does every series end?  Mail monitor: is a mail lost, is every fix announced?  Archility: one request, no render replaced, every drift proposed?  Purge: does only finished work go?  Bootstrap: both documents or neither, honest inventories? | a heavy and a light unit, cap 2, 2 triggers; 1 branch, 2 commits, 2 attempts, 1 failing call; 2 repositories, 2 events; 1 branch, 2 commits, 6 events; 2 candidates, 2 events |
| `timers` | Notifier: is every drop told, and none skipped?  Switch: are reasons on file, findings announced, is `enable` complete?  Runner: does the job run again, alone, and not too early? | 2 units, 2 events, 3 hours, 1 doubt; 1 repository, 3 events; 2 runners, interval 3, retry 2, lag 1, 3 events |
| `guard_shared_counter` | Is the cap exact for every unit, as the document says?  (no) | 1 unit, cap 2, 2 triggers |
| `notify_race` | Is every drop told when two checks drop at once?  (no) | 1 unit, 2 events |
| `mail_repair` | Is a repair asked for every failure whose mail was read?  (no) | 1 branch, 2 commits, 2 attempts, 2 failing calls |
| `purge_work` | Is a branch that is deleted held somewhere else?  (no) | 1 branch, 2 commits, 8 events |

Why these bounds are enough.  A race for a lock needs two processes; a third
process would only wait behind the second, and the proofs below hold for any
number.  A lost commit, a stale manifest or a re-used snapshot needs a second
version and a second snapshot.  Quorum and "all" differ from two targets on, with
both values of the quorum among the initial states.  A read of the registry
pair that mixes generations needs a writer between the two reads, and one that
mixes contents under equal generations would need a torn pair that is built on:
three generations include both.  A catalog goes stale with the second generation of
the registry, and a name is taken over with two slugs.  A circle of waiting needs
two units, and a third shows that waiting is not passed on; the cap of 2 tells
"one retry", "at the cap" and "above it" apart.  Two drops and three hours tell
the first from the second message of an episode.  A torn copy needs two parts of
a file or two files, and a change between two reads; the second capture is there
for a restore that mixes two.  A helper that leaves the group,
with a chain of two below it that stay, needs three helpers.  An
interval of 3 with a retry of 2 tells "due", "retry" and "not yet" apart.  Two
repositories show that one that fails does not hold up the other; two attempts of
a CI run and two commits tell a mail about the same run from one about the next.
The sidecar runs split the questions because their product is out of reach, not
because the questions do not meet: what is proved holds for the model with every
part at once.

`CHECK_DEADLOCK` is off in `catalog` only: its commands stop when the bound on
events is reached and every catalog that could be made is made.

### Fairness

Every `...Fairness` is of steps of a program that is under way or of a timer;
nothing is assumed of people, crashes, edits, GitHub or the weather.

* `Sidecar`, `FairSpec`.  A command takes its next step (weak fairness): git
  and restic run under time limits, and loops run over finite lists.  The lock
  steps are strongly fair: `flock(2)` wakes waiters when the lock is released,
  so that a process that waits is not passed over for ever.  A command may always
  fail.
* `JobGuard`.  A check goes on (a short script), a job ends (every guarded unit
  has `TimeoutStartSec` or `RuntimeMaxSec`), a transient timer that is due fires.
  Nothing is assumed of the unit's own timer.
* `JobGuardNotify`.  The timer starts the notifier and its steps go on; strong
  fairness of `MakePlan` and `SendMessage` says that runs are not all killed
  early and that a message tried for ever is delivered in the end.  Without the
  latter no retry could promise anything.  An event that has a time is appended.
* `Supervision`.  The coordinator's loop goes on and looks at its deadline in every turn
  (each wait in it is at most a quarter of a second); a process that was sent
  `SIGKILL` dies.
* `JobRunner`.  launchd polls, a run goes on, time passes.  `Tick` is strongly
  fair, as it waits for a run that has read the clock and not yet used what it read.
* `ActionsSwitch`.  The daily timer starts `check` again and again (strong fairness,
  since it does not while a check runs), runs go on, and a finding that was
  announced is due again some hours later.
* `MailMonitor`, `Archility`.  The timer starts the program, and a run that is
  not stopped goes on.
* `Registry`, `Catalog`, `Capture`, `Purge` and `Bootstrap` are checked for safety only:
  their commands are started by people.

The runs of several programs state the fairness of each under the condition that
it is the one that was chosen; at most one of the strongly fair steps can then
be enabled, so that it is said of their disjunction (`Persistent`).

### What the runs that end in a counterexample show

* `guard_shared_counter`: the counter is the unit's, not the trigger's
  (`job_guard.py:379`).  When the unit's own timer fires while a retry is pending,
  two chains of retries count on one file: one trigger is dropped too early, the
  other retried beyond `max_deferrals`.  `docs/job-guard.md:27` promises a drop
  after `max_deferrals`.
* `notify_race`: the cursor is the largest event time read
  (`job_guard_notify.py:105`).  An event with a smaller time that is appended
  later is never told, though `docs/job-guard.md:77` speaks of every dropped job.
* `mail_repair`: mails leave the inbox before anything is on file
  (`monitor_github_ci_emails.py:1360`).  When a later step of the scan fails, the
  failure is in neither place, and no repair is asked for, against `README.md:759`.
* `purge_work`: a merged pull request of the branch's name makes the branch
  "merged", whatever was committed to it since (`branch_inventory.py:111`); it is
  then deleted with `-D`, against `portfolio_purge.py:12`.

Three more differences between code and documents are visible in the models and
have no run of their own.  A `disable` whose `PUT` took effect and was reported as failed
leaves a repository off without a note (`AnswerLost`; `actions_switch.py:295` comes before
the note at `:296`).  The next `check` announces it as "off with no recorded reason",
which `docs/actions-switch.md:55` explains as switched off, "but not by `disable`".  That pressure has ended is forgotten in a state that
is saved only after a delivery (`job_guard_notify.py:197`): when that delivery
fails, the next episode is silent until the old window ends, against
`docs/job-guard.md:80`.  And a finding that was resolved is dropped from a copy of
the ledger that is not saved when nothing is due (`actions_switch.py:452`), so
that it may stay silent when it comes back, against `docs/actions-switch.md:63`.

## 4. What is proved

TLAPS checks the following for every set of processes, datasets, targets, units,
ids, slugs, files, helpers, repositories, branches and mails, and for every bound.
Every invariant and every action property that a passing run checks is the subject of
a theorem; what remains to TLC alone is liveness.

The assumptions are the `ASSUME`s of the modules, which TLC evaluates in every run:

* bounds and delays are natural numbers; the cap on deferrals, the interval and the
  retry time of a job, the size of a path, and the numbers of commits and attempts are
  not 0;
* the target set is finite and not empty; the paths below the selected directories
  are finitely many and each is below one; the candidates of the diagram job and git's
  listing of ignored paths are finite sequences;
* markers are not values of the kind they stand in for: `NoOne` is no process,
  `Missing` no state, `"free"` and `"nobody"` are no program, runner, switcher or id,
  `"main"` is no topic branch, the timer is not the operator.

One theorem has a hypothesis of its own: `ToldBeforePassed` (and with it the last part
of `TimersAreSafe`) supposes that no two
checks append their events at the same time (`"race" \notin Faults`), as the run
`notify_race` shows that the property fails otherwise.

**`SidecarProofs`.**  `TypeCorrect`, `StateIsProtected`, `EvidenceNeverLies`,
`InputsAreConsistent` (invariants); `CommitsAreNotLost`, `StateIsGoverned`,
`EvidenceIsBound`, `CommitsAreFresh` (action properties); and the refinement `SidecarImplements`
(`Spec => ImplementsLedger`).  The inductive invariant is `IInv`:

* `LocksHeld`: the place of a command says which locks it holds, so that two
  commands are never in a locked section together;
* `InputsBound`: what a command read is one governance, and equals what is on
  disk while it holds the lock that protects it.  In the second section the
  state is the one it read, or was retired by the operator, who takes no lock;
* `AcksTrue`: an acknowledgement that a backup remembers is a snapshot of what
  it captured, one that a drill remembers is the snapshot of the state it read;
* `StateProtects`, `InputsProtect`, `EvidenceIsTrue`: the state on disk, the
  copies of it that commands hold, and the evidence claim only what is there.

`StateProtects` alone is not inductive: a commit writes from a process's copy,
so the copies must be covered (`InputsProtect`), and its acknowledgements must
be real (`AcksTrue`).  Snapshots are only ever appended (`RepoGrows`), so a
claim once true stays true.  The action properties use that a state is written
by the holder of the sidecar lock at `current` or `current again` and by no one
else (`WritersOfState`), and what holds there (`AtTheWrite`).

`CommitsAreFresh` needs `FreshInv` on top of `IInv`: neither the source as it was when
a second section began (`floor`) nor anything captured is newer than the source is, and
what a backup is going to commit is either still to be captured again (`confirm`) or
was, and was then found to be no older than `floor`.  Before the second section all of
it is still to be captured again, so that a commit with `confirm` empty cannot skip one.

For the refinement the ledger of a state is its entries and its quorums, the
sets of targets that are large enough.  A commit or an `init-state` that leaves
a state leaves a backed ledger (`WrittenIsBacked`, from `StateProtects` after the
step); a commit over the state it read is `Advance`, one over a state retired in
the meantime is `Begin`; evidence attests copies (`ClaimsAreCopies`); all other
steps only add copies (`CopiesGrow`).

**`JobGuardProofs`.**  `TypeCorrect`, `HeavyJobsTakeTurns`
(`OneHeavyAtATime`), `DeferralsAreFollowedUp` (`DeferralHasRetry`),
`NobodyWaitsInCircles` (`NoCircularWait`).  Mutual
exclusion without a lock rests on `Ordered`: of two active units one is in the
other's `ahead`, and a heavy unit that has passed its check has no heavy unit
ahead of it.  `Retried` adds to `DeferralHasRetry` what holds in the
middle: the timer is there before the count is written, and the count is gone
before the job runs.  The type invariant needs `Working`: the counter is below
the cap when it is about to be written.

`NoCircularWait` speaks of sets of units of any size, so that the order of two units
does not suffice.  `Founded` says that in every set of units somebody waits for nobody
of the set: `ahead` is well founded.  It is kept because a unit that becomes active is
put behind those that are active already, and those that start together are put in the
order of their names, which are numbers and have a least one (`Foremost`).  `Waits` adds
that a unit waits only for such as are ahead of it.

**`RegistryProofs`.**  `TypeCorrect`, `OneRegistryRead`
(`ReadersSeeOneRegistry`), `NothingUnseenIsPublic` (`PublicWasShown`),
`TornPairsStay` (`TornIsLeftAlone`), and the refinement `RegistryImplements`
(`Spec => ImplementsClassification`).  The inductive invariant is `Inv`:

* `LockInv`: who is between the load and the verification holds the lock;
* `HistoryInv`: the coherent pairs form one history, one for each generation;
* `DiskInv`: the public file is that of the latest coherent pair, and the private
  file is too, or is of the generation that follows;
* `WriterInv`: what a writer is about to write is what its command makes of the
  latest coherent pair;
* `ReaderInv`: a reader holds the private file as it is, or that of a coherent pair;
* `ShownInv`: what is recorded on the strength of an observation was shown.

The heart is `DiskInv`.  The private file is replaced first, so a reader that
has the newer private file can be satisfied only by the public file of the same
generation, and `HistoryInv` makes that the same pair.  A torn pair is accepted
by no writer, so at most one generation is ever half written.  The refinement
then has one step to look at: `ReplacePublic` makes the pair coherent and
classifies one repository; every other step is a stutter or shows something.

Proved by the same steps for all sizes, but listed only as lemmas: that the
order of locks is kept, that repositories only grow, and that a change of the
registry keeps ids and slugs unique (`MovedAccepted`).

**`HostProofs`: Supervision.**  `SupervisionTypeCorrect`, `GroupsAreOurs` (`GroupIsOurs`),
for any helpers and any number of runs.  The inductive invariant is `SInv`:

* `ForeignInv`: the number is free only when restic was collected and nobody of
  the group is left;
* `NobodyLives`: after the first signal nobody forks any more;
* `StrikeInv`: who is struck again is a child of the coordinator, and can be
  collected by nobody else;
* `ParentInv`: parents are alive, form a forest, and on Linux are never process 1.

The last one says why the bounded collection is complete (`NobodyIsLeft`): if no
member that runs is the coordinator's child and nobody has left the group, then
by the forest some member that runs would have a parent outside, which
could only be the coordinator.

**`HostProofs`: Capture.**  `CaptureTypeCorrect`, `CapturesAreOfOneMoment`
(`CapturedAtOneMoment`), `RestoresWereThere` (`RestoredWasThere`), for any
directories, files, orders and numbers of changes; the paths are finitely many.
The inductive invariant is `CInv`:

* `TimesInv`: no time that was read is in the future, so every change makes a new one;
* `ListedInv`: a directory that has not changed since it was listed has no
  other files;
* `CopiedInv`: a file that has not changed since it was opened is what was
  copied of it;
* `ThenInv`: what has not changed since, or had not when it was seen again, was so
  at the moment between the copies and the second listing.

All changes of people are one relation for the proof (`Edited`, `EditInv`): what they
change has a time nobody has seen.  `UnmovedSince` is the end: the second listing
agrees with the first, hence with `ThenInv` all files agree with that moment.
`RestoresWereThere` needs in addition that what the state file records is such
a capture (`StoredInv`).

**`CatalogProofs`.**  `CatalogTypeCorrect` (`CatalogTypeOK`), `RowsAreKept`
(`RowsKept`), `NothingIsOverwritten` (`NothingOverwritten`), `InstallsWhatIsRegistered`
(`InstalledAsRegistered`), for any processes, ids, slugs and places.  The inductive
invariant is `CatalogInv`: the catalog file has the rows of the generation it names, at
one path each (`Bound`), and for every process `JobOK`:

* `LocksOK`: who is past a lock holds it, so that what it read of the registry is
  still the registry;
* `WritesOK`: the file it is about to write has a path for every id, or keeps the
  paths of the rows it has read.  A person can edit the catalog without a lock; the
  claim is about what was there unless that happened;
* `ClonesOK`: the clone that is about to be renamed has been verified, and is what the
  slug named at the time GitHub was asked, unless the repository moved since or the
  operator waived the question.

Each action concerns one process; that the others keep `JobOK` is one lemma (`Stays`).

**`BootstrapProofs`.**  `BootstrapTypeCorrect`, `PairIsWhole` (`BothOrNeither`),
`InventoryIsHonest` (`InventoryHonest`), for any number of `init-config` runs and any
listing.  The inductive invariant is `BootInv`:

* `LockInv`: the three locks are nested under the control lock, and while the lister
  inspects, neither registry nor catalog can move;
* `FilesInv`: while nobody was killed and no person has touched a document, what a run
  has created and not removed is its own, and `Phase` says for every place how far the
  pair is.  In the middle, and while it is being undone, the pair is exactly
  what the run has created; outside it is whole;
* `Counted`: an entry was enumerated before git proved it ignored, and both not later
  than now, hence equal counts mean that nothing changed between the two.

`BothOrNeither` is not inductive, since both documents are never written in one step;
`Phase` with the nesting of the locks makes it so.

**`UpkeepProofs`.**  The diagram job: `DeployTypeCorrect`, `OneRequestAtMost`
(`OneRequest`), `RendersStay` (`RendersKept`).  `DeployInv`: branches are named for
commits that exist (`Dated`), which is why a new name is new; one name shows one render
(`OneRender`); and while no two runs overlapped a run past its look has found no request
(`Alone`).  The monitor: `MailTypeCorrect`, `MailIsKept` (`MailKept`).  `MailInv`: a mail
is copied before it is flagged (`Copied`); the state file, and the copy a scan is working
on, say only what has happened (`Honest`, `ScanHonest`), for which a branch that has
become green must have resolved all that failed on it (`GreenResolves`), and mails and
commits are numbered without gaps (`Numbered`).  The purge: `PurgeTypeCorrect`,
`OnlyFinishedWorkGoes` (`OnlyFinishedGoes`).  `PurgeInv`: a branch is checked out in one
place at most (`Placed`), and what was seen of a branch when it was found finished is
still a reason when it is deleted, or somebody has committed to it since
(`Deleting`, `Pushing`).

**`TimersProofs`.**  The runner: `RunnerTypeCorrect`, `JobsStartInTurn`
(`StartsInTurn`).  `RunnerInv`: past the lock a run holds it and the schedule was due
(`Locked`); a schedule of this boot is not due before the interval since the last
success is over (`Spaced`); and whoever runs has one command (`Attended`).  The switch:
`SwitchTypeCorrect`, `PausesAreRecorded` (`PausesRecorded`), `EnableCompletes`
(`EnableIsComplete`).  `SwitchInv`: what an `enable` has done with is switched on
(`RunOK`); every pause and every announcement is in the file or in the copy that will
replace it, for as long as runs follow one another (`Orderly`).  A pause counts from the
moment `disable` reports it and an announcement from the send that was reported as
delivered: what a lost answer has done is in no copy, and is announced
(`FindingsAnnounced`).  The notifier: `NotifyTypeCorrect`, `ToldBeforePassed`
(`NothingSkipped`).  `NotifyInv` bounds how often an event is told by the number of sends
of unknown outcome (`Counted`) and keeps pressure silent for its hours (`Episode`);
`Whole` adds that without a race the log has no gap behind the cursor.

**The compositions.**  A behaviour of `HostSpec`, `UpkeepSpec` or `TimersSpec` is one of
each of its programs, of which all but one stutter (`HostBehaviour`, `UpkeepBehaviour`,
`TimersBehaviour`).  `HostIsSafe`, `UpkeepIsSafe`, `TimersAreSafe`, `UpkeepTypeCorrect`
and `TimersTypeCorrect` therefore state what the three runs check of safety, of
the very specifications they check it of.

**Only model-checked.**  Liveness under fairness, which is out of the prover's reach:
`CommandsEnd`, `SeriesEnds`, `EveryDropTold`, `FindingsAnnounced`, `JobRunsAgain`,
`FixAnnounced`, `DriftProposed`, `RunEnds`.

The type invariants of `Sidecar`, `Registry`, `Capture` and `Supervision`,
and `PublicWasShown` and `TornIsLeftAlone` of the registry, are proved and no run
repeats them.

## 5. What is not modelled, and why

* Sidecar: the schema, owner and mode of documents.  `_locked_current_inputs` reads its
  documents one after the other under the registry and catalog locks; policy, targets
  and state can still be edited between two of these reads, but every one of
  them is compared, so one step stands for them.
* Bootstrap: several checkouts at once, the counts of excluded paths, schemas.
* Capture: sizes, owners, modes and devices, the limits in bytes, two changes within
  one tick of the file system's clock (which `st_ctime_ns` cannot tell apart), and
  which order the files come in.
* Supervision: the bytes on the pipes, and the branches for a restic that somebody
  else has collected, which the check of `SIGCHLD` excludes.
* Registry: `audit`, `scan` and `classify` only read; the checks of a document's
  owner, mode, schema and sorting are abstracted to "well formed".
* Catalog: `plan` and `audit` only read.  The choice of a clone's protocol and the
  wording of results are left out.  An edit of the catalog by hand, which takes no lock,
  is lost when it falls between a command's reading under the locks and its
  replacement; the model has such edits, and `RowsKept` says nothing of them.
* Job guard: `install` writes drop-ins once and `status` prints.  The notifier
  is taken to have one instance, as its unit has.
* Job runner: calendar and on-demand jobs, which keep no schedule, the length of
  the jitter, and steps of the wall clock.
* Actions switch: `status`, `list` and dry runs, which write nothing, and the
  wording of messages.
* Mail monitor: the limit and age of what one scan reads, messages read from a
  file, and the repair scripts, which hand a prompt to an external agent.  The
  monitor compares a short commit id from a mail with a full one from GitHub, which
  are never equal; the model follows the code, so that a successful rerun of the
  same commit counts as a fix.
* Purge: reports, detached worktrees and orphans, which are never removed, and the
  pruning of container images.
* Diagram job: the external renderer, and the two shell scripts that call it.  The
  default branch of a repository stays the same one: the job asks for the requests
  against the branch that is the default now (`--base`), so that it would not see one
  that was opened against an earlier default.
* Lifecycle review, renderers, audits and repository checks: functions of their input
  with no state between runs; what could go wrong in them is in the text they
  write.
* Azure rotation, firewall hardening, GitHub settings, installers and host setup:
  one pass of calls to external tools, run by hand, whose state is the tool's.  A model of
  them would be a model of those tools.
* Agentic jobs hand a prompt to an external agent under a lock; what they do
  is the agent's.

## 6. Plan

Done: the sidecar with its ledger; the guard and its notifier; the registry with its
classification; catalog and materializer; bootstrap, capture and supervision; the job
runner; the actions switch; the mail monitor; the purge; the diagram job; and theorems
for every safety property the passing runs check.

Theorems to come are the safety halves of the liveness properties, what a step of
progress rests on:

1. A command of the sidecar that waits for a lock waits for one that holds a later lock
   and waits for none, so that locks are given back (`CommandsEnd`).
2. A retry that fires brings its trigger nearer to the cap, or ends it (`SeriesEnds`).
3. An event behind the cursor of the notifier never comes before it again
   (`EveryDropTold`), and a schedule is never later than one interval (`JobRunsAgain`).
