# A TLA+ model of freshdock

freshdock watches running containers, probes the registry for newer images, and
re-creates the containers behind them: each update is gated on the new
container's health and rolled back if the gate fails. This directory holds TLA+
modules that model that behaviour, the TLC configurations that check them on
small instances, and proofs that TLAPS checks. `PROJECT.json` lists for every
definition the lines of code it stands for, for every property a mutation of the
model that breaks it, and every theorem.

## The system

| Part | Code | State | Operations | Correct when |
|---|---|---|---|---|
| Container daemon | outside; `docker/mod.rs`, trait `DockerOps` | containers with their names, namespaces and images; the tag; the image store | stop, rename, create, start, remove, pull, remove image, prune | (assumed) |
| Recreate cycle | `docker/recreate.rs`, `rollback.rs`, `docker/rename.rs` | per update: the container inspected, its archive, the replacement, the dependents | `recreate_with_health`, `recreate_one_shot`, `rollback`, `reattach_dependents` | a working container is never lost; the outcome reported is what happened; dependents end up attached, on their own image |
| Gates | `health.rs` | the deadline | `wait_for_health`, `wait_for_exit` | a verdict in bounded time that is true of the container |
| Scheduler | `scheduler.rs`, `probe.rs` | per container: schedule, announced and failed digest; per tick: what is live, what a rollout has handled | `run_with`, `run_tick`, `process_container`, `apply_update` | windows are kept, a rejected digest is not retried, no container is updated twice in a tick, a good digest arrives in the end, a shutdown ends it |
| Compose graph | `compose.rs` | none | one-shots, topological order, restart dependents | dependencies first; a cycle hangs nothing |
| Rollout | `rollout.rs` | the plan, the report | `plan`, `for_container`, `execute` | nothing runs ahead of its migration; what opted out is left alone; the report accounts for everything, and so does what the scheduler makes of it |
| Label policy | `labels.rs` | none | `parse_policy`, `explicitly_opts_out` | the two readings agree, nothing is overridden in silence, a migration changes nothing |
| Cron | `cron.rs` | per container: the next fire | `parse`, `next_after` | a field matches what it says; every window fires once, however late the tick |
| Image references | `registry/`, `docker/mod.rs`, `rollout.rs` | none | `ImageRef::parse`, `split_repository`, `local_manifest_digests`, `same_image` | the five readers of a reference mean the same image |
| Registry client | `registry/digest.rs`, `registry/auth.rs` | token cache | challenge, token exchange, manifest digest | a stale token costs a retry, not an answer; a verdict names the true cause |
| Check table | `commands/check.rs`, `probe.rs` | none | the rows of `freshdock check` | a row agrees with itself and with the world |
| Configuration | `config.rs` | none | file, environment, credentials, targets | what is said reaches the part it is meant for |
| Notifications | `notify/` | targets | `build`, `dispatch` | every reachable target hears of what it subscribes to, whoever else fails |
| Daemon command | `commands/run.rs` | the shutdown flag | signal, drain, forced exit, ticker | bounded waits, drains and polls |
| Spec round trip, self identification | `docker/spec.rs`, `selfid.rs`, `docker/mod.rs` | none | `from_inspect`, `create_body`, `preflight_recreate`, `network_dependents` | a container stays itself through any number of updates, and its dependents follow it |
| Manual update | `commands/recreate.rs` | none | one update or rollout | as the recreate cycle, next to the daemon's |

How they interact. The scheduler lists the running containers every tick and
processes those that are due, one after the other: it probes the registry and,
finding an update, runs the recreate cycle of the container or the rollout of its
compose project, which runs the cycle for one target after the other, and then
sends the notifications, still within the tick. The cycle
calls the daemon, with an `await` between any two calls, and asks a gate for its
verdict. Within one process nothing overlaps, except for the probes of `freshdock
check`, which share the token cache; `freshdock recreate` is a second
process on the same daemon, without a lock between the two. Nothing is persisted:
a crash leaves whatever the daemon has.

What is hard about it: a daemon call may fail, or succeed and have its answer lost;
the process may die between two calls (the forced exit of `commands/run.rs` does
just that); two processes may interleave; the tag moves between a probe, a pull, a
comparison and a create; listings and plans are used long after they were read;
one failing step of several leaves a part of the work behind; a cached token dies on
its way; clocks are set and change to summer time; and one string is read by
several parts that must agree on it. Every such place is
listed under `hazards` in `PROJECT.json`.

## The modules

| Module | Models | Used by |
|---|---|---|
| `DockerDaemon` | the daemon: what each call does and when it is refused | `RecreateCycle` |
| `RecreateCycle` | one action per daemon call of the cycle, the rollback and the repair; failures, deaths, overlap | `MCRecreateCycle`, `RecreateCycleProofs`, `UpdateProofs` |
| `SafeUpdate` | what an update promises, without names, archives, images or calls | `MCRecreateCycle`, `UpdateProofs` |
| `HealthGate` | the two polling loops against a living container, with a clock | `HealthGateProofs` |
| `Scheduler` | ticks, schedules, probes, updates and rollouts as one step each, the memory across ticks | `SchedulerProofs` |
| `Compose` | the dependency graph | `Rollout` |
| `Rollout` | plan, execution, restarts, report, and what the scheduler makes of the report | `MCRollout`, `RolloutProofs` |
| `Daemon` | the process in time: ticker, tick length, pull retries, dispatch, signal, kill, clock | `DaemonProofs` |
| `Registry` | a digest request with its token exchange, a shared token cache, time | `RegistryProofs` |
| `Labels` | the labels of a container, their two readers, and a migration from watchtower's | `MCInputs` |
| `References` | image references and their readers | `MCInputs`, `InputsProofs` |
| `Cron` | the fields of an expression, the local calendar with its two changes, the fire times | `MCInputs` |
| `Settings` | settings, credentials, notification targets and mail, from file and environment | `MCInputs` |
| `CheckTable` | the probe's verdict and the rows of `freshdock check` | `MCInputs` |
| `Identity` | specs, ids, hostnames and network references through a recreation | `MCInputs` |
| `MCRecreateCycle`, `MCRollout`, `MCInputs` | properties over the whole of a run, a project or an input; the refinement mapping; the inputs | TLC, `UpdateProofs`, `RolloutProofs`, `InputsProofs` |
| `RecreateCycleProofs`, `HealthGateProofs`, `SchedulerProofs`, `RolloutProofs`, `RegistryProofs`, `DaemonProofs` | theorems about the modules of that name | TLAPS |
| `UpdateProofs` | theorems about `RecreateCycle` as seen from its owner, and the refinement of `SafeUpdate` | TLAPS |
| `InputsProofs` | theorems about `Labels`, `References`, `Cron`, `Settings`, `CheckTable` and `Identity` | TLAPS |

An update in `Rollout` and `Scheduler` is one step with the outcomes that
`RecreateCycle` shows it to have; a gate in `RecreateCycle` is one step with the
verdicts of `HealthGate`; a probe in `Scheduler` has the outcomes of `Registry`,
and an update in `Daemon` those of `RecreateCycle` and `Rollout`.

### DockerDaemon

A container id is a pair of the update that created it and its service, so that
ids are never reused. A name is a service with 0 (its live name) or with the number
of an archive candidate; timestamps are left out, which makes collisions of archive
names as frequent as can be. All services run from one tag: the worst case for a
repair, whose dependent's tag the owner's pull has just moved. A `NetworkMode`
referencing a container is `joins`; the running container whose namespace one is
in is `ns`, and it is lost when that one stops. The refusals: create under a taken
name or from an image that is not there, start with a reference that is not running, a
removal without force of a running container or of one a running container references
(409), and of an image in use (409).

### RecreateCycle and SafeUpdate

`run[r].pc` is the call that update `r` makes next. `Call` gives every call its four
outcomes: done, refused, failed without effect, done with its answer lost. `Attempt`
is a call whose answer the code only logs. The names of the actions follow the
functions: `Stop`, `Probe`, `Rename`, `Create`, `Start` are `swap_container`, shared by
the owner's update and by a dependent's repair as in the code, and `SwapFailed` is what
either caller makes of an error. `oneShot` says whether the owner is a compose one-shot, whose
cycle has another gate and no rollback. `Kill` is the death of the process. `good` is a history
variable: the containers of the start and those a gate has accepted.

The image ids the code may lack (`image_id` being `None`) and the API version check in
`preflight_recreate` are covered by a failing `Inspect`; a dependent of an image
reference that is already pinned is `ref = "id"`.

`SafeUpdate` is the abstract specification: a version of a service runs or none does, the versions
known to work are kept or not, and an update is waiting, preparing, replacing,
accepted, rejected, or over as updated, restored or abandoned. It says that nothing is
touched while preparing, that at most one version runs, that the version before is retired
only once the new one was accepted, and that `updated` and `restored` are reported only
of what runs. `MCRecreateCycle` maps `RecreateCycle` to it: `up` and `kept` are the owner's containers
that run or are good, `Stage` forgets the call an update is at, and the property
`ImplementsSafeUpdate` is the abstract specification under that mapping. Pulls, renames,
repairs and failed calls become stuttering steps; a death of the process becomes `Abandon`.

### HealthGate

`oneShot` chooses between `wait_for_exit` and `wait_for_health`. Time is discrete. A probe takes up to `ProbeTime` and reads the container's state
at some moment of it. The container may exit at any time with code zero or not, be
restarted by its policy, or be given up; its healthcheck changes at will. Neither
gate has a bound on the number of polls: that they end is a property.

### Scheduler

Time passes between ticks (`Pass`); cron windows open once per `Day`, polls are
due `PollInterval` after the last. `Publish` moves the registry's digest, between a
probe and its pull only if `Races`. `Alone` and `Rollout` are `apply_update`
with and without a project; their outcomes are landed, rejected (the gate),
deferred (the hook) and failed (a call, which may still have been carried out, its answer lost). `Restarted` is
what a rollout that has landed does to the dependents with a restart edge: they are restarted and not processed again in that tick,
but for one that fails to start again. `Relabel` is someone recreating a container under its
name with the other of the modes live and nightly. `states`, `crons`, `age`, `window` and `notified`
are `ContainerState`, `failed` is the map of the same name, and `handled` and `live`
are the sets local to a tick.

### Compose and Rollout

The project is drawn, as the initial state, from all graphs, labels, references and images the constants
allow. `Planned`, `InFlight`, `Bumpable` and `Current` are the branches of `plan` in their
order. `TopologicalOrder` is Kahn's algorithm by waves, a rest that is cyclic being one wave: it gives each service the
number of its wave, and `Before` sorts the targets by wave and name, as the code's list is. `Foremost` is the next target of
that list. `Disturb` is someone else stopping a container, or starting a one-shot, while the
rollout is under way, at most `Disturbances` times. The second container of a scaled service
is a replica, with its definition, or a leftover. `Touched`, `ImageTargets` and `Claimed` are what
the report tells the scheduler not to process again, `RolloutVerdicts` how it counts each container, `Remembered`
whether it remembers or forgets the digest.

### Daemon

What a tick takes rather than what it decides. `phase` and `missed` are the ticker with its delayed
missed tick, `elapsed` and `age` are wall time, which `SetBack` sets back once, while `spent` and `waited`
are real time. `Fire` lists what is due, `Visit` begins a container and `Decline` passes over the rest
after a signal; `Pull` and `Retry` are `retry_rate_limited`, `Swap` is an update or a rollout whose members are updated in
any order, and `Send` and `Dispatched` are `dispatch`, one target after the other. `Exit` is the loop's end after a
drain, `ForcedExit` the other branch of `run`'s `select!`, taken when the drain has lasted `--stop-timeout`, and `End` forgets all a process knows. `StepEvents` is the set of
the orders in which a rollout's members may be announced. `LongestUpdate` and `LongestNotice` sum up what a container takes at most, the pulls, pauses
and sends included; `LongestStep` and `LongestTick` are what that makes of one container and of all of a tick.
`facts` and `told` are history: what happened to containers and what targets were told of it.

### Registry

`probe[p].at` is where a request is; `Connect` reads the cache, `Answered` is the status of the first or second manifest
request, `Exchange` and `ExchangeAnonymously` are `request_token` with and, after a rejection, without
credentials, and `Receive` writes the cache over what another probe has put there. A message takes up to `MaxLag`. `Change`
turns the image public or private, or revokes the credentials or all tokens; `Fail` loses an answer or makes it useless; a 403 to the first request, which has no token yet, is its outcome
`auth required` there.
`Excused` marks a probe whose outcome a change or a fault came in between.

### The inputs: Labels, References, Cron, Settings, CheckTable, Identity

What the program reads rather than does. Each of these modules defines the code's reading as
operators and, next to it, what the reading must satisfy, formulated from what the
parts have to agree on and never from the code's steps. `MCInputs` draws one input of one kind as the initial state;
labels are then migrated step by step, and schedules fire as their clock runs.

In `Labels` a value is absent, one of its valid values, or `Junk`. `Policy` is `parse_policy`,
`OptsOut` is `explicitly_opts_out`, `Notes` is `watchtower_diagnostics`; `Updated`, `Involved`,
`Repaired` and `ByHand` are how the scheduler, a rollout's plan, the repair and `freshdock recreate` use them. `Adopt` adds the
freshdock label that the migration guide gives for a watchtower label, and `Retire` removes
the latter. The labels without a watchtower spelling (`notify`, `cleanup`, `schedule`) can only be
malformed, together, as `other`. The multiplication of minutes saturates at 2^64 seconds in
the code, which is out of the model's range.

A reference is a sequence of words and the separators `/`, `:` and `@`; what a word contains matters only in that it has
a dot or not. `BareId` is an image's id where a reference is expected, as of a container that was created from it. In `Cron` real time is counted in half minutes, the local clock is set forward and back once, and `Walk` is the loop
`i += step` in a word of `WordSize` values, as the release build wraps it. In `Settings` a table of the file is a function
from names to values, and an operator that depends on the order of a hash map gives the set of its
possible results. In `CheckTable` a world says what the daemon and the registry answer, failures included. In
`Identity` ids and hostnames are sequences of hex digits, and a short id has `ShortLength` of them.

## What the runs check

Every run checks deadlock unless the system modelled really ends (an update, a
rollout, a migration, an input). Some invariants are conjunctions of named parts that belong
together (`GateInv`, `ConfigurationKept`); their parts have mutants of their own.

| Run | Instance | States | Shows |
|---|---|---|---|
| `CycleSerial` | 2 updates in a row, 1 dependent, no spare archive name, every call failing or unanswered, death anywhere; fair | 0.29 M | a known-good container always survives (`KnownGoodKept`), one container of a service runs (`AtMostOneUp`), a repair keeps the dependent's image (`RepairNeverUpgrades`), the report is true (`OutcomeTruthful`), it ends (`Termination`), and it is a `SafeUpdate` (`ImplementsSafeUpdate`) |
| `CycleDeps` | 2 undisturbed updates of a service or a one-shot, dependents by id and by name | 10 K | dependents end up attached and no archive of theirs is left (`DependentsRepaired`), an image is pinned only when its tag has moved (`PinnedOnlyBehindTag`), a failed one-shot is kept for inspection (`FailureEvidenceKept`) |
| `CycleOverlap` | 2 overlapping updates, every failure and death | 0.3 M | `KnownGoodKept` holds without any lock, and the service is down only with an error or a death to show for it (`DownMeansReported`) |
| `Gate` | budgets of 12, 5 and 7 units, polls of 2, probes of up to 2 | 0.2 M | a verdict in bounded time (`GateInv`), none before the grace period is over (`GraceHonoured`), and a true one (`VerdictTruthful`) |
| `SchedFleet` | a live and a nightly project member, the second relabelled at will, a watched container that comes and goes; 2 digests, one bad; every failure | 1.8 M | no rejected digest is retried, none announced twice, none applied twice in a tick (`NothingTwice`), and a cron window is used up only by probing its container, or lost with its leaving the listing (`WindowKept`; a live sibling's rollout may move a nightly container outside its window) |
| `SchedLive` | a project of two with a one-shot and a third container on the same tag, different schedules, 3 digests, one bad; a shutdown; fair | 63 K | the loop's bookkeeping (`LoopInv`: rejected once, nothing after the update in flight), every good digest arrives (`EventuallyCurrent`), a shutdown ends it (`Stops`) |
| `RolloutOrder` | all graphs of 3 services, every failure, one disturbance | 1.2 M | `OrderInv` (dependencies first), and what the report and the scheduler's reading of it account for (`Accounted`) |
| `RolloutGate` | 2 services, one with a replica or a leftover: all acyclic graphs with their conditions and restart edges, labellings, references, images; one disturbance | 1.2 M | nothing runs ahead of its migration (`SchemaFirst`), what opted out is left alone (`LeftAlone`), restart edges are followed exactly (`BumpedExactly`) |
| `Daemon` | a live container with a sibling that is calendar-scheduled and not opted in, a watched one; a flaky and a reliable target; a signal, kills, restarts, the clock set back; 2 publications; fair | 272 K | every wait, drain and poll is bounded (`TimesBounded`), targets hear of all they subscribe to and nothing else (`Reported`), and of the newest image in the end (`NewestHeard`) |
| `Registry` | 2 concurrent probes on one cache; lifetimes of 1, 9 and none given; one fault, one change of rights; fair | 269 K | a cached token is never sent dead (`RegistryInv`), the outcome is what the registry holds true (`HonestVerdict`), a probe comes back to the digest (`Recovers`) |
| `Inputs` | all labellings and defaults over 3 modes, 3 timeouts, 2 commands; references of one to three segments with tags and digests; 240 schedules over 40 minutes; the tables of `MCInputs` | 0.74 M | see below |

`Inputs` checks, of labels, that the two readers and the manual command agree on who opted
out (`OptOutsAgree`), that what overrides is noted (`OverridesNoted`) and that a migration from watchtower changes nothing
at any of its steps (`MigrationUnnoticed`); of references, that they mean one image to registry, daemon, credentials,
digests and rollouts (`ReferencesAgree`); of schedules, that a field reads as documented (`FieldsRead`) and that every
window fires once whatever the ticks (`EveryWindow`); of the configuration, that typos in the environment are harmless, credentials
meet under all names of a registry and never mix, a file's target is not taken away nor changed but for its secret by a variable
named as documented, in capitals without a dash, secrets reach
their target and mail goes out as asked (`ConfigurationKept`); of the table, that a row agrees with itself and says "yes", "no" or "?" exactly
when there is an update, there is none, or nothing is known of a tag that could be looked up (`TableConsistent`); of specs, that a container stays itself, is not stopped if it
cannot be created anew (unless it is in another's namespace, or the daemon's version cannot be read), and is followed by its namespace (`IdentityKept`).

The bounds. Two updates are enough for every pair of calls to interleave and for the
second update to find what the first has left behind; a third adds nothing new to
a property that speaks of one service's containers. With no spare archive name every
second rename is refused (`CycleSerial`), with one a collision is resolved
(`CycleOverlap`). `MaxRetries` is 1 where the code has 3: one retry shows that there is an
end to them; `Daemon` has all three. Two images are an
old and a new one, a third digest in the scheduler is one published in between. A day of
two units lets windows and polls fall together and apart, with a poll interval of two (`SchedLive`) or of one (`SchedFleet`); publications between
a probe and its pull, and members that leave, are in the proof of `WindowKept` but in neither run.
The gates' budgets are chosen so that the grace period is no multiple of the poll
interval and the health timeout is longer than either. Three services
make the smallest graph with a transitive dependency and with a cycle next to an
acyclic part; two are enough for a labelling to matter, since the plan judges a member by
its own labels and by who waits for it. A timeout of 2 is another one in seconds than in
minutes, and neither is the default. In `Daemon` the poll interval of 3 is no multiple of the tick of 2, a stop
timeout of 1 is shorter than a container takes and one of 30 longer, and a tick may outlast the interval. In `Registry` a lifetime
of 1 is below the skew of 2, one of 9 is the most the client's clock holds, and a token without one gets the default of 3; a
fault and a change of rights may fall anywhere between two probes. The calendar of `Inputs` has hours of two
minutes, days of three hours and months of three days, so that all fields roll over within 40 minutes and both
changes of the clock lie inside; ticks are up to three and a half minutes apart. A word of 256 values and steps of 90 and 250 make
`i += step` reach the end of the word.

Fairness. `Termination` assumes that every daemon call is answered or times out at the
client, and that a hook ends; a hook whose timeout is set to 0 is the user's
responsibility. The scheduler's liveness assumes that its loop runs and time passes;
`Publish`, shutdowns, exits and deaths are never forced. `EventuallyCurrent` is checked
without failing calls: a call that always fails keeps any update away. `Recovers` assumes that time passes and each probe
goes on (requests have a timeout, and the next tick probes again); faults and changes are bounded. `NewestHeard` assumes
that calls end within their limits, which are the client's timeouts, and that time passes; it speaks of runs in which
upstream and the process stay.

### What the documentation says otherwise

The run `FindStart` checks a sentence of the README that the code does not keep; TLC prints the
behaviour that shows it. `PROJECT.json` has the quote under `findings`: a replacement that cannot be created or
started is not rolled back, and the service stays down, archived.

### What the models leave out

- The daemon always gives a container's state when it is inspected; without one the code reads an exit with code zero
  (`docker/mod.rs:588-590`), which `Classified` does not have.
- `ListDependents` is two calls (`docker/mod.rs:346-361`), an inspect and a listing, in one action. Only another process could tell, and
  the runs with dependents have none.
- A service's container ends by itself only while its update is at the gate (`Exit`). A crash before the stop or after the verdict is outside
  of any update's knowledge; `OutcomeTruthful` and `DownMeansReported` speak of what updates do, and rest on this restriction.
- `declared` in `HealthGate` is a constant of a behaviour: an image either has a healthcheck or has none.
- `SendTimeout` is what a send takes at most. It is `REQUEST_TIMEOUT` for what is sent over HTTP; of mail it is an assumption about
  lettre, whose own timeout it is.

### Known limits of the code

Seen while modelling, part of the models unless said otherwise, and without a run.

Updates:

- A rollback is three calls and stops at the first that fails; the caller gets an error.
  An opted-out dependent that references the archive keeps it from being removed.
- Another process may pull between a repair's check of the tag and its create, which then
  upgrades the dependent (`RepairNeverUpgrades` is checked without overlap).
- A one-shot that completed has its dependents re-attached to a container that has exited
  (`DependentsRepaired` exempts one-shots).
- A restart by the restart policy within the grace period may fall between two probes.
- Dependents of dependents are not followed, nor references by an id shorter than twelve digits, as documented.
- `inspect`'s `Config` carries the old image's environment, command and labels into the new
  container, so that changed defaults of a new image are never picked up.
- A container in another's network namespace that is itself updated keeps its exposed ports, and its create is refused after
  the stop: only the repair strips them (`recreate.rs:374-389`), while `docs/troubleshooting.md:189` says labelled sidecars stay managed.
- freshdock in `network_mode: container:X` has its owner's hostname, so its own id is not known and it is not
  skipped as a dependent; `docs/troubleshooting.md:197-200` says it is, `selfid.rs:7-9` admits the limit.
- `freshdock recreate` has no guard against recreating freshdock itself.

Scheduler and rollout:

- The digest remembered as failed is the one probed; if upstream publishes before the pull,
  a good digest is blamed and the bad one tried again. `Races = TRUE` shows it.
- Schedule state is seeded once per name (`scheduler.rs:292`), so a container recreated from `live` to `nightly` is never due
  again until a restart; the comment at `scheduler.rs:69` has the state rebuilt from the live list each tick.
- A member whose restart edge is followed and whose start fails is out of the listing; if it is started again in the same tick, a sibling's
  rollout may reject on it again what it has rejected on its own (`Steady` excludes it).
- A rollout consults the failed digest of its trigger only: a member that has just rejoined is
  tried once more.
- A rollout that was deferred is started again at the next tick by a sibling that is due.
- The order is kept among the targets only: a dependency that runs through a service on
  another image does not count. A one-shot found running is skipped and never waited for, and
  a restart edge stops and starts it in the middle of its run (`rollout.rs:240`, against `docs/compose.md:93`).
- A service stopped since the listing is started by its update, and a target that failed half
  way is reported as still on its old container (not checked). A dependent whose restart failed after its stop is
  logged but not in the report (`Accounted` exempts it).
- With `freshdock.enable=true` and watchtower's `enable=false` on one container the scheduler updates
  it while repairs and rollouts leave it alone; there is a note in the log (`OptOutsAgree`). An
  unreadable `monitor-only` invalidates the labels although `freshdock.mode` is given.

Time and schedules:

- `N/1` means `N` alone in `cron.rs:110-112`; `docs/scheduling.md:64` gives `N/n` a range to the end of the field. A
  step near 2^32 wraps in a release build (`FieldReads` exempts both).
- `next_after` has no answer when it is asked in a minute that the local clock shows twice, and the schedule then
  never fires until a restart, contrary to the comment at `cron.rs:203-206` (`EveryWindow` exempts it).
- A wall clock that is set back delays polls by as much. `main.rs:45-47` promises a poll within the interval and a tick;
  a tick that takes long adds its length (`PolledInTime` has the real bound).

Registry, configuration, notifications:

- A 403 on a cached token is not answered by a new exchange until the token expires; a token whose lifetime is below the skew may be dead on
  arrival (`HonestVerdict` excuses both).
- `docker.io/my.app` and `docker.io/docker.io/app` read differently in different places (`References` calls the rest `Proper`).
- Names of targets in the environment that are in lower case or have a dash replace the file's target, contrary to the
  doc comment in `config.rs`; `_TRIGGERS` of a file's target is ignored.
- A recreation that ends in an error sends no notification; an announcement is recorded as made even if every send
  failed; a forced exit cuts notifications in flight.

## What is proved

TLAPS checks the theorems below for all values of the constants that satisfy the modules' named assumptions; TLC evaluates
those assumptions in every run. A hypothesis beyond them is part of the theorem. Each invariant is proved from one that is
inductive, by a step for each action.

The recreate cycle (`RecreateCycleProofs`, `UpdateProofs`), for any sets of updates, dependents and images, any bound on
retries and archive names, whatever call fails, loses its answer or is the last:

| Theorem | Hypothesis | Establishes |
|---|---|---|
| `TypeCorrect` | | `TypeOK` |
| `KnownGoodSafe` | | `KnownGoodKept`, overlap included |
| `OneUpAtATime` | no overlap | `AtMostOneUp` |
| `RepairsKeepImages` | no overlap | `RepairNeverUpgrades` |
| `DownReported` | no one-shots | `DownMeansReported`, overlap included |
| `CycleImplements` | neither | `ImplementsSafeUpdate`: the whole refinement |
| `ReportsTrue` | neither | `OutcomeTruthful` |
| `EvidenceStays` | no overlap | `FailureEvidenceKept` |
| `DependentsReattached` | no overlap; who opts out references by name | `DependentsRepaired` |
| `PinnedWhenBehind` | the same, no one-shots | `PinnedOnlyBehindTag` |
| `Recoverable` | of `SafeUpdate` | a version known to work is always there, and at most one runs |

No overlap (`~Overlap`) is one process without `freshdock recreate` next to it. With two most of these properties are false, since there is
no lock between them; `KnownGoodKept` and `DownMeansReported` survive, and are proved with overlap. A one-shot that is over is down and serves nobody, so
what is said of serving is not said of it (`TRUE \notin OneShots`).

- `KnownGoodKept` needs no lock because updates can be counted. `CountInv` says that there is one container more known to work than there are updates
  accepted (`Known`, `Accepted`), and that no more of them are gone than there are updates that have made their one attempt to remove an archive (`Lost`, `Spent`), which
  each makes after its own replacement was accepted, whoever's archive it then finds under the name. So one is always left.
- What is said of one process rests on `IInv`: names are unique and belong to their service (`NamesSound`), one update is active at a time
  (`OneAtATime`), what each phase of an update implies of its verdict and subject (`PhasesSound`), and where the replacement
  is (`ReplacementSound`).
- That one container of a service runs needs to know where the others are. `OwnerInv` says that a container that runs is under its
  service's live name (`UpLive`), what holds of the service being swapped at each of the five calls (`SwapSound`), and of the
  owner at each call of the rollback (`OwnerSound`). A name being unique, two cannot run.
- `ImageInv` says of which image the dependent under repair is, and that the repair creates it from that image: from the tag only
  while no other call can move the tag between the check and the create.
- `CoverInv` says that while nothing was reported and nothing serves, some update has yet to answer for it: it is between its stop and its
  create, its replacement holds the live name, or it is rolling back. None of these is undone by another update unreported, hence no
  need for a lock.
- `BeforeInv` follows the container an update inspected: under the live name until the rename, under the archive's name until the rollback
  renames it back, and then serving.
- `CalmInv` says of an undisturbed update where the owner's containers are at each call (`OwnerAt`), and each dependent's: untouched before the verdict
  (`Untouched`), then repaired one by one (`Repairing`, `SubjectAt`), attached to the container that has the verdict in its favour (`Home`). `Stock` says what images and references there
  are, `Supplied` what the update has to create from. A dependent that opted out must reference its owner by name: by id it would stay on the archive, and
  keep it from being removed, as listed under the limits.
- The refinement maps every action to the abstract step its call stands for. `Effects` and `Views` reduce an action to what it does to the
  owner's containers, `Stage` to what the abstract update is at; what leaves both alone is a stutter.

`Recoverable` is proved of `SafeUpdate` itself, for any number of updates: `AbstractSpec => []AlwaysRecoverable`. The induction needs that an accepted version is kept
(`AcceptedKept`) and that one update is under way (`OneUnderWay`). By `CycleImplements` it carries over to the cycle, and the code.

`HealthGateProofs`, for all budgets, poll intervals and probe times: `GateInTime` (`GateInv`), `GraceKept` (`GraceHonoured`),
`VerdictsTrue` (`VerdictTruthful`). `GateIInv` adds where the clock stands within a poll (`ClockSound`), that the deadline is
the budget until it is cut short (`DeadlineSound`), and what an answer says of the container at the time it was asked, which the
verdict is then drawn from (`LifeSound`, `AnswerSound`, `VerdictSound`).

`SchedulerProofs`, for any containers, projects, digests and intervals:

- `WindowsKept`: `Spec => WindowKept`, and `EndsSoon`: `Spec => [](TypeOK /\ LastUpdate /\ AnnouncedOnce)`, under all races and
  departures. `LoopBase` is their invariant.
- `TwiceNothing` (`NothingTwice`) and `BookkeepingSound` (`LoopInv`), if `Steady`: upstream does not publish between a probe and its
  pull, and project members stay listed: none leaves, by its own doing or by a restart that fails. Without the first the digest remembered as failed is not the one that was rejected; without the second a
  member that leaves the listing takes with it what it had rejected. `LoopIInv` adds what is known
  of the container in hand (`CurSound`), that in a tick only a rollout stops members (`MembersRun`), that a rejection is remembered by all who could ask for the
  rollout again (`RejectSound`), and so is what this tick has updated (`UpdateSound`).

`RolloutProofs`, for every finite project, its graph cyclic or not, without a hypothesis: `InOrder` (`OrderInv`), `MigratedFirst` (`SchemaFirst`),
`OthersLeftAlone` (`LeftAlone`), `BumpsExact` (`BumpedExactly`), `ReportAccounts` (`Accounted`). They rest on `OrderSound`: in the waves of Kahn's
algorithm a service comes after each service it depends on, unless the two are on a circle, and every service has a wave. The recursion is a function
on the naturals, `PendingDefined` shows that it exists, and each induction is by a least counterexample (`LeastNat`). `RolloutIInv` says of each phase what
the plan, the steps made, the restarts made and the containers have to do with each other.

`RegistryProofs`, for any number of concurrent probes, any lifetimes, faults and changes: `NoDeadToken` (`RegistryInv`) and `VerdictsHonest`
(`HonestVerdict`). They assume `2 * MaxLag <= Skew`, part of `RegistryAssumption`: a token ages on its way to the client and the request on its way to the registry,
and the skew (`EXPIRY_SKEW`, 5 s) has to cover both. `REQUEST_TIMEOUT` would permit slower messages; then a cached token may be dead on arrival, which
costs a second exchange. `RegistryIInv` relates the rest of a token's life to the cache's time for it, through every message of a probe (`CacheSound`,
`FirstSound`, `FreshSound`), and what was denied to the registry's rights (`DeniedSound`).

`DaemonProofs`, for any containers, targets, subscriptions, durations and settings, whatever is signalled, killed or set back:

- `TimesHold` (`TimesBounded`). Its invariant measures the work ahead: `Left` is what the container in process may still take, by where it is and how
  many pulls and sends are left, `Total` what those not visited may take. `DrainSound` adds the drain to the former; `WaitsSound` adds both to the time a container has waited,
  distinguishes who is due from who was polled less than an interval before the tick, and says through `AgeTells` what the wall clock knows
  of that after it was set back. `Total` is a multiple of the cardinalities of the two modes, so that nothing has to be summed over a set.
- `ReportsHold` (`Reported`). `ReportsSound` says that what is due to a reachable target has been told, is being told, or is in the queue,
  and that nothing is told ahead of its happening. A rollout may announce its members in any order.

`InputsProofs`, of what is read. The theorems about inputs that are read once say that whatever input there is has the property, far beyond
those the run draws; `AnyPart`, `AnyConfiguration`, `AnyCheck`, `Recreation` and `Repair` say what the input may be:

- `OptOutsRespected` (`OptOutsAgree`): a label that makes one reader stand back makes the others, the manual command among them, unless the pair of
  enable labels is noted. `NotesComplete` (`OverridesNoted`): no watchtower label is overridden in silence.
  `MigrationHarmless` (`MigrationUnnoticed`), if watchtower labels are removed with care (`~Careless`: the note is minded): no step of a migration changes what a
  container is treated by. For any modes, timeouts and commands; all three need the type invariant alone, and `PolicyReads` says what a policy is made of.
- `WindowsFire` (`EveryWindow`), for any calendar, any expression, any size of the two changes of the clock, any pace of ticks: a tick fires exactly if a window has opened since
  the last one. The two loops of `cron.rs` are recursive functions; `SearchFinds` and `WalkCollects` give them closed forms, the least match and the
  multiples of the step, each by a least counterexample (`LeastNat`). `ClockInv` then says that what fires next was computed at some moment before now and is still to come. `LastMinute <= Horizon`
  bounds how far a behaviour is followed, not the code.
- `EveryField` and `FieldsReadAlways` (`FieldsRead`): any comma list of any values, ranges and steps in any field.
- `EveryConfiguration` (`ConfigurationKept`): any file and any environment. The names of targets are all of base, case and separator; an environment gives each
  variable once; secrets differ from each other, so that one can tell where each has gone.
- `EveryTable` (`TableConsistent`): any containers, any answers, images without known digests and containers listed by a bare id among them. No answer is the sign that the table writes for none (`CheckAssumption`).
- `EveryIdentity` (`IdentityKept`): ids of any length and any names. Short ids tell the ids in play apart; a hostname that the owner chose is no part of an
  id that is long enough to be taken for one; an owner's name is no part of its id nor the archive's name; freshdock is not the container that the repair creates.
- `EveryReference` (`ReferencesAgree`): any words with a dot and any without, none of them a separator, `registry-1.docker.io` (an image named by that host
  would be given the credentials of `docker.io`) or `sha256` (an image of that name would be taken for an id), and every reference of up to three segments, a port, a tag and a digest made of them. A name is put in one
  of two normal forms, a path on Docker Hub or a host with a path (`HubName`, `ForeignName`); each reader is shown to compute a function of that form, and the
  lemmas on the first and last place of a word in a concatenation say where each reader cuts (`CutAt`, `NoTag`, `WithTag`).

The attempt to prove `MailAsAsked` showed a flaw of the model: two arms of a CASE in `SmtpTls` overlapped, where TLA+ leaves the choice open and TLC takes the first; they are IFs now.

Only model-checked:

- All that is temporal beyond invariants and step properties (`Termination`, `EventuallyCurrent`, `Stops`, `NewestHeard`, `Recovers`): liveness under fairness is out of the prover's reach.

## Plan

All modules above, the refinement with its proof and the theorems above are done.

Not modelled: the wire formats of the notifiers, the syntax of TOML and of notification URLs beyond which
target and secret they name, the redaction of secrets in logs, the warnings about unknown variables, HTTP itself, the logging of
rate limits and run summaries, connecting to the daemon, and what `freshdock recreate` prints. These convert data or print it, and
keep no state a property could be about.
