# A verification development for provin.e2e

provin.e2e is a test harness: Go code that provisions keys, a NATS broker and configuration,
boots the product's two binaries (`cmd/network`, the control plane, and `cmd/pipeline`, the data
plane) as processes or as containers, drives them through eleven scenarios and passes judgement
over the wire. Next to it, GitHub workflows move the pin that says which revision of the product
is tested. This directory holds TLA+ models of that code, TLC runs and TLAPS proofs.

A harness is wrong in two ways: it fails a healthy product (a race of its own), or it passes a
defective one (a check that cannot see the defect). Most properties here are of these two kinds:
the *test* is modelled with its waits, deadlines and assertions, the *product* around it, with
each defect the test exists to catch, and the properties say **no false alarm** and **a pass is
earned**. The others are about shared state that several actors change: the pin's branch and
issue, the broker's account claims, the node's start and restart.

The product's code is not in the repository. Its actions are modelled from what the harness and
the scenarios rely on, stated in the comment of each action and marked `external` in
`PROJECT.json`.

## 1. The system

| Component | State | Operations | Interacts with | What is hard | Correct means |
|---|---|---|---|---|---|
| `harness/emissionlog.go` | none (pure) | `ReconcileEmissionLog` | the log's records, the sink's lines | malformed record, short page, duplicate hash | its three views are what its doc says, and never read as "nothing lost" by mistake |
| `scenarios/losswindow` | snapshots, checkpoint, client | stop/start of consumer and producer, waits, reconciliation | both organisations, broker | shipper, broker and stops race with the test; output streams differ per runtime | no false alarm; a pass is earned; a failure names the defect |
| producer and consumer (product) | log, mirror, counter, subscriptions, sink output | mint, append, publish, ship, consume, exit, boot | broker, each other | kills, restarts, at-most-once delivery | continuity; what is served is a prefix of the log; one fate per emission |
| `oss-pin-bump.yml`, `oss-crosscheck.yml`, `branch-guard.yml` | branch, pull request, issue, OSS_REF on main and develop | evidence, decide, list, fetch, push, issue, close | crosschecks, other runs, people | every step is a separate call; runs wait in a queue with old data | human work is kept; the pin moves forward; one issue, which comes and goes |
| `harness/env.go`, `separated.go`, `node.go`, `compose.go`, `bootstrap.go`, the setups of `losswindow` and `supplychain` | processes, ports, keys, mounted trees, registrations | `StartSingleNode`, `RestartNode`, `StopNode`, `t.Cleanup` | the two binaries, docker, the broker, what an earlier run left | boot order, permissions, ports that move or are lost, drains that are cut off, failures half-way | a scenario is handed nodes it can use, always; what was started is stopped, drained |
| `harness/config.go` | none (pure) | `Render`, `SplitNodeConfig` | the two binaries | one address per service, but from where and through which guard differs per runtime | every address leads to the service that is meant |
| `pdpstub` | none | `POST /verify` | every network | fails closed for less than a whole envelope | it outlives the calls that need it |
| `harness/nats.go`, the broker half of `compose.go` | account JWTs on disk, in the resolver, in the live accounts | `Grant`, `bridge`, `refreshLoaded`, `WriteBrokerConfig` | clients that connect at any time | the broker caches claims | a grant is in effect; nothing else flows; nothing is taken back |
| the data plane (product) | subscriptions, inboxes, sink output, verdicts | subscribe, relay, deliver, audit | broker | a message without a subscriber is lost | every stimulus is accounted for; order; lineage |
| the single-node scenarios, `supplychain` | position in the body | publish, push, gate, wait, restart, sleep, assert | all of the above | gates that do not cover every hop, fixed sleeps | gates suffice; no false alarm; a pass is earned |
| `sensoraggregate`, `aggregatebundle` | pool, windows, receipts, attempts, bundle | publish pairs until a window suits; recompute, audit, compare; export, stop, verify offline | data plane with a ticker | windows split or pool pairs, ungated rollup and archive | no false alarm; a pass is earned; the test ends |
| `parity_test.go`, demo, `ci.yml`, `Makefile` | none | names against a table, narration, sequential jobs | `FINDINGS.md` | - | not modelled, see section 8 |

`PROJECT.json` lists the components with their sources, every hazard at its line with the
properties that cover it, and for every definition that models code the lines it stands for.

## 2. Modules

    LossAccounting      what an at-most-once stream with an emission log promises
      ^ implemented by
    EmissionLog         two organisations, four planes, broker, shipper   <- EmissionLogProofs
      ^ driven by
    LossWindow          the test: steps, waits, deadlines, judgement      <- LossWindowProofs
      ^ judges by
    Reconcile           ReconcileEmissionLog; MCReconcile states its views <- ReconcileProofs

    LossWindowScenario  the script: the body of TestLossWindow_EmissionLogNamesTheLoss

    DataPlane           loops, subscriptions, at-most-once delivery, audit
      ^ driven by
    ScenarioTest        the test: publish, gate, wait, restart, assert    <- ScenarioProofs
      ^ the stories
    Scenarios           eight scenarios: topology and body of each

    Aggregates          the two aggregate scenarios: rollup, window, test  <- AggregatesProofs

    NodeConfig          Render and SplitNodeConfig, reduced to addresses
      ^ rendered by
    Deployment          setups, restarts and cleanup, both runtimes       <- DeploymentProofs
    Grants              account claims and grants, both runtimes          <- GrantsProofs
    PinBump             the pin, its branch, issue and releases           <- PinBumpProofs

Modules named `MC...` give TLC its instance. Operators whose comment starts with *Mutant* are
plausible defects of the harness code; they are not part of any specification, and each property
of a passing run is violated when one of them takes the place of the definition it mutates. Type
invariants are proved (`SystemTypes`, `PinTypes`, `GrantsTypes`, `TypeCorrect`, `DeploymentTypes`,
and parts of the invariants of the other proofs) and not run.

### Emission log and the loss-window test

*EmissionLog* has the four planes (`mfg`/`retail`, network/pipeline) with the phases the harness
sees (down, booting, up, stopping), the durable log in the producer's pipeline, its mirrored copy
in the producer's network (the one `GetLogCheckpoint` and `ListLogRecords` serve), the emitter's
counter in memory, and the consumer's sink. Appending and publishing are two effects of one
emission in either order, because nothing in the repository fixes their order. A process starts a
fresh stdout stream, a container keeps its log (`StartPlane`); a stop drains the shipper (`Exit`)
or is cut off after ten seconds (`Kill`, `node.go:168`). `fault` is chosen at the start: none, an
emitter that forks back to 1, a lossy broker, a redelivery path, an emission without its record.

*LossWindow* is the test as a sequence of steps (`pc`, `verdict`): every operation, wait and
assertion of the body is a step, and the product runs between any two. The verdict is the set of
checks that failed: the last step may report several, as two of its three use `t.Errorf`
(`losswindow_test.go:344`, `:348`). A wait either succeeds or,
when nothing the product does of its own accord is left to do (`Quiescent`), runs into its
deadline. Both halves of `lwEnv` (process and compose) perform the operations the script in
*LossWindowScenario* expands, and differ in what survives a restart: the output stream and the
host port. *Reconcile* translates `ReconcileEmissionLog` and is what the test's last step calls: the
loop over the payloads as a recursive function of how many have been read, `sort.Strings` as the
one ascending enumeration of a set of numbers (`Ascending`). *MCReconcile* grows a log and a set of
received credentials step by step, within `BoundsAssumption`, and states what the result must be.

### Data plane and scenarios

*DataPlane* takes a topology, the loops of a node's configuration with their subjects and filters. A
publish is handed to the loops that hold a subscription at that moment and to nobody else. What a
sink consumes comes along one line of loops, its way: each hears what the one before it says, and
the first what only the outside world says. `DataPlaneAssumption` says that a topology has such a
way to each sink and grants for the hops that change the organisation, and `BodyAssumption` that a
body's stimuli differ; TLC evaluates both on the eight stories. *ScenarioTest* interprets a body:
`gate` is `WaitForSubscriber`, `health` the push ingress wait,
`first`/`record`/`each`/`heads`/`audit` the `WaitFor` predicates of the scenarios, `settle` a
`time.Sleep` (any amount of the product's work, or none), `matrix`/`unmoved`/`evidence` the
assertions. Faults: a filter that lets everything through, a payload-binding gate that does not
check, an edge that publishes what it refused, evidence kept in memory. *Scenarios* has simple,
branching, longchain (three hops), recall, httpingest, auditsurvival, archiveverify, supplychain.

The stories start where the setup ends. A restart or a stop takes the subscriptions and what waited
in memory, so a body's gates count only since the last one (`FullyGated`). `Whereabouts` is where a
stimulus is as seen from a sink: arrived, waiting on its way, or gone for want of a subscription.
`ArrivesInPublishOrder` includes that each arrival was signed by exactly the loops on its way
(`LineageIsTheRoute`).

### Aggregates

*Aggregates* is both aggregate scenarios: two gated sources, a rollup that pools what it hears and
folds the pool whenever its window ticks, an archive, an audit runner; and the test, which scans
the archive's lines and publishes another pair when they do not suit it. A window has what its
manifest names, what its credential commits to and what its receipt serves; two of the four
defects make these differ. `sensoraggregate` goes on to recompute, await the audit verdict and
compare the consumed set, `aggregatebundle` to export, stop the node and verify offline.

### Deployment

*Deployment* is the environment of all scenarios. What the harness does is a list of calls
(`todo`): wipe, provision, check the identity, open mounted trees, start, wait ready, wait
subscribed, register, hand over; stop, wait gone, remove. Each story (single node, losswindow,
supplychain) has its own list in each runtime, as in the code, and so have restart and cleanup: the
process runtime takes a node down and up again as a whole, `startSingleNodeCompose` restarts one
service after the other, `compose up` leaves running what already runs and holds a pipeline until
its network is healthy. A call that fails, at any place, goes to the cleanup that is registered by
then: compose's `down` is registered inside `ComposeUp` (`compose.go:276`), so a setup that fails
before it, on `NodeDID` for one (`env.go:258`), takes nothing down, and a stack of an earlier run
stays for the next run to reclaim. A `down` may fail at any of its steps, as a reclaim and as a
cleanup; the code logs that (`compose.go:271-272`) and goes on, over the stack that is still there
(`FailDown`, `Skip`).
Around it networks and pipelines boot, subscribe, sign, ship and stop on their own; ports move
(compose) or are lost to a stranger between `FreePort` and the bind (process), who may even answer
the health check; a compose run may find the stack of one that was killed, each service `"leaked"`
until it is stopped or taken over by `up`.

*NodeConfig* has what the boot depends on: the two files `SplitNodeConfig` makes of one
`SeparatedConfig`. A service boots, ships and subscribes only through the addresses and guards in
its own file, dialled from where it runs. The PDP stub (`Handler`) is asked by a network for every
call made on it.

### Grants

*Grants* has the account JWTs in three places: the resolver directory, the broker's resolver and
the claims of an account the broker has loaded, which it never fetches again. `Grant` is a
sequence of steps (export, import, bridge, two refreshes) that may fail half-way, with clients
connecting in between; in compose it is refused once the broker's configuration is rendered.

### Pin bump

*PinBump* is `oss-pin-bump.yml`, one action per GitHub call, for runs that wait in the concurrency
group with the commit they were given. Around them: oss moves, crosschecks overlap and end in any
order, people take, delete and merge the branch, open and close pull requests, dismiss issues,
release develop to main, itself or by a release branch, and merge hotfixes (`GuardAllows` is
`branch-guard.yml`). `OSS_REF` reaches main by way of develop alone: a hotfix leaves it as it is,
and a release branch is merged before develop's moves on. `proven` is a history variable.

## 3. Runs

| Run | Question | Result |
|---|---|---|
| `reconcile` | Are the three views what the doc says, for any log and any delivered set, malformed or short? | holds |
| `emission_log` | Under any order of stops, kills and starts, over a lossy, a redelivering and a skipping product: is the served log a prefix, the numbering continuous, each view's cause the right one? Does a sound product implement `LossAccounting`, does the mirror catch up, is every taken stimulus recorded? | holds |
| `losswindow` | Does the test fail a healthy product, pass a defective one, or name the wrong defect? | it does not |
| `losswindow_redelivery` | Is a late delivery reported as one (E2E-F-029)? | **violated** |
| `pin_bump` | Human work kept, proposals proven, pin forward, one issue, with failing calls, dispatches from any ref, and runs that waited and decide from an old commit? | holds |
| `pin_bump_live` | Does the issue close itself, and does it come back while the pin is behind? | holds |
| `pin_bump_order` | Is the issue closed only when nothing newer is proven? | **violated** |
| `scenarios` | For eight scenarios, both runtimes, five products: conservation, lineage, order, gates, alarms, passes, termination | holds |
| `scenario_ungated` | Do the gates of simple, branching, longchain and recall cover every loop? | **violated** |
| `grants` | Are exactly the grants in effect, whoever connects when? | holds |
| `deployment` | For three setups in two runtimes: does every configured address serve, does every setup and restart hand over usable nodes, with drains, signatures and ports in order, and does every test, wherever it fails, end with nothing running that it started or took over? | holds |
| `aggregates` | Whatever the ticker does: is a pass earned, is a healthy product failed only by the windows, does the test end? | holds |

### The three violations

* `losswindow_redelivery` - the reconciliation reads the deliveries afresh
  (`losswindow_test.go:334`) after the last wait matched them. A reading redelivered in between is
  reported as `lost sequences = [3]`, the very misreport FINDINGS.md calls closed.
* `pin_bump_order` - crosschecks may overlap and end in either order. The bump run of the older
  one finds its revision is not ahead of the pin and closes the issue, although the newer revision
  is proven and ahead; its comment speaks of "the newest proven revision".
* `scenario_ungated` - `StartSingleNode` waits for the subjects a scenario lists, and four
  scenarios list the raw ingress only. An interior loop may subscribe after the stimulus passed by
  and miss it for good. That bodies which do wait for every loop are safe is `GatesSuffice`.

### Observed and not made runs

Found while modelling and visible in the code at these lines: a pull request opened
between listing and push has its branch replaced (`oss-pin-bump.yml:209-279`); the issue's link
opens a pull request into main that `branch-guard.yml:26-33` refuses; supplychain gates the
subject two sinks share once (`supplychain_test.go:551`); its substitution check and branching's
matrix rest on fixed sleeps, which is why `PassIsEarned` excludes bodies with a `settle` step;
`aggregatebundle_test.go:153` asks for a window with both sensors
and `:187` accepts any two readings, of which the bundle is compared with the commitment and
neither with the manifest (that two sources out of two are all of them closes this, lemma
`TwoOfTwo`); `waitHealthy`'s comment says 30 s, its code 90 s;
a stack killed in the middle of its own setup, whose reclaim fails as well, would be taken over
with documents for some identities only (`compose.go:271-277`);
`losswindow_test.go:639` says retail carries no restart policy, `docker-compose.yml:24` that it does.

## 4. Bounds

| Bound | Value | Why it is enough |
|---|---|---|
| `MaxRecords`, `MaxHash`, `MaxSeq` (reconcile) | 3 | duplicates of both kinds, forks, one bad record at any place, a page boundary inside the log; proved for any |
| `Readings` (emission log) | 2 | one under way while another is lost, logged or shipped; any number of restarts; a sound product behaves as a lossy one that loses nothing; the process runtime only, as no property here is about the consumer's output stream; the forking product and compose are in `losswindow`; the proofs are for any set, every product and both |
| `Readings` (loss window) | 5 | those of the test; that a test drives the system and reads nothing but what is there is proved for any script |
| `Heads` (pin) | 2 | revisions oss's default branch is at: one ahead of the other, oss rewritten back |
| `Revisions` (pin) | 3, or 2 | in `pin_bump` people may also name a third by hand, ahead of both: a run that waited then proposes a revision from before the pin of today; the proofs are for any sets and order |
| `Runs` | 2 | one active and one pending is all the concurrency group allows; symmetric |
| `MaxChecks` | 1, or 2 where order matters | crosschecks overlap only pairwise relevantly: an older and a newer |
| `MaxCommits` | 2 | a run that waited while main moved |
| hops in longchain | 3 | a first, an interior and a last hop |
| `Accounts`, `Subjects` (grants) | 4, 2 | exporter, importer, both at once, and a bystander; the proofs are for any |
| organizations (deployment) | 1, 2, 3 | those of the stories; with three there is a node that is neither first nor last; the five invariants are proved for any |
| topologies and bodies (scenarios) | eight | those of the repository; conservation, order, lineage and gates are proved for any |
| `MaxRestarts` (deployment) | 2 | a restart of a restarted node; two moved ports; the invariants are proved for any |
| lost ports | 1 | each service once, at every point of a setup and a restart |
| leaked stack (deployment) | none, or a whole one with every identity registered | a `down` that fails half-way makes every partial one out of it |
| `MaxAttempts` (aggregates) | 2 | three pairs: a window may be split, pooled with a retry, and pooled with a retry of a retry; proved for any |

Deadlock checking is off where the modelled thing stops of itself: a log or a grant list that is
used up (`reconcile`, `grants`), a test that is over (`deployment`),
and the pin at its last commit (`pin_bump`, `pin_bump_live`, `pin_bump_order`).

## 5. Fairness and assumptions

Weak fairness only, and only for what the code or its scheduling does:

* the test goes on while it can: it is one goroutine, and every wait has a deadline;
* every process that has something to do does it: goroutines of running processes (subscribe,
  become ready, mint, append, publish, ship, consume, exit). Nothing is promised of a kill, of a
  harness operation taken at any time, or of a defect. In *Deployment* what is booting boots or
  fails, what stops stops, be it killed after ten seconds (`Lifecycle`), and what can subscribe does;
  nothing is promised of emitting or shipping. In *Aggregates* the test goes on and so does the
  product, one part of it after the other;
* the nightly crosscheck keeps being run and keeps ending (`schedule`), GitHub starts what it
  queued and a run goes on. In `pin_bump_live` calls do not fail and nobody dispatches: a person
  who dispatches for ever keeps replacing the one pending run.

Assumptions the runs state as constants or guards:

* deadlines outlast the product's work (`Quiescent`, `Quiet`, `Idle`): a wait expires only when
  nothing is left that could satisfy it. A slow machine is thus not a false alarm of the model; nor
  is a line that arrives between the last scan and the deadline of `sensoraggregate_test.go:177`,
  which the code looks at before it scans (`TimeOut`);
* `BootOutlastsEmission` (loss window only): the consumer does not boot faster than the two
  effects of one emission. Without it the wait for log size 3 would not be enough to know #3 was
  published into the void: it is the code's own margin, and it is not a guarantee;
* the harness is the only writer of the JWT directory while it grants;
* a credential whose line a sink wrote can be resolved, and so can its receipt, as the tests rely on;
* a signed call that meets no network, or a network that meets no PDP, is signed again and retried.
  The window after a network's boot in which the product refuses calls of its earlier epoch
  (`separated.go:225`) is part of this assumption and not modelled;
* what the properties except, they say: a port that was lost (`HandsOver`), a stranger that answers
  in a service's place (`ScenarioFindsItsNode`, `DownMeansDrained`), a `docker compose down` that
  failed (`HandsOver`, `EndsClean`), and the stack of an earlier run that a setup failing before
  `ComposeUp` leaves alone (`EndsClean`).

Abstractions: which identity signs is varied for the single node only, as the other setups fix it;
`compose down` stops dependents first, as docker does; retail's outage is a matter of *LossWindow*
and not of *Deployment*, where it would be another restart.

## 6. Proofs

Each for all values of the constants, under the modules' named assumptions.

**EmissionLogProofs.** Types; `MirrorIsPrefix`; `Continuity`; `ViewsNameTheCause`; and
that with a product which does not fork, skip a record or redeliver every step maps to a step of
`LossAccounting` or a stutter; where only such products are chosen from, that is
`SystemSpec => Abstract!Spec` (`SoundSystemIsAccounting`). Continuity is not
inductive: `ContinuityInv` adds that an emission whose append is pending carries one more than the
log's length, that after it is appended the counter is one past the log, and that a mint waits for
the emission before. `ViewsNameTheCause` needs `FlowInv`, which says where a reading can be at each
moment (waiting, under way, in the consumer's queue, arrived, dropped, skipped) and that it is not
in two of them.

**PinBumpProofs.** Types, `HumanWorkIsKept`, `PinMovesForward`, `OneIssue`, `ProposalWasProven`.
`ForwardInv` carries what a run has read to where it is used: the commit it was given exists, a
tip it inspected was the job's own, its target is ahead of the pin it checked out, and a bot's tip
on the branch is ahead of the commit it is based on; the merge's base rule then gives the pin's
direction. `IssueInv`: at most one run is past the queue, so a listing that found no issue is
still true when it files one. `ProvenanceInv`: every revision a run or the branch names is in
`proven`, back to the crosscheck it comes from.

**GrantsProofs.** Types, `GrantTakesEffect`, `OnlyGrantsFlow`, `GrantsStayInEffect`. `StepsInv`
and `CopiesInv` say how far the resolver and the live claims may be behind the directory at each
step of a grant; `ImportsInv` that an import exists only for a grant that was begun, under the
exporter's own key.

**DeploymentProofs.** The five invariants, for any chain of organizations and any number of
restarts, in both runtimes, wherever the test fails: `EveryAddressServes`, `ScenarioFindsItsNode`,
`PipelineMeetsItsNetwork`, `CallsAreVerified`, `DownMeansDrained`, and the types.

*Addresses.* `AddressInv` says that every address in a file is the `PeerURL` of a particular
service; `PeerURLLeads`, that such a URL leads to that service alone from wherever it is dialled,
and through the guards of its runtime. The files are rendered once, so what is left is that no call
changes them (`ConfigurationStays`).

*The order of the calls.* The harness's functions return lists of calls made of the lists of other
functions, some in loops over the organizations. Each call has a `Stage`; a list is in order
(`InOrder`) when of two calls about the same organization or service the later has the later stage.
That two lists in order make one in order is shown once for concatenation (`ScriptConcat`) and once
for the loops (`ScriptEach`), and then each function's list is the sum of its parts, up to the
setups (`ProcessSingle`, `ProcessSeveral`, `ComposeSetup`), the restart and the cleanup. The one
restart that takes its services one by one has an order of its own (`"apart"`). `Covers` says that
a phase's list has the calls of that phase and no others.

*The invariant.* `TodoInv`: what is left to do is in order, is of the phase, and is closed under
what comes later. So at any call, whatever comes before it has been done (`DoneBefore`) and
whatever comes after it is still to do (`StillAhead`). No property is inductive without it: that a
restart finds everybody answering, for one, needs that each of the waits ahead of it returned. The
other parts of `Inv` each say "the call is ahead, or what it brings about is there": down after the
wait for the end (`DownInv`), answering after the wait for readiness (`ReadyInv`, `PolicyInv`,
`KeepInv`), subscribed after the gate (`GateInv`), keys, documents and mounted trees once provided
(`KeyInv`, `DocInv`, `MountInv`), the port the scenario dials once handed over (`BaseInv`). `ShipInv` and
`DrainInv` are `CallsAreVerified` and `DownMeansDrained`, strengthened: what is unshipped is signed
with the registered key, and whom it is shipped to stays up until it is. `StopsNetworkLast` is the
step this turns on: a network is asked to stop when its pipeline is down, except in the restart
service by service, where the pipeline then stays up until the network is back (`BootInv`). A `down` that
failed is the exception to "what it brings about is there". A setup whose reclaim failed is `Stuck`:
every identity still has its document of the earlier stack (`LeakInv`: until the containers are
removed, either nothing is up or everything is registered), so its registrations are refused and
it never hands over. A cleanup whose `down` failed is `Abandoned` and stops nobody any more. The
services' own steps are taken together by where a service goes (`ServiceMoves`), the harness's by
which call they complete (`CallMoves`). `ChainAssumption` asks that a chain name no organization
twice: the code keys accounts, registries and DIDs by that name.

**AggregatesProofs.** `PassIsEarned` and `NoFalseAlarm`. `TestInv` says what each step of the test
has established of the window it goes on with; that this is enough for `aggregatebundle`, which
never compares manifest and commitment, is `TwoOfTwo`. For the alarms, an invariant says that a
healthy product's windows agree with themselves wherever they are, and another that the lines
already inspected did not suit.

**ReconcileProofs.** The three properties of *MCReconcile*, and with them what
`ReconcileEmissionLog` computes for any log and any finite set of credentials
(`ReconciliationComputes`). The loop's value after *n* records has a closed form (`ReadBy`); that
the recursion has this value and no other goes by the least number of records at which another
solution would differ, which needs no induction principle. The closed form enumerates the lost
records in ascending order: `AscendingEnumerates` makes an element's place the number of those that
do not exceed it, and `EnumerationIsUnique` says there is no second enumeration, so that one more
record extends the list at its end (`LostGrows`). A page's losses then begin the full answer
(`LostBySome`), and a renumbered record that was received changes neither hash view (`ForkedLog`).

**LossWindowProofs.** For any script that `ScriptAssumption` allows, not only the repository's:
every step of the test is a step of *EmissionLog* or leaves the system alone
(`EveryTestDrivesTheSystem`), so what is proved of the system holds under the test
(`TestSeesASystem`). `TheEvidenceIsGenuine` is about what the test keeps across stops and restarts:
the checkpoint and the listed records stay the beginning of the durable log, and the lines it saw
were written by the sink. The invariant adds that the current stream shows only what the sink wrote,
which a fresh stream (`StartPlane`) makes necessary.

**ScenarioProofs.** For any topology and any body under the two assumptions, with any defect: types,
`EveryStimulusAccountedFor`, `ArrivesInPublishOrder`, `GatesSuffice`. Of each sink the way to it is
a line of queues, the inboxes of its loops and then what arrived (`LineOf`), and each of the
product's steps rearranges one line: a message moves to the end of the next queue, leaves, or the
queues are emptied. Conservation is that a stimulus is in one place of the line or written off
(`Unique`), that whatever is there was published (`Known`), and that what no filter drops is there
(`Present`). Order and lineage are only about what can still arrive (`Live`: the payload is the one
that was signed, or a source that is yet to sign it is ahead): what is further along the
line was published earlier (`Ordered`) and carries the loops behind it (`Signed`).
`ArrivesInPublishOrder` is stated under
`GateHolds`: a product whose payload-binding gate is off *and* a body that publishes a substituted
payload (supplychain against the `unbound` product) hand on a credential under whatever
lineage and at whatever place it was published with; the run checks that case on its
stories, the theorem excludes it. For the gates, `GatesHeld` says that what the body waited for since the
loops last went down still holds its subscription.

Not proved, model-checked only:

* liveness (`MirrorCatchesUp`, `TakenIsRecorded`, `ComesToAVerdict`, `IssueClosesItself`,
  `BehindIsTracked`, `HandsOver`, `EndsClean`), which is outside the prover's reach;
* the verdicts of the loss-window test and of the scenarios (`ComparesWhatIsSettled`,
  `NoFalseAlarm`, `PassIsEarned`, `FailureNamesTheDefect`): they are true of the scripts the
  repository has and of no wider class one could name, and TLC runs these scripts whole.

## 7. What is left

1. A run that shows the pull request replaced under its reviewer, once its sentence in the
   workflow is settled (the line is in section 3).
2. Recall's discovery paging; supplychain's eavesdropper over *Grants*.
3. Proofs: none of the invariants that hold for more than the repository's own scripts is left.

## 8. Not modelled, and why

Signatures, canonicalisation, DID documents and delegations are data the properties do not tell
apart: a credential is a name with the loops that signed it. Of the configuration templates only
addresses, guards and identities are kept. `longchain`'s rate measurement measures wall clock. The
walks over `previousCredential` and `ListSuccessors` find what `LineageIsTheRoute` says. Bundles
of a linear chain, the flipped byte of a bundled source and recall's paging are each one
call of the product's, and one answer. `BuildBinaries` and `BuildProvinCLI` build once per test
binary; the creation of NATS account keys has no state to race for. `parity_test.go` compares the
names of directories with a table. `demo_test.go` narrates the supplychain story; `ci.yml` and the
`Makefile` are sequential. The node's own rewriting of account JWTs and the order of its stores are
the product's.

## 9. Running

    tlc -config LossWindow.cfg MCLossWindow        # any run: its cfg and module are in PROJECT.json
    tlapm EmissionLogProofs.tla                    # any of the eight proof modules

The longest run is `emission_log` (about two minutes on four cores).
