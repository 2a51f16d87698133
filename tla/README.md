# A TLA+ model of the BDD test framework

The repository holds a Behaviour Driven Development test harness for the SonataFlow
Kubernetes operator. Godog runs Gherkin scenarios, one after the other or several at a
time; every scenario uses a Kubernetes namespace, installs services into it, watches its
pods, and cleans up after itself. This directory models the parts of the harness that keep
state and that several goroutines, scenarios or processes share, checks them with TLC and
proves theorems about them with TLAPS.

Paths below are relative to the repository; `FW/` stands for
`bddframework/pkg/framework/`, `IN/` for `bddframework/pkg/installers/`, `ST/` for
`bddframework/pkg/steps/`.

## Inventory

| component | source | state | operations | status |
|---|---|---|---|---|
| Pod log collector | `FW/logging.go`, `FW/client/kubernetes/pod.go` | `monitoredNamespaces`: per namespace a map of pods, containers and `loggingFinished`, and an unbuffered stop channel; the log folder | `StartPodLogCollector`, the scan on each tick, one follower per container, `StopPodLogCollector`, `RenameLogFolder` | `PodLogCollector` |
| Service installers | `IN/service_installer.go` | `installedNamespacedServices` (namespace to slice), `installedClusterWideServices` (set) | `Install` of four kinds of installers, `UninstallServicesFromNamespace`, `UninstallServicesFromCluster` | `ServiceInstallers` |
| Namespace history | `FW/namespace.go`, `PruneNamespaces` in `FW/kubernetes.go`, `testbdd/scripts/prune_namespaces.go` | the file `logs/namespace_history.log` | create and delete a namespace, their hooks, prune | `NamespaceHistory` |
| Commands | `FW/command.go` | `syncMutexMap` | `Execute` with syncID and retries | `CommandSync`, `ExclusiveRuns` |
| Scenario lifecycle | `testbdd/executor/bdd_executor.go`, `ST/data.go` | `Data` of each scenario, `namespacesCreated` | Before, After, AfterSuite hooks, tag and flag setup | the hooks, inside the modules above |
| Waiting | `WaitFor` in `FW/util.go` | a timer and a ticker per call | poll a condition, error conditions, a timeout | the loop inside `HttpRequests`, `PagedQuery`, `OlmOperators` |
| HTTP and GraphQL | `FW/http.go`, `FW/graphql.go`, `ST/http.go`, `ST/hyperfoil.go`, `ST/graphql.go` | the results collected by a step, the benchmark run in the scenario context | retry loop, request threads, pagination | `HttpRequests`, `PagedQuery` |
| OLM operators | `FW/operator.go`, `FW/subscription.go` | subscriptions and CSVs in the cluster | install, wait, delete | `OlmOperators` |
| Cluster client | `FW/client/` | one `kubeClient` | create if not exists, fetch, update | the calls of `OlmOperators` |
| Image cache | `ST/image_registry.go`, `FW/container_engine.go`, `FW/dockerfile_provider.go` | registry content, four global Dockerfile providers | decide, build, push | `ImageCache` |
| Tag filter | `bddframework/pkg/gherkin/feature.go` | none | match tags | not modelled |
| Configuration | `bddframework/pkg/config/` | flags | getters | constants of the modules |
| Individual installers, service frameworks, steps | `IN/*_installer.go`, `testbdd/installers/`, `FW/kafka.go` and others, `ST/` | none of their own | calls to the cluster | their outcomes are choices in the modules |
| CR types, scripts, test data | `bddframework/pkg/api/`, `FW/infrastructure/`, `hack/`, `test/` | none | none | not modelled |

How they interact. The Before hook starts the collector of the scenario's namespace in a
goroutine that nobody waits for. The scenario's steps create the namespace (which appends
to the history), install services (which fill the registries) and run commands. The After
hook stops the collector when the namespace exists, renames the log folder, uninstalls the
services of the namespace and deletes it (which rewrites the history). AfterSuite
uninstalls the cluster wide services. A later process prunes what the history lists. Steps
poll services over HTTP, count process instances in the Data Index, install operators
through OLM, and build images with an engine and a registry that all scenarios share. With
`--godog.concurrency` above one these hooks interleave and share the registries and the
history; with `namespace_name` set all scenarios share one namespace.

What is hard, and the property that makes each component correct:

- *collector*: a log may be stored by the follower or by the stopping thread. One of them
  must store it, not both, not neither; stopping must end and must not panic.
- *installers*: whatever was put in a namespace must be known when it is uninstalled,
  operators must outlive the resources they finalize, success must mean that nothing is left
  which the installers could have known of.
- *history*: a namespace of the run must stay listed until it is deleted, whoever rewrites
  the file meanwhile; what the prune command deletes must have been recorded by a run.
- *commands*: one command at a time per syncID; the result is that of a run.
- *HTTP steps*: what a step posts or starts happens once unless an answer is lost; threads
  lose no request and no result; every step ends.
- *paged query*: an instance is counted once although others arrive between two pages.
- *operators*: created once although many ask, there while one of them needs it, gone with
  the installed CSV after a successful removal; what others subscribe to meanwhile stays.
- *images*: a step leaves an image of its own project, whatever concurrent builds do.

`PROJECT.json` lists every hazard at its line, with the properties that cover it.

## Modules

### PodLogCollector (`MCPodLogCollector`)

One namespace. `pc` is the scenario thread through `BeforeScenario`, the steps, the check
of `OperateOnNamespaceIfExists`, `StopPodLogCollector`, `handleScenarioResult` and
`deleteNamespaceIfExists`. `starter` is the goroutine up to `monitoredNamespaces.Store`,
`col` the loop after it, `fol[l]` the follower of container `l`. `podKeys`, `conKeys` and
`finished` are the two levels of maps and the flags in them; `disc` and `folder` are the
log files. Writing a Go map takes two steps (`PutPodBegin`/`PutPodEnd`,
`PutConBegin`/`PutConEnd`) and `MapRace` is what the Go runtime may do when a follower
reads it in between. `StopHandshake` is the rendezvous on the unbuffered channel.
`fetched` separates the request for a log from its storage.

`StartCreateFolderFails` and `RenameFails` are the errors of making and renaming the folder.

Abstractions: a log is nothing, a part or the whole; a deleted namespace loses its pods at
once; a `GetPods` that fails changes nothing, so it is a scan without pods; the event and
object dumps between stop and rename are left out. Bounds: a file in an existing folder can
be written; `Scenarios` uses of the namespace, one after the other, and the goroutine of one
scenario has left the prologue of `StartPodLogCollector` before the next scenario begins.

### ServiceInstallers (`MCServiceInstallers`)

Concurrent scenarios over the two `sync.Map`s; each map call is a step. `NsLoadOrStore` and
`NsAppend` are the two halves of a namespaced `Install`, `CwLoadOrStore` decides who
deploys a cluster wide service. `NsDeploy`, `CwDeploy`, `CleanupCrs`, `WaitCrsRemoved`,
`UninstallFromNamespace` and `UninstallFromCluster` succeed or fail, also halfway. The five
loops of `UninstallServicesFromNamespace` are the values of `Loops`; a loop reads its list
when it starts (`EnterLoop`) and visits it in order, in any order for the set.
`StoreNotDeleted` overwrites the slice, as the code does. YAML and OLM installers have the
same control. A custom resource is none, live or being deleted; `CrRemoved` is the
cluster's finalization. The configuration keeps no namespaces.

The individual installers differ in two ways that matter here, and two constants say which
is which. `Reliable` installers return an error when something is left. Others return nil:
MongoDB collects the errors of its deletions and drops them (`mongodb_installer.go:104-141`),
the Hyperfoil node scraper leaves its deployment to the namespace
(`hyperfoil_node_scraper_installer.go:104-139`), Knative never deletes its CRDs
(`knative_installer.go:88-116`), and an operator of OLM may leave a CSV (see below). `Listed`
are those that list their custom resources; the lists of SonataFlow, Postgres, the node
scraper and the Knative source of Kogito are always empty, so that neither the cleanup nor
the wait sees any (`sonataflow_installer.go:142-178`). `UninstallFromNamespace`,
`UninstallFromCluster`, `CleanupCrs` and `WaitCrsRemoved` ask these sets. The hooks by
which a YAML cluster wide installation writes to the history are in the next module.

### NamespaceHistory (`MCNamespaceHistory`)

Two kinds of writers share the file. A scenario creates its namespace, appends its line
(`AddToHistory`), deletes the namespace and removes the line in three steps: read, truncate,
write from the start of the file. A YAML cluster wide installation, begun by the scenario
that asks first, applies its files (`InstallClusterYaml`), which succeeds on a namespace that
is there already, and only then appends the fixed name (`RecordInstallation`;
`service_installer.go:234`); after the last scenario `UninstallClusterYaml` deletes the
namespace, whoever created it, and removes the line. The hooks only log an error, so that
an append may be missing; a read that fails counts as an empty history, which is then
written back; a truncation or a write may fail. The file persists: it begins as one of
`Histories`. `RunOver` stops the run anywhere. `PruneRead`, `PruneDelete`, `PruneClear` are
the prune command.

Names differ in length, so a write over a longer file may cut a line in two. `Overwritten`
gives every file that may result: the output, then the whole lines it has not reached, with
or without the rest of a name before them. All such rests are one line, `Torn`, which may
name any namespace. Five observers, which no action reads, record what the properties need:
what earlier runs recorded, what the run created, whose hook failed, whether the file was
written between a removal's read and write, and whether a failing call has emptied it.

### CommandSync, ExclusiveRuns (`MCCommandSync`)

`Execute` with the two steps of `getMutexOrCreate`, the lock, the retry loop and the
deferred unlock. `Warm` syncIDs have their mutex in the map. `ExclusiveRuns` is the
abstract specification: runners wait, run one at a time per group and finish.
`ImplementsExclusiveRuns` instantiates it with the threads of warm syncIDs and
`RunState` as the refinement mapping. The number of retries is a natural number (with a
negative one the loop would not run at all and nil would be returned).

### PagedQuery (`MCPagedQuery`)

The step that counts process instances. `Tick`, `Page`, `PageFails` and `FullRequest` are
one evaluation of the condition: the loop over offsets, the callback that appends a page
(`collected`), the return on an error, and the comparison that clears the results when it
fails. `Index` is the Data Index, which goes on between two pages. `leftover` is a history
variable: the length of what a failed attempt has left in the slice. The query asks for no
order, and the code uses nothing of an instance but its presence, so a page is a length.

### HttpRequests (`MCHttpRequests`)

One step, of each kind: those that send one request per tick (`Single`), those that go
through the retry loop of `ExecuteHTTPRequest` (`Retrying`, the start of a benchmark among
them), and requests in threads. `Send` chooses the outcome, and whether the service
processes the request now, later or never (`Serve`): an error may hide any of the three, any
status may come of a request that was processed, and a 2xx means that it was. `ServeLate`
is the service that comes to a request the client has given up (`http.go:288`), at any time,
also after the step has sent others or has ended. Requests are numbered as they are
processed, and a 2xx carries its number (`answer`), from which `Judge` takes the benchmark
run. `Again` is the loop's decision, `Holds` the condition of the kind, `Judge` what WaitFor
makes of it. `ThreadSend`, `ThreadSucceeds` and `ThreadDone` are `runRequestRoutine` with its
deferred `Done`; `Join` the return of `Wait` and the loop over the results. `served` and
`spoiled` are history: requests processed, and those of them whose answer the step could not
use. With retry number 0 `last` stays "none" and the nil response is dereferenced
(`panicked`).

### OlmOperators (`MCOlmOperators`)

The users are scenarios that run concurrently and install one operator, in a namespace
they share or cluster wide. Every call to the API server is a step: the two of
`CreateIfNotExists` (`FetchGroup`/`CreateGroup`, `FetchSub`/`CreateSub`), the two halves of
`IsOperatorRunning` and the error condition (`PollSub`, `PollDeployments`, `PollErrors`),
and the four of an uninstallation (`GetSub`, `DeleteSub`, `FetchCsv`, `DeleteCsv`). Each may
fail. `seen` is the CSV that a call has read in a subscription: the `CurrentCSV` in
`PollSub` (`operator.go:242`), the `InstalledCSV` in `GetSub` (`operator.go:373`).

A subscription is fetched, created and deleted by name, but looked up by package and catalog
source (`subscription.go:39-44`). So `sub` has two places, the name the tests use and
another one; the first may hold somebody else's subscription, even of another catalog
("elsewhere"), which only the calls by name find.

The external actions are OLM and others. `ForeignSubscribes` creates a subscription in
either place at any time. `Resolve` chooses a version when no CSV is in the way; `Upgrade`
moves the subscription to a later one, whose CSV is then planned while the installed one is
still there, as it happens to an operator that starts at the `StartingCSV` of a moving
channel with default approval (`amqstreams_installer.go:33-34`); `InstallCsv`, `Replace` and
`SetInstalled` follow in any order the cluster allows, and an install plan goes on after its
subscription is gone. `Deploy` brings, takes over and collects the deployments. Three facts
about the environment are assumed: nobody but the tests deletes subscriptions, OLM records
the `InstalledCSV` before it resolves the next upgrade, and the resolver fails on a CSV that
no subscription refers to. `Init` includes an orphan of an earlier run. `loaded` is the entry
in `installedClusterWideServices`; the rest of the registries is in `ServiceInstallers`, for
which this whole module is the outcome of one installation.

### ImageCache (`MCImageCache`)

Scenarios that build an image of a project each. `Begin` is `needToBuildImage` by cache
mode, `Provider` puts the project's location into the struct that all projects of a kind
share and `Content` reads it back; `ProviderPanics` is the panic for a target directory that
cannot be read, which Godog turns into the step's error. `BuildImage` and `PushImage` are
the chain of the container engine in which nothing follows an error. A name of an image is
the sequence of its words, so that different parts may spell the same name, as in the code;
the word for a native build comes from the Maven configuration (`native`), whatever the
build has put into the target directory (`kind`). `local` and `registry` are the engine's
and the registry's images, each known by the build it is of and whether it is of this run.
`brokenCall` is a history variable: scenarios in which a command failed.

## Runs

| run | instance | what it shows |
|---|---|---|
| `collector_one` | 1 scenario, 2 pods of 2 containers | no panic, the maps are frozen while the unfinished logs are stored, every registered log is stored or claimed when the stop returns |
| `collector_shared` | 2 scenarios in one namespace, 2 pods, failing API | a finished container has its log or someone about to write it; AfterScenario returns |
| `installers_own` | 2 scenarios in own namespaces, with 2 installs and 1, a reliable and an unreliable namespaced service and a cluster wide one | tracked, installed once, operators outlive the resources they list, success leaves only what unreliable installers have left, the suite ends |
| `history_all` | 2 scenarios, 1 installation, 1 other namespace, an earlier history of one line or none, failing calls, killed anywhere | a line is lost only by a failing call or by overlapping writes; without the latter pruning deletes only what a run has recorded |
| `command_warm` | 2 commands of a warm syncID, 1 of a new one, 1 without, up to 2 retries | exclusion, results, refinement, every Execute returns |
| `paging` | pages of 2, 0 to 5 instances asked for, up to 6 indexed, 2 failing queries | no instance is counted twice, success counts, leftovers spoil one attempt only |
| `requests` | every kind of step, retry numbers 0, 1, 3, 2 threads, 2 to 4 requests, at most 5 served, also late | repetition only after a lost answer, the stored run is the only one answered, threads lose nothing, steps end |
| `operators` | 2 scenarios, one namespace or cluster wide, 2 versions in the channel, 2 places for subscriptions | no conflict, operators outlive scenarios, foreign ones stay, success leaves only versions of an upgrade, installations end |
| `images` | 2 scenarios, 8 projects, 3 cache modes, with and without a registry | images are of the step's own project, only a project of the same kind spoils a build |

Three runs state what a comment of the code says and the code does not do; TLC finds
the behaviour, and `findings` in `PROJECT.json` quotes the line:

- `command_cold`: two first commands of a syncID create a mutex each.
- `installers_forgotten`: the loop deletes indices instead of installers.
- `paging_leftover`: a failed attempt leaves results to the next, which may then reach the
  expected number with too few instances.

More of this kind shows in the models without a run of its own.

Of the collector:

- A follower marks its container before it writes the log (`FollowMark`, `FollowWrite`;
  `logging.go:282`), so that `StopPodLogCollector` may return without it, although it
  "waits until all logs are stored on disc".
- `storeContainerLog` does not test again after its request (`StoreGet`, `StoreMark`;
  `logging.go:336`): a partial log may replace the complete one a follower has written.
- The entry of a stopped collector stays in `monitoredNamespaces`: with two scenarios in
  one configured namespace the second start is refused and the second stop sends on a closed
  channel (`SendOnClosed`; `logging.go:319`).
- A follower may read a map while the scan writes it, which ends the process (`MapRace`).
- Renaming the log folder onto that of another scenario of the same name fails, is only
  logged, and leaves the folder under the namespace's name (`RenameFails`; `data.go:187`).

Of installers, operators and history:

- `LoadOrStore` and `Store` of the slice are two steps (`NsLoadOrStore`, `NsAppend`;
  `service_installer.go:168`): of two scenarios in one namespace one may lose its installer.
- An installer whose cluster wide installation failed stays registered, so that later
  scenarios wait for a service nobody installs (`CwLoadOrStore`).
- Several installers report a removal they did not make (`Reliable`), and the resources of
  SonataFlow and Postgres are neither deleted nor waited for (`Listed`): "success" then says
  less than that the namespace is clean.
- An operator with several deployments is reported as running although none is available
  (`DeploymentsAccepted`; `operator.go:257` asks only when there is one).
- During an upgrade the installed CSV is deleted and success reported while the new one is
  planned or already there (`GetSub`, `FetchCsv`): it stays without a subscription, and the
  next installation fails on it. The other way round a CSV that OLM has just replaced counts
  as removed.
- When the deletion of the CSV fails, a retry finds no subscription and cannot remove it
  (`DeleteSub`, `GetSub`).
- Where somebody else subscribes to the same package in the namespace, `GetSub` may find
  that subscription first, see no label and return nil with the tests' own left in place.
- In a namespace that scenarios share, another one may delete the tests' subscription between
  `GetSub` and `DeleteSub`; what is then deleted by name is whatever somebody else has
  created under it.
- Removing a line rewrites the history and loses one that somebody has appended meanwhile,
  or cuts one in two (`RemoveRead` to `RemoveWrite`; `namespace.go:139`). A read that fails
  erases the history (`namespace.go:96`). An installation killed or failing before its hook
  has left a namespace nobody records. Pruning clears the history although a deletion failed
  (`PruneClear`), and deletes the namespace of an installation also when it was there before
  any run.

Of requests and images:

- "should not contain" holds for a response that is not successful, as its body counts as
  empty (`Holds`; `http.go:174`); a retry number of 0 ends in a nil response; a step
  that asks for 0 instances succeeds without a query (`MorePages`).
- A benchmark whose answer is lost runs more than once (`RepeatedOnlyAfterLoss` says which
  runs there are), and the run that later steps ask for need not be the last one: a start
  the client has given up may follow it (`ServeLate`).
- Builds whose parts spell the same name share an image (`ImageName`), and cache mode
  "always" trusts a tag that may not exist (`Begin`).

Why the bounds suffice. Every race above needs two threads of the colliding kind: two
followers and a scan (two pods), two scenarios, two commands of a syncID. Two containers of
a pod separate the pods map from the containers maps. Two scenarios, an installation and a
line of an earlier run give the history up to four lines, so that some survive on either
side of a removal and a shorter write leaves whole lines and cut ones behind it; the fourth
namespace is one the run has nothing to do with. A second use of a namespace shows all that
is left of the first. Five instances in pages of two give a last page that is full, partly
filled or missing, and a sixth one too many; two failures give a leftover of a leftover.
Three attempts have a first, a middle and a last, and five requests served leave room for a
late one after each. Two scenarios are enough for the races of two calls on one
subscription, one provider or one image name; two versions in a channel are the installed
and the current one of an upgrade, and the proofs hold for any number of versions. The eight
projects differ in one part or two each; some have the name of another, and one asks for a
native build and gets a jar.

Fairness. `PodLogCollector`: weak fairness of every goroutine, as Go schedules them all, of
the hooks and of the end of the steps, which have timeouts; strong fairness of the stop's
rendezvous only, because a Go select that is offered it at every turn chooses among ready
cases at random. The cluster is not assumed fair: pods may run for ever.
`ServiceInstallers`: weak fairness of each scenario and of the suite; not of the cluster's
finalization, as the waits have a timeout. `CommandSync`: strong fairness of each command,
as a Go mutex does not starve its waiters (starvation mode) and commands are assumed to
terminate. `HttpRequests`, `PagedQuery`, `OlmOperators`: weak fairness of the goroutines,
whose requests have timeouts; in the first and the third strong fairness of WaitFor's timer,
which the select finds ready at every turn once it has fired and chooses at random. Nothing
is assumed of the service, the Data Index or OLM; in `PagedQuery` not even that the timer
fires. `ImageCache` has no liveness property.

## Proofs

All theorems hold for every value of the constants that satisfies the module's
`ConstAssumption`; those below with a condition say so. They rest on nothing else.

### CommandSyncProofs

The inductive invariant is `TypeOK`, `WarmMapped` (the map keeps the mutex of a warm
syncID), `MutexKnown` (which mutex a command has, by its place in `Execute`) and
`RunningOwns` (who runs owns its mutex). Exclusion alone is not inductive: it does not say
that two commands of one syncID lock the same mutex, which follows from `WarmMapped` and
`MutexKnown`. `WarmExclusion` is `OneAtATimeWhenWarm`; `Refinement` shows each step to be
one of `ExclusiveRuns` or a stutter. `EarnedResults` follows the retry loop (`Earning`):
nothing is counted before it, a result comes with at least one run, and the loop is left
after a success or after one run more than there are retries.

Two theorems are what `ExecuteReturns` rests on apart from fairness, and hold for cold
syncIDs too. `NoDeadlock`: who waits in `Lock` waits for another command that has the mutex
and runs, and which waits for nobody (`HeldByRunner`, the converse of `RunningOwns`: a
mutex somebody holds is the one he runs with). `BoundedWork`: every step of a command
lowers its `StepsLeft`, a natural number of at most its retries and seven, and no step of
another command raises it.

### PodLogCollectorProofs

`IInv` joins `TypeOK` and `FinishedHasLog` with what they rest on: `Unmonitored` (without
an entry nothing has happened, and who is about to store an entry finds none), `LoopEnded`
(after the stop signal the loop has returned), `Followed` and `Scanning` (a container gets
its follower once, when it is registered), `CurrentLog` (what the stopping thread holds).
`FinishedHasLog` needs `Scanning`: without it a registration could restart the follower of
a container that has claimed its log. `FinishedLog` and `MapsFrozen` hold for any number of
scenarios of the namespace. `NoPanicAlone` and `LogsAlone` assume `Scenarios = 1`, the
ordinary run in which a namespace belongs to one scenario, and add `OneScenario` (the
channel is closed once, the folder stays until it is renamed, and a container visited by
`storeUnfinishedContainersLog` is finished); two scenarios of one namespace do
panic (see the observations).

What the stop of a shared namespace meets is `Handshake`: the channel is open as long as the
loop runs, and it is closed when another scenario sends only if an earlier one has stopped
the same entry. Hence `StopHeard` (no send waits for a loop that has returned), `OnlyPanic`
(the panic of a second stop is the only one: no follower looks up a container that is not
registered) and, with the order `ScanDescends` on the places of a scan, `ScanReturns` (a
scan comes back to the select that receives the signal). They are what
`AfterScenarioReturns` rests on apart from fairness.

### ServiceInstallersProofs

`TypeInv` is `TypeOK` with the kind of the service at each place of `Install`
(`Installing`), of the list the last loop runs over (`Visiting`), and what an absent entry
means (`Known`). `Once` proves `InstalledOnce` with `Deployers`: whoever deploys a cluster
wide service has registered it, alone, and nobody has deployed it before.
`TrackedInOwnNamespaces` assumes `OwnNamespaces`; `Registered` follows a service through
the slice that an `Install` is about to store, the list the uninstalling loop has left, and
the services it could not remove; from the first visit on unreliable ones may be missing
from it. `OwnStepSuffices` is where the assumption enters: the
step of a scenario leaves the namespaces of the others alone. `Tracked` fails without it
(see the observations).

`SuiteClean` needs no such assumption: `SuiteTracks` says that what is deployed cluster wide
is registered (by `Deployers`), and that what a suite without an error has left is still to
visit, or unreliable. `SuccessClean` and `OutlivesResources` assume `OwnNamespaces` and rest
on `Cleaned`: the listed resources a scenario has left (`Left`) belong to registered
services (a resource is created only of a service that is deployed, hence registered:
`Tracked` and `SuiteTracks`), then, while it waits without an error, to services it has
still to visit, and to none after the waits. A wait's list has every registered service
because what `Range` visits is a permutation of the registry (`SetToSeqsAll`, by
cardinality).

`ScenariosDescend` is what `SuiteEnds` rests on apart from fairness, and assumes nothing of
the namespaces: the steps of a scenario lower, in lexicographic order, the installations it
may still begin, its place in the order of the hooks and loops, and what its loop has not
visited. No step of others raises any of them, as a loop has read its list when it starts.

### NamespaceHistoryProofs

`IInv` joins `TypeOK` with what both properties follow from. `Provenance`: as long as no
removal was disturbed, the file, the copies and what the prune command has read hold only
names the run or earlier ones have recorded. `Coverage`: what `LostOnlyByOverlap` says.
Neither is inductive. A write may cut a line, or lose one it does not copy, unless the file
it goes to is empty (`Lone`: an undisturbed removal is the only one to write, to an empty
file) and the copy has all other lines (`CopyIsWhole`, from the read on, unless that was made
of a file another removal had truncated - which then counts as an overlap when either
writes). `OwnNamespace` says that who removes its line has deleted its namespace.
`SparesForeign` and `LossExplained` hold for any scenarios, installations, histories, failures
and kills.

Both rest on what the code's loop leaves of a file, `ToSet(Without(lines, s)) = ToSet(lines)
\ {s}`, and on what is left behind a shorter write (`OverwrittenProperties`). `Without` is a
recursive function over the lines. That it exists is shown before it is used
(`KeptExists`), and facts about it by induction: the library's induction theorems take an
operator, so `SetInduction` states induction for the set of the numbers that have the
property, from the least element outside it (`LeastNatural`, by the well-foundedness of the
natural numbers).

### PagedQueryProofs

`NeverOvercounts` is not inductive: it does not say how far the pages have come. `IInv`
adds that what an attempt has collected is at most `indexed` and at most the offset, beyond
the leftover; as `PageLength` is what lies between the offset and `indexed`, a page keeps
it, and so does an instance that arrives. `SuccessCounts` follows, as a step that succeeds
has collected what it expects.

### HttpRequestsProofs

`IInv` joins `TypeOK` with `ThreadsOnlyThere` (threads run only in a step with threads),
`AnswerCounted` (a usable answer is to a request that was processed), `RunIsAnswer` (a
benchmark step remembers the run of its last answer) and `RepeatedOnlyAfterLoss`, which is
an equation of sets: the processed requests whose answer was lost are all but the one
answered. It has to hold while a late request is processed at any moment, which adds its
number to both sides (`OneMore`). `NoNeedlessRepetition` and `AnsweredRun` hold for any number
of retries and any outcomes. `AllReported` adds `Reported`: while the step waits, a thread
that is not running any more has its result.

`AllServed` needs a sum over the threads: requests served and requests still to be sent. The
latter are the elements of a set, `Pending`, of pairs of a thread and a number up to what is
left to it, so that a request takes one element away (`OneLess`), and the start puts threads
times share there (`SharesAddUp`; the step fails when the division leaves a remainder).
`Balance` says that as long as no thread has failed, served and pending requests are what
was asked for; `Reports` that a request given up has made its thread fail and that a thread
that succeeded has nothing left. With all threads successful nothing is pending, and nothing
is served later.

`RetriesBounded` and `NilOnlyWithoutRetries` follow one evaluation of a condition
(`Attempting`): it sends at most `http_retry_nb` requests, and looks at a response that does
not exist only if that number is zero.

### OlmOperatorsProofs

`NoClusterConflict` rests on the registry (`OneCreator`): cluster wide, only the scenario that
found it empty is between the two calls of `CreateIfNotExists`; and nobody uninstalls before
all are over (`OneUninstalls`). The other theorems rest on what is known of OLM and of the
scenario's own reads, in any interleaving. `Chain`: at most one subscription is resolved, its
installed CSV is not newer than the current one, and the CSVs in the cluster are those two
or older ones. `HasCsv`: while a CSV is planned, the one it replaces is there. `Undisturbed`
follows an uninstallation in a namespace no other scenario uses, or the suite's: before
`DeleteSub` the subscription found under the name is still ours, because others can take a
name only when it is free (`ForeignSurvives`); after it, no subscription is resolved as long
as a CSV is left, and the CSV it has read cannot come back. So a success after the deletion
means that this CSV is gone, by the uninstallation or by an upgrade
(`SuccessLeavesOtherVersions`), which is all the code ensures; where the channel has one
version nothing is left at all (`FixedVersionClean`). `OperatorStays` rests on `Kept`: until
somebody removes, a subscription that was resolved has its current or its installed CSV, and
deployments exist only with a CSV.

### ImageCacheProofs

`OwnImage` rests on `Named` (an image in the engine or the registry is of a build with that
name) and `Pushed` (what a scenario pushes it has built, what it ends with is in the
registry, at each place of the step); a name that is the scenario's alone then means its own
image. `ProviderClash` rests on `Located`: the location in a provider is the base of a build
of its kind.

## Only model-checked, and not modelled

Liveness (`AfterScenarioReturns`, `SuiteEnds`, `ExecuteReturns`, `LeftoverIsOvercome`,
`StepEnds`, `InstallationEnds`) is only model-checked: the prover handles neither fairness
nor ENABLED. Of the first three the parts that need no fairness are proved (see above:
who waits waits for somebody who goes on, and steps descend in a well-founded order).
Every invariant and action property of the passing runs is proved; those of a scenario's
own namespace with `Scenarios = 1` or `OwnNamespaces` as an assumption, which the instances
of their runs satisfy.

What is not modelled, and why, is in `components` of `PROJECT.json`. The bulk of the
repository's lines are type declarations and generated deep copies of custom resources
(`FW/infrastructure/`), getters of flags (`bddframework/pkg/config/`), and functions that
build a custom resource, send it to the cluster and wait for its pods (`FW/kafka.go`,
`FW/infinispan.go`, `FW/keycloak.go`, `FW/mongodb.go`, `FW/knative.go`, most of
`FW/kubernetes.go`): they keep no state, and a model of them would say that a call
succeeds or fails, which is how the modules here use them. The steps bind sentences to
these calls. The tag filter is pure string matching. Two small check-then-act caches are left
out: the loggers (`logging.go:112`) and the generated names (`data.go:112`), for the
reasons given with the hazards.

## Plan

What is built follows the order in which state is shared: collector, installers, history
and commands first, then requests, queries, operators and images. What would come next:

1. Theorems: the parts of the other liveness properties that need no fairness: that the
   polls of a step and those of an installation descend between two ticks.
2. A composition of `ServiceInstallers` with `OlmOperators`: the first shown to hold with
   the second in place of its one-step installations.
3. The lifecycle of a run: the hooks composed from the collector, the installers and the
   history.
