# A model of the job operator

TLA+ models of the three-controller Kubernetes operator of this repository (`main.go`,
`pkg/controller`), the TLC runs that check them on small clusters, and theorems about them whose
proofs TLAPS checks for every cluster.

## 1. The system

The operator is one process. `main.go` starts a controller-runtime manager with three controllers.
Each has one worker goroutine and a work queue of names; a call of `Reconcile(name)` reads the
cluster, creates Jobs and writes the status of one custom resource. Nothing is kept in memory from
one call to the next: what survives a call or a crash is what the API server stores.

| Component | State it keeps | Operations |
|---|---|---|
| JobFlow controller (`jobflow_controller.go`, `helper.go`) | none of its own; status of each JobFlow, the Jobs it has created | `Reconcile`, `deployJobFlow`, `prepareJob`, `findJobTemplateByNameNamespace`, `updateJobFlowStatus`, `getAllJobStatus`, two Job handlers |
| DaemonJob controller (`daemonjob_controller.go`) | none of its own; status of each DaemonJob, the Jobs it has created | `Reconcile`, `deployDaemonJob`, `isJumpOverNode`, `prepareJobFromDaemonJob`, `updateJobFlowStatus`, `getAllJobStatusFromDaemonJob`, two Job handlers |
| JobTemplate controller (`jobflow_template_controller.go`) | `status.dependencyList` of each JobTemplate | `Reconcile`, `updateJobTemplateStatus`, three Job handlers |
| Watches and queues (`main.go`, controller-runtime) | informer caches, work queues | For(...) on the custom resource, Watches(...) on Jobs |
| API types (`pkg/apis`) | the fields of the custom resources | deep copies |
| Helpers (`pkg/common`, `pkg/k8sconfig`) | none | the annotation of a Job made from a JobTemplate, the working directory, the kubeconfig |
| Generated clients (`pkg/client`) | the factory's informers and which of them are started, the informers' stores | the REST methods of a typed client; `InformerFor`, `ForResource`, `Start`, `WaitForCacheSync`; the lister. For programs that use the custom resources: the operator does not call them |
| Around it | Jobs, pods, nodes, custom resources | the API server, the Job controller, the garbage collector, users |

**How they interact.** Through the API server only. A Job carries an owner reference with the name
and uid of its JobFlow or DaemonJob. When a cached Job changes or disappears, the handlers put its
owner into the queue of the controller of that kind; when one appears, only the JobTemplate
controller is told. Every read of a controller (`Get`, `List`) is answered by an informer cache that
lags behind the API server, and different caches lag independently; every write goes to the API
server. The status write carries the resourceVersion of the copy read at the start of the call and
is refused when the object has changed since.

**What is hard.** Deliveries, pods, users and the collector act between any two reads or writes of
a call. A cache may show a Job that is gone or not show one that is there. A call can fail at any
read or write, before or after a write took effect, and is retried from the start; the process can
stop at any point. A Job may be deleted after it completed (by its ttl), an object may be edited,
deleted, or deleted and created again under the same name during a call. An event that is missed or
that wakes nobody may leave an object behind for ever. Rendering a Job writes into slices of the
object that was read, whose memory would be the cache's but for a deep copy. Goroutines share one
informer factory, and users of the typed client overwrite each other's copies.

**What makes it correct.** JobFlow: a job is created only when every job it depends on has
succeeded; Succeed and Failed are said only when they are true; Failed is final; every JobFlow comes
to a verdict; no job outlives its object. DaemonJob: the same for its verdicts, and one job per node
that is not excluded. JobTemplate: the dependency list names the Jobs made from the template, and no
others. Rendering: a Job is what the specs say, and neither the caches nor the stored specs change
by it. Clients: one informer per type, whose lister ends up showing what the API server has; no
update lost.

## 2. The modules

| Module | What it models |
|---|---|
| `JobState` | how a list of Job statuses becomes `status.state`; the two controllers hold this code twice. No variables. |
| `Cluster` | what a controller runs against: the API server, the caches, the queue and the worker of controller-runtime, the Job controller, the collector, the users. `FailedIsFinal`, `NoOrphans`. |
| `JobFlow` | extends `Cluster`: one call of the JobFlow `Reconcile`, read by read and write by write. |
| `DaemonJob` | extends `Cluster`: the same for the DaemonJob controller. |
| `FlowOrder` | what a JobFlow promises, with nothing of the operator in it: jobs start after those they need, may vanish and start again, and a verdict is drawn. |
| `JobFlowRefinement` | extends `JobFlow`: the refinement mapping to `FlowOrder`, `ImplementsFlowOrder`. |
| `JobTemplate` | the JobTemplate controller: the annotation, the three handlers, the list and its status update, with caches, queue, failures and restarts of its own. |
| `DeepCopy` | the custom resources as Go values with references, and every generated `DeepCopyInto`. No variables. |
| `Rendering` | extends `DeepCopy`: `prepareJob` and `prepareJobFromDaemonJob` as writes into memory, for calls of both controllers over one set of informer caches. |
| `TypedClient` | the methods of the typed client as requests, the API server that answers them, and users who read, change and send back. |
| `SharedInformers` | extends `TypedClient`: the informer factory with its mutex, the informer with its reflector, the lister. |
| `MCJobFlow`, `MCDaemonJob`, `MCJobTemplate`, `MCRendering`, `MCSharedInformers` | small instances for TLC; the `.cfg` files choose among them. |
| `ClusterProofs` | lemmas on the steps of `Cluster`, used for both controllers. |
| `TypedClientProofs` | lemmas on the requests of the typed client, for whatever is composed with it. |
| `JobFlowProofs`, `DaemonJobProofs`, `JobTemplateProofs`, `RenderingProofs`, `SharedInformersProofs` | the theorems about the module of that name. |
| `JobFlowRefinementProofs` | extends `JobFlowProofs`: `JobFlow` implements `FlowOrder`. |

### State and the code

`jobs[k]` is the Job with the namespaced name `k` at the API server, with its owner, the uid in its
owner reference and the three counters the code reads. `watch[k]` holds the versions of it that the
cache has not seen yet, oldest first; `jobCache[k]` the version the cache shows. `objects[o]` and
`objectCache[o]` are the custom resource at the API server and in the cache. `queue`, `req` and
`object` are the queue, the request the worker holds and the copy it has read (`jobFlow` in
`Reconcile`). `reported` is history and no code: the counters that have been shown at 1 by the API
server, which is what the properties compare verdicts with. `budget` bounds the disturbances.

`pc`, `idx`, `depIdx`, `flag` of `JobFlow` are the place in `Reconcile` and `deployJobFlow`, the
index of the two loops and the variable `flag`; `status` is the status computed but not yet written.
`rest`, `node`, `list` of `DaemonJob` are the nodes the loop has left, the node it creates a job for
and the list of job statuses.

`JobTemplate` has the same layout, smaller: a Job is its annotation, kept as the parts between the
dots, which is both what `GetConnectionOfJobAndJobTemplate` joins and what `strings.Split` returns.
`found` is `filterJobList`; `linked` is history, the template each Job was made from.

In `DeepCopy` a slice, a map or a pointer is a pair of a place and the value kept there. There are
two places, the informer cache and the call, for what matters is which of the two a write reaches.
In `Rendering`, `cache` is the memory of the informer cache and `shown` what the watch delivered:
they differ as soon as somebody writes through a shared slice. `call[c].object` is `jobFlow` or
`daemonJob`, `asked` the spec the user wrote last.

In `TypedClient` a spec or status names the request that made it, so that a mixture of two is seen.
`held[u]` is the copy a user has. In `SharedInformers`, `lock`, `informer` and `started` are the
fields `lock`, `informers` and `startedInformers` of the factory (its maps have one entry at the
most, since the clientset has one group); `store` is the indexer, `queue` what the reflector has
received and the informer has not stored; `ranAt` is history, the revision when it was run.

### Actions and the code

| `JobFlow` | Code |
|---|---|
| `GetJobFlow` | the `Get` and the two early returns of `Reconcile` |
| `PrepareJob` | `prepareJob`: the lookup of the JobTemplate, BadRequest when it is missing |
| `GetJob` | the `Get` of the entry's job: skip, create, or look at the dependencies |
| `GetDependency`, `LookAt` | one turn of the loop over the dependencies |
| `CreateJob` | both `Create` calls with their AlreadyExists (`continue` or `break`) |
| `ListJobs`, `UpdateStatus` | `updateJobFlowStatus`, and how `Reconcile` ends |
| `ApiError`, `CreateBadRequest`, `LostAnswer` | every `return err`, and an error after the write took effect |
| `Crash` | the process stops anywhere and starts with new caches |

`DaemonJob` has `GetDaemonJob`, `ListNodes`, `GetJob` (which looks up a job named after the
DaemonJob, as the code does), `CreateJob`, `ListJobs` and `UpdateStatus`. The second `List` of nodes,
between the list of jobs and the write, is part of `UpdateStatus`: nodes may change between
`ListJobs` and it.

| Other modules | Code |
|---|---|
| `JobTemplate`: `GetJobTemplate`, `ListJobs`, `UpdateStatus` | the three calls of `Reconcile` and `updateJobTemplateStatus`, with the return when no Job uses the template |
| `JobTemplate`: `JobCreateTemplateHandler` and the two others | the handlers: the request is the first two parts of the annotation |
| `Rendering`: `GetJobFlow`, `PrepareJob`, `NoJobTemplate` | the reads of a JobFlow and a JobTemplate as deep copies, one rendering, a template that is missing |
| `Rendering`: `GetDaemonJob`, `PrepareJobFromDaemonJob` | the same for a DaemonJob and one node |
| `Rendering`: `Create`, `NothingLeft`, `Abandon`, `UpdateStatus` | the loops go on or are left, an error ends the call, the status update sends the whole object |
| `SharedInformers`: `Lock`, `LookUp`, `Insert`, `Check`, `Run`, `Collect`, `Wait` | `InformerFor` and `ForResource`, `Start`, `WaitForCacheSync`, from the lock on |
| `SharedInformers`: `ListAndWatch`, `Process`, `Break`, `Stop` | the reflector with the informer's `ListFunc` and `WatchFunc`, a broken watch, `stopCh` |
| `TypedClient`: `GetObject`, `CreateObject`, `Update`, `UpdateStatus`, `Patch`, `DeleteObject`, `DeleteAll` | the methods of `jobFlows` |

In `Cluster`, `OnUpdateJob`, `OnDeleteJob` and `OnObject` are the handlers; `OnCreateJob` is the
absence of one. `Put` makes a version of a Job, `Observe` delivers the oldest. `Store` gives an
object a new resourceVersion; `NewToken` picks one that no copy of the object has, so that three
tokens are enough to tell whether a copy is current.

### The refinement

`ImplementsFlowOrder` looks at one JobFlow, `Promised`, whose spec stays as it is. A job of the flow
is present when it is at the API server, done or broken when the API server has shown its counter
succeeded or failed at 1, and the verdict is Succeed or Failed when the status says so and Open
otherwise. A create must then come after everything its entry needs is done, a verdict must be true
when it is written, and Failed must stay; everything else the controller does is a step `FlowOrder`
does not see.

### Abstractions

- Names are sequences of tokens and gluing with "-" is concatenation: different pairs of names can
  mean the same Job, as in the code. Namespace and name of an owner are constants.
- In `Cluster` a Job is owner, uid and counters; backoffLimit 0 and restartPolicy Never (forced by
  `prepareJob`) decide how the pods behave. In `JobTemplate` it is its annotation, in `Rendering` its
  volumes, containers, labels, annotations and node. Events and logging are left out.
- Versions of a custom resource between the cached one and the present one may be skipped by its
  cache: each would enqueue the same name. Versions of a Job are never skipped, except by `Relist`.
- An informer cache delivers the versions of one Job in order; those of different Jobs in any order.
- The clock is left out: the sleeps and the delays of retries are just time that passes.
- `splitString` is the set it returns; `JobTemplates` and nodes are caches that are there or not.
- `Rendering` leaves out which Jobs exist: after each rendering the loop goes on or is left, as
  `JobFlow` and `DaemonJob` say in detail. A Job is not decoded again from the API server.
- `append` on a slice that is full makes a new one. The slices of a deep copy, and those decoded from
  an empty or absent field, are full; one decoded with spare room is not told apart.
- ObjectMeta is left out of the deep copies: its copy is that of Kubernetes.
- `DeleteAll` is one step, although the API server deletes one object after the other.
- The factory has no resync: it repeats events and changes no store.
- `OwnedList` maps each kept Job to its status, as `status.jobStatusList` does.

## 3. The runs

| Run | Cluster | What it shows |
|---|---|---|
| `jobflow_join` | `c` after `a` and `b`, listed as `a`, `c`, `b`; or `b` and `c` after `a`; lag 3 | types, order, dependencies complete, true verdicts, the status is the one the jobs give, no entry left behind |
| `jobflow_failures` | chain `a`, `b` (from a JobTemplate), and an edit that turns it round; lag 2; any one of seven disturbances | order, true verdicts and final failures under each of them at every point of a call |
| `jobflow_settle` | the chain; job deleted, API error, lost answer or restart | the status is the one the jobs give and no entry is left behind; under fairness every JobFlow gets a verdict and keeps it; all of it implements `FlowOrder` |
| `jobflow_deletion` | one entry; two of: deleted, deleted in the foreground, created again | no job outlives its object |
| `daemonjob_failures` | three nodes, one excluded; job deleted, API error, lost answer or restart | true verdicts, final failures, status never left behind |
| `daemonjob_changes` | one node; four of: deleted, deleted in the foreground, created again, edited, node leaves or returns | types, no job outlives its object |
| `jobtemplate_lists` | JobTemplates `a` and `a.b`, two jobs; one of: job deleted, template deleted or edited, API error, restart, broken watch | no job charged to the wrong template, lists current when all is quiet, and right in the end |
| `rendering` | three JobFlow specs, two JobTemplate specs, three DaemonJob specs, two nodes; four edits | copies share nothing with the cache, the cache and the stored specs stay, each job is what its specs say |
| `informers` | two goroutines, two users, an object in the namespace and one outside; three revisions, one break or stop | one informer, run once; a synced cache is complete; the lister keeps to its filter and converges; no lost update; spec and status apart; every call returns |
| `jobflow_twins` (violated) | two JobFlows of one name in two namespaces | a JobFlow succeeds by the jobs of another |
| `jobflow_completions` (violated) | the chain, completions 2 | the next job starts after the first pod |
| `daemonjob_nodes` (violated) | three nodes, one excluded | nodes that never get a job |

The three violated runs are the findings of `PROJECT.json`: each property states what the README or
a comment on a type says, and the run shows that the code does otherwise.

Each property of a passing run has been seen to fail when the code is changed the way a plausible
mistake would change it. The changed definitions stand in the modules before the original ones and
are marked `mutant`.

### Bounds and why they are enough

- `MaxLag` bounds the versions of one Job that a cache has not seen. A Job goes through at most
  three versions before it is over (created, started, ended), so with 3 the cache may miss a whole
  life. `jobflow_join` has 3, `jobflow_failures` 2, the liveness runs 1: there it is the choice of
  when to deliver that matters.
- `MaxDisturbances` is 1, but 2 in `jobflow_deletion` (deleted, then created again) and 4 in
  `daemonjob_changes`: a DaemonJob is deleted, created again with the same or another exclusion, and
  meanwhile it is edited, or its node leaves and returns. Each may happen at
  every point of every interleaving; kinds are mixed freely within a run.
- `daemonjob_changes` identifies states by the VIEW `UpToTokens`. It leaves out the history
  `reported`, which no step reads; of the resourceVersions it keeps whether a copy has that of the
  stored object (if so the copies are alike, if not no step asks which one it has); of the status in a
  copy it keeps whether it is Failed, since that is all a call asks of it. Two states taken for one
  therefore allow the same steps and have the same jobs and orphans, so that `NoOrphans` cannot tell
  them apart, and four disturbances are affordable. With one disturbance and no view, the 199,995
  states have the 10,080 values of `UpToTokens` that the run with the view finds.
- `Completions` and `Parallelism` are 1, for which the comparisons with exactly 1 in the code are
  right; `jobflow_completions` shows what happens with 2.
- Two or three entries: the shortest flows with a chain, with a join, with a fork and with an entry
  before its dependency. Three nodes: one excluded and two that compete for the one job a call
  creates.
- `jobtemplate_lists` has lag 1 and one disturbance: two jobs and two templates give every overlap
  of two lists, and one of each failure falls at every point of a call.
- `rendering` has four edits: a spec of each kind, and a change or a deletion while a call holds the
  older object. The specs have containers with and without mounts and env of their own, entries
  inline and by reference, and parameters given, empty and left out, and a DaemonJob excludes no
  node, one or both, so that every branch of the two functions is taken, and a call renders several
  jobs into one object.
- `informers` has three revisions, so that two changes may race, of which a user may have read the
  first only. A read after the last revision is left out: nothing can be sent back. One goroutine
  goes through all three calls, the other asks for the informer by its resource and starts it. The
  factory is given its namespace twice, and the later one counts.
- Deadlock is not checked: the operator rests when everything is done. `StatusCurrent` and
  `NoneLeftBehind` say what must hold then.

### Fairness

`Worker` is weakly fair: the goroutine runs and no step of a call waits for another actor.
`Start(o)` is strongly fair for each object: the work queue is first in first out and a request in
it is taken sooner or later, but is not enabled while another call is under way. The deliveries
(`DeliverJob`, `OnObject`) are weakly fair: a watch that breaks is reestablished. `Pod` is weakly
fair: the Job controller starts pods and pods end. `CollectJob` and `Finalize` are weakly fair: the
collector runs. Users, errors and crashes are under no obligation and their number is bounded, so
a liveness property speaks of what follows the last of them.

`JobTemplate` has the same fairness for its worker, its queue and its deliveries. In
`SharedInformers` each goroutine (`Call`) is weakly fair: the mutex is held for a few steps only, and
the Go mutex hands itself to a waiter that starves. `ListAndWatch` and `Process` are weakly fair: the
reflector retries and the informer's goroutine runs. Users, breaks and `Stop` are under no
obligation.

### What the checks do not claim

- `NoneLeftBehind` speaks of when every job has ended. While one has not, an entry that could run
  may be without a job: a call that creates an entry with dependencies and finds that the job is
  there, which its cache did not show, leaves the loop (`helper.go:88-90`), and the event of a Job
  that appears wakes nobody. What ends that job wakes the JobFlow, so the entry starts late, not
  never. Nor does it speak of a JobFlow that is being deleted: one with a failed job shows
  Terminating and not Failed, and the entries after the one that depends on that job stay as they
  are.
- `StatusCurrent` and `Settles` are checked without `Relist`. With it (and lag 3) both fail: when
  the watch breaks before the cache has seen a Job at all and the Job ends meanwhile, the cache gets
  it as an Add event, for which no handler is registered, and nothing wakes the JobFlow. No document
  promises that a broken watch is survived, so this is a hazard and no finding.
- For DaemonJobs, `SucceedMeansEveryNode` and `StatusCurrent` are checked with nodes that stay. With
  `EditNode` both fail: the controller does not watch nodes, and counts nodes of a later moment than
  the jobs.
- `ListCurrent` and `ListConverges` speak of JobTemplates that have Jobs and no dot in their names.
  Without Jobs the code returns before the update and the list keeps its last names; with a dot the
  handlers wake another template. With lag 2 and two disturbances `ListCurrent` fails: a broken
  watch can turn the deletion of a Job and its creation from another template into one update, and
  the update handler looks only at the new annotation. An annotation without a dot makes the
  handlers panic; the operator writes none.
- With parallelism 2 two pods can fail together and make the counter 2, which no comparison with 1
  sees: the JobFlow stays Pending. A JobTemplate that is missing when its entry is reached is a
  BadRequest and is not retried, and no watch brings the JobFlow back when it appears. No property
  claims otherwise.
- `SpecAndStatusApart` and `NoLostUpdate` are for the most part the API server's doing, which splits
  a put by subresource and compares resourceVersions. What the repository adds is that `UpdateStatus`
  names the subresource and that both methods send the object with the resourceVersion it was read
  with; the two mutants leave these out.
- `DependenciesComplete` is checked where nothing is deleted. With deletions a call may go by a
  cached copy of a dependency that is gone or was made again, and the property fails.
- `SyncedMeansSeen` is about a `WaitForCacheSync` that had informers to wait for. One that is called
  before `Start` waits for none and returns at once.
- An entry that is removed from a spec leaves its job behind, and counts of jobs then no longer mean
  what the code takes them to mean; `jobflow_failures` edits the order and keeps the names.

## 4. The theorems

All of them are for any set of objects, specs, names, Job keys, any lag, any completions and
parallelism, any number of disturbances; those of `SharedInformers` for any goroutines, users and
sequences of calls; those of `Rendering` for any specs and nodes. The constants are assumed to be
what the modules' named assumptions say: names are strings or sequences of them, bounds are naturals,
every entry or node has its Job key, specs have the fields of the Go types with each reference into
the cache, a goroutine makes the calls of the factory and no others, the goroutines are finitely
many, and `None` is none of the values it is compared with.

| Theorem | States | Needs besides |
|---|---|---|
| `JobFlowProofs!TypeInvariant`, `DaemonJobProofs!TypeInvariant` | `[]TypeOK` | |
| `JobFlowProofs!FailedIsFinalHolds`, `DaemonJobProofs!FailedIsFinalHolds` | `FailedIsFinal` | |
| `JobFlowProofs!DependencyOrderHolds` | `DependencyOrder` | |
| `JobFlowProofs!VerdictSoundHolds` | `[]VerdictSound` | `OneJobEach`, `SameEntries`, `NamesDiffer` |
| `JobFlowProofs!StatusCurrentHolds` | `[]StatusCurrent` | `NamesDiffer`, no broken watch |
| `JobFlowProofs!NoneLeftBehindHolds` | `[]NoneLeftBehind` | `OwnNames`, `NothingMissed`, `Completions = 1`, `OneJobEach`, `SameEntries`, `NamesDiffer` |
| `JobFlowProofs!DependenciesCompleteHolds` | `DependenciesComplete` | `Completions = 1`, `NothingDeleted`, `OneJobEach` |
| `JobFlowRefinementProofs!FlowOrderImplemented` | `ImplementsFlowOrder` | `OnePlan`, `OwnJobs`, `NeverDeleted`, `OneJobEach`, `SameEntries`, `NamesDiffer` |
| `DaemonJobProofs!SucceedMeansEveryNodeHolds` | `[]SucceedMeansEveryNode` | `SameExclusions`, `NodesStay`, `NamesDiffer` |
| `DaemonJobProofs!StatusCurrentHolds` | `[]StatusCurrent` | `NamesDiffer`, no broken watch, nodes stay |
| `JobTemplateProofs!TypeInvariant`, `JobTemplateProofs!ListSoundHolds` | `[]TypeOK`, `[]ListSound` | |
| `JobTemplateProofs!ListCurrentHolds` | `[]ListCurrent` | no broken watch |
| `RenderingProofs!TypeInvariant`, `CopiesShareNothingHolds`, `CacheIntactHolds`, `SpecUntouchedHolds` | `[]` of each | |
| `RenderingProofs!RenderedRightHolds` | `[]RenderedRight` | `OwnAnnotations` of every spec |
| `SharedInformersProofs!TypeInvariant`, `OneInformerHolds`, `SpecAndStatusApartHolds`, `OnlySelectedHolds`, `SyncedMeansSeenHolds` | `[]` of each | |
| `SharedInformersProofs!NoLostUpdateHolds` | `NoLostUpdate` | |

### The hypotheses

They are where the code's own assumptions end, and each has a state of affairs beside it in which
the property is false of the code. The instances of the passing runs that check a property satisfy
the hypotheses of its theorem, but for `jobtemplate_lists`, which goes further: with lag 1 and one
disturbance `ListCurrent` survives a broken watch as well.

| Hypothesis | Says | Without it |
|---|---|---|
| `NamesDiffer` | no two objects of a kind share a name | jobs are matched by the owner's name alone: `jobflow_twins` |
| `OneJobEach` | no two entries of a spec share a name | one job stands for two entries, and completed jobs never number the entries |
| `SameEntries` | an edit keeps the names of the entries | the job of a removed entry is counted for one that has none |
| `SameExclusions`, `NodesStay` | an edit keeps the nodes that are left; nodes are finitely many and neither come nor go | the same for nodes: the code compares two numbers of different moments |
| no broken watch | `"relist"` is no disturbance | a Job that ends unseen reaches the cache as an Add, which wakes nobody |
| `OwnNames` | no entry of a JobFlow, and no dependency of one, names a job that another JobFlow makes | names are glued with "-", and the end of that job wakes the other JobFlow only |
| `NothingMissed` | no broken watch; the JobTemplates are there and stay; no Create is refused with BadRequest | a missing JobTemplate and a BadRequest end the loop, and `Reconcile` returns nil: nothing retries |
| `Completions = 1` | a Job asks for one pod | `NoneLeftBehind`: a dependency with one pod succeeded and the other failed ends the loop, but counts as completed, so that the JobFlow is not Failed. `DependenciesComplete`: `jobflow_completions` |
| `NothingDeleted` | nobody removes a Job or a JobFlow | a call whose cache lags sees a dependency succeed that was removed since and made again (lag 3 for the Job, 4 for the JobFlow) |
| `OnePlan`, `OwnJobs`, `NeverDeleted` | the flow looked at has one spec with entries that depend on each other only, its jobs are no other flow's, nobody deletes an object | `FlowOrder` says nothing of a plan that changes or of a flow that ends |
| `OwnAnnotations` | no global annotation has the key `createByJobTemplate` | the user's annotation replaces the one `prepareJob` sets (`helper.go:219-223`) |

`jobflow_failures` checks `VerdictSound` and keeps the names of the entries, as `SameEntries` asks.
The theorems hold with every disturbance the hypotheses do not name: with restarts, lost answers,
refused requests, deleted jobs and, where it is not excluded, broken watches.

### The arguments

**Types.** `TypeOK` of the controllers is inductive as it stands. It says where each index may point
at each place of a call, so its proof is the proof that the loops stay inside the spec that was read,
although the object may be edited meanwhile. `ClusterProofs` shows once, for both controllers, that
the steps of `Cluster` keep `ClusterTypeOK`; each controller adds one lemma per action. In
`JobTemplate` the update makes a sequence of what was found, which needs that only finitely many Jobs
are anywhere to be seen (`Active`).

**Failed is final.** The API server compares resourceVersions, not states, so `FailedIsFinal` is not
inductive. The strengthening is `Copies`: a cached object with the resourceVersion of the stored one
is the stored one; so is the copy of the call in progress; and no call works with a copy that was
Failed. `NewTokenFresh` gives that a write makes every older copy differ, `StoreCopies` that `Copies`
survives it, and `WriteStatusCopies` that a write which is accepted replaces a state that was not
Failed. Each other change of an object keeps its status (`ChangeIsEdit`) or ends it.

**Order.** `VersionsSound` says that every version of a Job which a call may read, now or after
further deliveries, shows a counter at 1 only if the API server has shown it. `DependenciesSeen` says
what `flag` vouches for: at dependency `depIdx` with the flag set, all dependencies before it have
been seen to succeed, and at the create all of them. The two together with `TypeOK` are inductive,
and every step that makes a Job appear is a create at that place, by a call that goes on or by one
whose answer is lost.

**True verdicts.** The code counts. `VersionsSound` also says that every Job has one of the keys its
owner makes Jobs at, so that a list of the owner's Jobs (`OwnedList`) has keys of entries only
(`OwnedListLists`). `EntryCount` shows that the hypotheses make the number of these keys the number of
entries, and a subset with as many elements as the finite whole is the whole: so Succeed says all.
`VerdictInv` carries this from the list to the write, through the status a call has computed but not
yet written, and through stored, cached and read copies. For DaemonJobs the number is that of the
nodes (`NodeCount`), read twice in a call.

**Status current.** `History` says what the cache has still to see: the versions waiting in a watch
follow each other from the cached one to the stored one, a Job appears with counters that say
nothing, and it keeps its owner until it is gone. So the one event that wakes nobody changes no
state, and every other wakes an owner whose state it can change (`Expected`). `Awaited` says that an
object whose status is not the expected one is in the queue, has a change on its way to the cache, or
is being worked on; `Fresh` that what a call is about to write is the expected state, or that the
object will be looked at again or the write refused. `Asleep` and `Awake` split the steps: each
leaves `Expected` of an object alone or puts the object into the queue. The same layout, with lists
of names for states, gives `ListCurrent`.

**None left behind.** A call leaves the loop early for two reasons: a dependency has failed, or the
Create of an entry with dependencies finds that the job is there. It passes an entry for two others:
the job is cached, or a dependency is incomplete. A reason that stayed true would be enough; what
has to be shown is that it stays true until the JobFlow is in the queue again. `Keeps` says so of
each fact about one Job: at hand (`AtHand`), with its end still to come (`Unsettled`), as new as it
was created (`Untouched`), not complete (`Incomplete`), failed in the cache (`FailedSeen`). A
version that replaces another in the cache calls its owner; the one event that calls nobody, the Job
that appears, falsifies none of the five (`DeliverKeeps`), since `History` says that it carries no
news; and what the API server does is on its way as a version that will (`Waking`, `PutKeeps`).
`Thorough` says where the call is: each entry before `idx` is `Covered`, a cleared flag means that a
dependency is incomplete, the job to be created is untouched, and past the loop the spec is
`Handled`. In `LeftInv` a call is excused when its JobFlow will be looked at again or has changed
since it was read, and a JobFlow no call works on is `LeftToOthers`. At rest no Job is `Unsettled`,
so a call that left the loop has met a failed job; pods count as in `Counted`, so that with one
completion a failed job is no completed one, the count stays below the number of entries, and
`StatusCurrent` makes the JobFlow Failed (`HaltedFailed`). `OwnNames` is what makes the owner of a
Job the JobFlow that waits for it (`CallsOwner`).

**Dependencies complete.** `DependencyOrder` speaks of what was shown, `DependenciesComplete` of what
is there. Two invariants lead from one to the other: every object is the first of its name, every
owner of a Job lives (`OwnersLive`), so that nothing is collected; and a Job of one pod that was shown
at succeeded 1 stays so (`StaysComplete`), since `Counted` leaves it no pod to start.

**The refinement.** `Seeable` says that a step changes one Job of the flow or what the flow shows,
and never both; each part is then a step of `FlowOrder`: a Job is made (`DependenciesSeen` gives what
it waits for), vanishes, or has a counter shown; or a verdict is written, which `VerdictInv` makes
true and `Copies` keeps from replacing Failed. All else stutters. The proof needs nothing that was
not proved before but `NoneDeleting`.

**Lists.** `Honest`: every version of a Job that can still be read, in the server, the cache or a
watch, carries the annotation of a template only if the Job was made from it. What a call has found
was linked, and the list with it.

**Rendering.** A value is typed by the place its references point at (`ContainerAt("call")`, ...), so
that "shares nothing" is a type: `IntactInv` says that the object of a call is a value of the call and
that the cache still shows what was delivered. The lemmas on `DeepCopy` show of each generated
function that it moves every reference, field by field; then every write of `prepareJob` reaches the
call alone. `RightInv` adds what is left of the object that was read: the entries still to render are
copies as they came, and the containers of a DaemonJob, written for each node, differ only in what
the next node sets again. A Job rendered from that is the Job the specs ask for.

**One informer.** `OneInformer` alone says nothing of a goroutine between its look into the map and
its insertion. `Mutex` says that only the holder of the lock is between its `Lock` and its return,
`FoundStill` that what the holder found there (no informer yet, or one not started) is still so,
`Shared` that nothing but the informer in the map was handed out, and `RunOnce` that an informer has
been run exactly when it is marked as started. Reflectors, users and disruptions touch none of it.

**The lister.** `Seen`: each message the informer has yet to store is `Truthful`, it shows only what
the options select and does not take away an object that was there when the informer was run and has
not changed since (`Settled`); the store is so, too, from the time it counts as synced. `Waited`
ties what a goroutine waits for to the informer it was handed (`Place`).

**No lost update.** The server compares resourceVersions, and the theorem is about contents.
`CopiesCurrent` closes the gap: a user's copy that has the version of the stored object is the
stored object, because every change takes a version nobody has and no copy is ahead of the server.
A put that is accepted then replaces what its sender holds (`PutChange`), and the answer makes the
copy current again (`AnswerInv`). `SpecAndStatusApart` is a conjunct of the same invariant.

### Only model-checked

- The liveness properties (`Settles`, `NoOrphans`, `ListConverges`, `ListerConverges`, `CallsReturn`):
  they need fairness and enabledness, which are beyond the prover.
- What the violated runs deny; for `DependenciesComplete` it is proved when the promise is kept.

In proofs, definitions with an `EXCEPT` inside an `EXCEPT` do not use `@` in the inner one: the
version of the proof manager at hand resolves it to the wrong value. `Rendering` writes through
`WithEntry` and `WithContainers` instead.

## 5. Not modelled

- Events and logs; the sleeps are time that passes.
- Both controllers in one behaviour. They share no object and no queue: a Job of a JobFlow has no
  owner of kind DaemonJob, and the handlers and lists of one skip the Jobs of the other. They would
  meet in a name that both give a Job.
- Several replicas: the manager has no leader election and the deployment one replica. A rollout may
  run two of them for a moment.
- `main` before and after `mgr.Start` (its two oddities, errors of building a controller that are
  overwritten and a send on a channel nobody reads, are hazards without a property), client
  configuration, deployment files. Of the latter the models assume that the status is a subresource
  and that the controllers have every permission they need, which the files do not grant in full.
  `deploy/rbac.yaml` lets the operator get and list Jobs but not watch them: a change of a Job would
  then reach the caches only when they are listed anew, which `StatusCurrent`, `NoneLeftBehind`,
  `Settles` and `ListCurrent` do not cover (they are checked without a broken watch, or with one at the most). The Helm chart
  (`helm/templates/rbac.yaml`) grants the watch. Neither file grants anything on `jobtemplates`: the
  cache of them could not be filled, on which the JobTemplate controller depends and every entry with
  a `jobTemplateRef`.
- The generated clients of DaemonJobs and JobTemplates: the same code with other names, and not
  reachable. The clientset and the factory have the JobFlow group only, and the informers of the
  other two call methods of it that do not exist. The making of REST clients, and the fake clients,
  which are test doubles.
- `spec.errorHandler`, which no code reads; only its deep copy is modelled.

## 6. The plan

1. Done: `JobState`, `Cluster`, `JobFlow`, `DaemonJob` and their runs, with types, `FailedIsFinal`
   and `DependencyOrder` proved.
2. Done: `JobTemplate`, `FlowOrder` and its refinement, `DeepCopy` and `Rendering`, `TypedClient` and
   `SharedInformers`, each with its run; `OneInformer`, `SpecAndStatusApart` and `NoLostUpdate` proved.
3. Done: every invariant and every action property of the runs, and the refinement (section 4). What
   is left to TLC is liveness.
