# eirini-controller in TLA+

Specifications, TLC configurations and TLAPS proofs for the controllers of this
repository. Source paths are relative to the repository's root.

## The system

One process (`cmd/main.go`) elects a leader and runs three controllers and two
admission webhooks against a Kubernetes API server. Each controller has one
worker that takes a key from a work queue and calls `Reconcile` for it. Reads go
to the informer caches behind `manager.GetClient()`, writes go to the API server.
An error puts the key back into the queue; events of the watched objects queue
their key.

| component | state it keeps | operations | how it interacts |
|---|---|---|---|
| LRP reconciler, `k8s/reconciler/lrp.go` | none besides caches and queue | `Reconcile`, `do`, `updateLRPStatus` | watches LRPs and their StatefulSets; calls Desirer or Updater |
| StatefulSet Desirer, `k8s/stset/desire.go` | none | create registry secret, create StatefulSet, set the secret's owner, clean up | calls the PDB Updater |
| StatefulSet Updater, `k8s/stset/update.go` | none | patch replicas and image | calls the PDB Updater |
| PDB Updater, `k8s/pdb/update.go` | none | create unless present, delete | called by both |
| metric decorator, `prometheus/desire.go` | a counter, a histogram | `Desire` | wraps the Desirer |
| Task reconciler, `k8s/reconciler/task.go` | a pending `RequeueAfter` per Task | `Reconcile`, `desireTask`, `updateTaskStatus`, `handleExpiredTask` | watches Tasks and their Jobs; calls Job Desirer and StatusGetter |
| Job Desirer, StatusGetter, `k8s/jobs` | none | create Job; conditions from Job and pod | called by the Task reconciler |
| PodCrash reconciler, predicate and crash event generator, `k8s/reconciler/pod_crash*.go`, `k8s/event` | an annotation on the pod, a counted Event | `Reconcile`, `Generate` | watches pods; reads StatefulSets and Events |
| webhooks, `k8s/webhook` | none | inject the instance index, reject edits of immutable fields | called by the API server for pods and LRPs |
| converters, `stset/lrp_to_statefulset_converter.go`, `jobs/task_to_job_converter.go`, with names, probes and registry configuration | none | pure functions | called by the Desirers, the Updaters and the webhooks |
| deep copies, `pkg/apis/eirini/v1/zz_generated.deepcopy.go` | none | copy an object | the caches hand out copies, reconcilers write into them |
| process, `cmd` | leader lease | start, stop | replaced by a standby replica |

What is hard here: caches that lag behind the process's own writes; a reconcile
that is several API calls, each of which may fail, or be applied while its reply
is lost; a process that dies between two of them and leaves no record; users and
the garbage collector who act in between; names that are reused; a timer that
lives only in memory. `PROJECT.json` lists each hazard with its line.

What makes each component correct:

* LRP: at rest the StatefulSet has the LRP's replicas and image and the LRP shows
  its readiness; it is not taken back to an older spec; its registry secret
  exists, and none is left over; the budget follows the number of instances; the
  controller comes to rest.
* Task: the command runs once; conditions are true of the Task's own Job and are
  never taken back; the Job stays until its outcome is in the Task, and is
  removed after the TTL; every outcome is reported.
* PodCrash: every crash is counted, no count is lost or made up, and a crash is
  counted again only where the caches or a failed call make that unavoidable.
* Webhooks, converters and names: an instance knows its number; nobody else's
  variables pose as the platform's; budgets and StatefulSets select their own
  pods and no others; an edit the webhook lets through leaves an LRP with one
  StatefulSet, the one it would get if it were created now; the API server takes
  the names.
* Deep copies: what a reconciler writes into the LRP or Task it was handed changes
  neither the informer's object nor the copy it compares with.

## Modules

| module | what it is |
|---|---|
| `Informer` | a cached version of an object and the versions on their way to it |
| `InformerProofs` | lemmas about the order in which versions arrive, for the proofs of the three controllers |
| `LrpLifecycle` | what the LRP controller promises: an LRP, its app, status and budget, without caches, queues or calls |
| `Lrp` | the LRP controller with Desirer, Updater, PDB Updater and metric, for one LRP key |
| `LrpProofs` | theorems about `Lrp`, and that it implements `LrpLifecycle` |
| `LrpSecretProofs` | the theorem about the registry secrets of `Lrp` |
| `MCLrp` | makes the images of an app symmetric, for TLC |
| `TaskLifecycle` | what the Task controller promises: Tasks, runs, outcomes and conditions, without caches, queues or calls |
| `Task` | the Task controller with Job Desirer and StatusGetter |
| `TaskProofs` | theorems about `Task`, and that it implements `TaskLifecycle` |
| `MCTask` | gives every Task a Job name of its own, for TLC |
| `CrashLedger` | what the PodCrash controller promises: Events that count crashes |
| `PodCrash` | the PodCrash controller with its predicate and the crash event generator |
| `PodCrashProofs` | theorems about `PodCrash` |
| `PodCrashLedgerProofs` | that it comes to rest annotated, implements `CrashLedger`, and counts a crash among its like |
| `MCPodCrash` | gives the pods of two LRPs the same index, for TLC |
| `Names` | names of objects, index of a pod's name, registry of an image's name |
| `Conversion` | the converters, the registry secret, the budget, the update, and the two webhooks |
| `Workload` | composes `Conversion`: from the users' objects past both webhooks to StatefulSets, Jobs, budgets and pods |
| `WorkloadProofs` | theorems about `Workload`: StatefulSets, budgets and pods that belong together |
| `WorkloadDataProofs` | theorems about what is in them: names, environments, edited StatefulSets |
| `DeepCopy` | what a copy of an LRP or a Task shares with the original, and what a write into it shows there |
| `MCWorkload` | two versions of an app with what users may edit, and two Tasks, for TLC |

The three controllers share one scheme. API server and informers are variables;
`queued` is the work queue, `pc` the API call the reconcile is at, `locals` its
local variables. Every API call of the code is one action, and everything the
code does up to its next API call is part of that action. A write is answered
with `ok`, is refused, or is applied and answered with an error (`lost`).
The three controllers share no objects: a StatefulSet of an LRP, a Job of a Task
and the annotations and Events of crashes are written by one of them each.

### Lrp

`lrp`, `sts`, `pdb` and `secrets` are the objects at the API server; an object
that does not exist has uid 0. `lrpCache`/`lrpWatch` and `stsCache`/`stsWatch`
are the informers; the queue has one key.

| action | code |
|---|---|
| `Dequeue`, `GetLrp`, `GetSts`, `ReadFails` | `Reconcile` and `do` up to the branch on the StatefulSet |
| `CreateSecret` | `createRegistryCredsSecretIfRequired` |
| `CreateSts` | `Convert` and `Create`, with `AlreadyExists` taken for success |
| `SetSecretOwner`, `DeleteSecret` | `setSecretOwner`, `cleanupAndError` |
| `DesirePdb`, `UpdatePdb` | `pdb.Updater.Update`, called by `Desire` and by `Update` |
| `PatchStatus` | `updateLRPStatus`: a merge patch of the difference to the cached LRP, whose answer replaces it |
| `SkipSts`, `PatchSts` | `stset.Updater.Update`: a patch of the difference to the cached StatefulSet |

A merge patch changes only the fields in which the cached object differs from
the wanted one; `PatchStatus` and `PatchedSts` say so. It carries neither uid nor
resource version, so it lands on whatever object has the name.

The environment delivers to the caches; creates, edits (only what the validation
webhook lets through) and deletes LRPs; collects orphans; makes pods ready; and
replaces the process. After `Restart` the caches are either current or lag like
those of the process before, and every object in them is queued.

History: `applied` is the version of the spec last written to the StatefulSet,
`made` counts creations and changes.

`ImplementsLifecycle` is the refinement of `LrpLifecycle`. What the specification
knows of LRPs and of apps (`versions`, `sightings`) are the copies that are stored,
cached, on their way or held by the worker; it is `troubled` once a call has failed;
the app is the StatefulSet, the budget the uid of the app whose pods it protects. A specification that knew only the newest version would promise more
than the code keeps: the worker may act on any copy it still holds.

### Task

The same for a set of Tasks with one worker and one queue. `timers` holds
the `RequeueAfter` results that are pending; `expired` holds the Tasks that
completed longer than the TTL ago, which is all that time matters here. `pods` is
what the pod informer shows of a Job's pod. `runs` and `ended` are history.
`CreateJob` differs from `CreateSts`: a Job that already exists is an error.

`ImplementsLifecycle` is the refinement of `TaskLifecycle`: a Task is its uid,
its conditions are the stored ones, and its Job is kept as long as a Job with
that uid as owner is stored.

### PodCrash

`pods` holds, by name, what a pod shows of its first container: whether it is
down, the termination it is down for, the last one before, and the annotation
with the time of the crash that was reported. `events` are the Events about LRPs;
`podEvents` is what the cached Events about a pod say, of which only "Killing" or
not matters. `owner` is how far the way from a pod over its StatefulSet to the
LRP goes. `clock` is the second of the last termination, the resolution of the
timestamps the code compares.

| action | code |
|---|---|
| `DeliverPod` | the informer with `SourceTypeUpdatePredicate`: updates of app pods queue, first and last versions do not |
| `GetPod`, `ListPodEvents` | `Generate`, `isStopped`; the latter looks at the last element of an unordered list |
| `GetSts` | `getOwner` of pod and StatefulSet, with a missing StatefulSet an error |
| `GetByInstanceAndReason` | a List with three `MatchingFields`, of which the last remains; exactly one hit is counted up |
| `UpdateEvent` | `updateEvent`, an optimistic update |
| `CreateEvent` | `createEvent` |
| `Annotate` | `setCrashTimestampOnPod`, whose error is only logged |

The kubelet ends and restarts containers; pods are replaced under their name;
Events expire; StatefulSets go before their pods. `crashed`, `reported` and
`forgotten` are history.

`ImplementsLedger` is the refinement of `CrashLedger`: the tally of an index and a
reason is the sum of the counts of its Events, expired ones included. It is written
as a cardinality: an Event with count `n` has the `Marks` 1 to `n`.

### Names, Conversion, Workload, DeepCopy

`Names` treats a string as a sequence of characters, with a decimal number and a
hash one character each; hashes of different strings differ. The lengths names are
cut to are constants, and so is `MaxIndex`, the greatest number a pod's name ends in.

`Conversion` has one operator per function of the converters. The order in which
Go walks the deprecated `Env` map is not defined: `MapToEnvVar` is the set of all
orders, and `Convert` the set of the results. `place` stands for organisation and
space, names and GUIDs, which the code only hands on. `Int32Limit` stands for 2^31.

In `Workload` a reconcile is one step, because its question is another one: do
names, selectors, environment, webhooks and updates fit together? `lrps` are the
users' specs, `reconciled` the LRPs looked at since their last edit; `stss`,
`pdbs`, `jobs`, `pods` are what becomes of them. `UserEdits` passes the validation
webhook, `PodStarts` the injecting one.

`DeepCopy` has two tables. `Fields` is the declaration of the types: the fields
that hold a slice, a map or a pointer, metadata included, each with the type of its
elements. `Copies` is the generated code: whether a `DeepCopyInto` allocates such a
field and assigns its elements ("new"), copies them in turn ("deep") or, by not
mentioning it, assigns the field and so shares its memory. The tables are
written down separately, one from the types, the other from
`zz_generated.deepcopy.go` (and, for metadata and variables, from how the copies of
Kubernetes' own types are used). `Shows` is the write the reconcilers make: the answer
of a status patch is decoded into the object that was patched, element by element into
slices, key by key into maps, and shows in the informer's object wherever the copy
still has its memory. `CacheUntouched` writes the answers a patch may get, that of the
LRP as it was edited, created with another environment, or of the other version,
into copies of LRPs that wait for a reconcile, and one Task with another
condition into the other.

### Mutated forms

Definitions marked `mutated form` (`StoredIfChanged`, `UpdatedPdbOffByOne`,
`PatchedByDifference`, `OverwrittenSts` in `Lrp`; `CompletedOnceStarted`, `ForgetTtl`, `OwnersOfAny`
in `Task`; `RetryOwner`, `NeverEmitted`, `EmittedOnce`, `AnyVersion` in `PodCrash`;
`SanitizedWithoutFallback`, `NameWithoutHash` in `Names`; `PlatformEnvsFirst`,
`SelectorWithoutVersion`, `EnvIsMutable`, `AppNameIsMutable`, `IndexBeforeUserEnv`
in `Conversion`; `SidecarsAssigned` in `DeepCopy`) are not used by the
specifications. Each is a plausible wrong version of the definition that follows
it; put in its place, it makes a property fail. `PROJECT.json` pairs them under
`mutants`.

## Runs

`tlc -config <run>.cfg <module>`; the module is `MCLrp` for `lrp_faults`, `Lrp` for
the other runs of that name, `MCTask`, `MCPodCrash` or `MCWorkload`.

| run | checks | shows |
|---|---|---|
| `lrp_faults` | `TypeOK`, `Converged`, `LastReconcileCurrent`, `RevsOrdered`, `PdbMatchesUndisturbed`, `RollbackOnlyAfterStatusFailure`, `ImplementsLifecycle` | an LRP, edited or created again, 1 and 2 instances, two images, three versions of the spec, a call that fails or loses its reply |
| `lrp_secret` | `SecretPresent`, `EventuallySettles` | private registry, LRP created twice, 0 and 2 instances, StatefulSet collected, invalid image, one refused call, one restart: the secret is there, and the controller comes to rest |
| `task_lifecycle` | `TypeOK`, `ImplementsLifecycle` | one Task, two failures or lost replies, two restarts, pod deleted |
| `task_reports` | `TtlKept`, `OutcomeReported`, `JobRemovedAfterTtl` | the TTL and liveness of the Task controller with two refused calls |
| `crash` | `TypeOK`, `AnnotatedAtRest`, `RecountOnlyByStaleRead`, `ImplementsLedger`, `CrashReported` | a pod and its successor, two terminations, one mishap, one error, lost reply or restart |
| `workload` | `IndexIsOrdinal`, `PlatformVarsWin`, `PdbSelectsOwnPods`, `UpdatedAsIfNew`, `OneStatefulSetPerLrp`, `NamesAccepted`, `CacheUntouched` | two versions of an app side by side, edited, scaled and rolled out, next to two Tasks |
| `lrp_pdb_fault` | `PdbMatches` **fails** | a budget missed once is missed for ever |
| `lrp_secret_leak` | `NoSecretLeak` **fails** | a second secret is forgotten on `AlreadyExists` |
| `lrp_secret_lost` | `SecretPresent` **fails** | a lost reply ends in a StatefulSet without its secret |
| `task_ttl_restart` | `TtlKept` **fails** | after a restart the TTL of a completed Task passes unnoticed: only a change, another restart or the periodic resync brings its Job to an end |
| `task_recreated` | `OutcomeIsItsOwn` **fails** | a re-created Task takes over the outcome of its predecessor's Job |
| `crash_wrong_lrp` | `CountedForItsLrp` **fails** | a crash is counted in the Event of another LRP with the same index and reason |

The six runs that fail are findings; `PROJECT.json` quotes the tests and docs
they contradict.

Variations of the same configurations:

* `PdbMatches` fails without any fault once there are two images and four
  versions (`Images = {"app", "app2"}`, `MaxRevs = 4`, `MaxFaults = 0`). With
  quick edits of the instances, 1, 2, 1, 2, and one of the image, the image is
  patched against an old StatefulSet and the budget of that moment is applied,
  while the stored replicas stay at 2 and so never call for another update.
  `PdbMatchesUndisturbed` therefore asks for a budget only while no call has
  failed and the image has stayed.
* `PdbMatches` fails without any fault for an LRP that is deleted and created again
  (`MaxLrps`, `MaxRevs` and `MaxSts` 2, `MaxFaults = 0`). `Desire` creates the new
  StatefulSet and finds the budget of the old one, `AlreadyExists` is taken for
  success (`k8s/pdb/update.go:63`), the collector then removes that budget with its
  owner, and nothing creates another. This is why `PdbMatchesUndisturbed` asks for
  one LRP under the key.
* `TtlKept` and `JobRemovedAfterTtl` also fail without a restart when the reply to the status
  patch is lost (`LostReplies = TRUE`): the retry sees a completed Task and arms
  no timer. `task_reports` therefore has refused calls only. In the code the periodic resync,
  by default about every 10 hours, then still looks at the Task, so what the model
  shows to be missed for ever is late by up to that much.
* `OutcomeReported` fails when the pod of a failed Job is deleted before it is
  read (`PodsVanish = TRUE`): every retry ends in an error.
* `OutcomeIsItsOwn` fails for two Tasks that share a Job name (two `Tasks`
  and one value of `JobName`): the second takes the first one's Job for its own, and
  removes it when its TTL has passed. `GetJobName` makes the name of app name, space
  name and `Spec.Name` only (`utils/names.go:53`), without a GUID or a hash. So two
  Tasks of one app and space whose `Spec.Name` is the same or empty share a Job, and
  so do Tasks whose names differ only behind the cut. This is what `JobNamesApart`
  excludes in the theorem `Implements`; the code relies on those who name Tasks.
* `CrashReported` stops at a restart: what the new process lists are Create
  events, which the predicate drops.
* `UpdatedAsIfNew` leaves out the images of sidecars and the registry in the pull
  secret. Both come from the image at creation and stay when the image is edited.
* The creations counter also counts a StatefulSet that was there already
  (`prometheus/desire.go`), because `Desire` takes `AlreadyExists` for success.
  `creations` models the counter; no property is about it.
* Two terminations within one second are one for the code, and for `crashed`.

### Bounds

`Max...` constants bound what the environment does, as guards of its actions;
nothing bounds the controllers. `MaxSts` and `MaxJobs` stop the garbage collector
after that many creations: without them the stale cached copy of a deleted object
could be created and collected again for ever. In `PodCrash`, `MaxMishaps` counts
pods and owners deleted, foreign Events and expired Events, and `MaxTroubles`
errors and restarts.

Versions of the spec matter through what is stored, cached and held by the
worker, so three versions are the first number at which all three differ. One and
two instances are the two sides of the budget's threshold; no instance at all is in
`lrp_secret`. Nothing but equality is asked of images, so `lrp_faults` takes them for
symmetric. A second LRP is what it takes for an object to outlive its owner. One failure or
restart at every possible place is what the error paths react to; the Task run
has two of each, because a retried Task takes other branches than a first
attempt. Two terminations and two pods of one name are the first numbers at which
an annotation or an Event may belong to another crash than the one at hand. The
second pod name, `crash_wrong_lrp`'s question, is left out of `crash`: pods share
only the worker and, by that finding, Events. The proofs do away with the bounds
for the properties they cover.

`workload` has two LRPs with the GUID of one app and different versions, sidecars,
variables and credentials. The first may be edited in its instances, in its image (also to
one that does not parse), in its name, which the webhook refuses, and may come with an
environment of its own. The two Tasks differ in name, credentials and command. It cuts names at 4 and 6 characters instead of 40 and 50, so that short
names are cut at every kind of character, and has `Int32Limit = 4`.

`CHECK_DEADLOCK FALSE` everywhere: a controller with nothing to do stops, and
users owe nothing.

`NamesReused = FALSE` in the passing Task runs: a name is used for one Task, as a
platform does that names its Tasks by GUID. `task_recreated` shows what happens
otherwise. The passing Task runs have one Task: with Job names of their own, which
is an assumption about those who name Tasks, they share nothing but the worker, and
the theorems hold for any number.

### Fairness

Weak fairness of the worker as a whole (`WF_vars(Controller)`): the worker
goroutine takes the next key and finishes what it started. At most one call is
pending at any moment, so the actions of the worker compete only in whether that
call fails, and faults are bounded. With several Tasks or pods this would not
promise each of them a turn; the liveness runs have one. Weak fairness of each
delivery: informers retry their watches. For Tasks also of the timers, of the
passing of time, and of the report of a terminated pod behind a failed Job. For
pods also of `ContainerLeavesTerminated`: the kubelet restarts containers, for
their pods have `restartPolicy: Always`. Users, Jobs, restarts, faults and the
garbage collector owe nothing.

`EventuallySettles` leaves out an LRP that never had a valid image: its
StatefulSet is rejected, and the controller retries for ever.

## Proofs

`tlapm <module>.tla`. The assumptions are those the modules name: the instances
asked for are natural numbers, the flags are Booleans, the bounds natural numbers,
a pod has an index and an LRP. Those of `Names` and `Workload` say what their
constants stand for: numbers print without a dash and different ones differently
(`DecimalsAssumption`); a spec has the fields the converter reads, an environment is
a finite map and a list of strings (`SpecsAssumption`, `EnvironmentAssumption`);
names are strings, and GUIDs are valid names, as those of Cloud Foundry are
(`NamesAssumption`); the hashes of the GUID and version of two LRPs differ unless these
are the same (`HashAssumption`). TLC evaluates all of them.

* `TypeCorrect`: `Spec => []TypeOK`. The lemma that is not routine is
  `FreshSecretNameExists`: among `Cardinality(secrets) + 2` names one is free, so
  the `CHOOSE` that stands for `GenerateName` finds one.
* `Convergence`: `Spec => []Converged`, from the inductive invariant
  `TypeOK /\ CachesFollow /\ LastReconcileCurrent`. `CachesFollow`: what is
  cached or on its way ends in what is stored. `Converged` speaks of the moment
  everything has stopped, so something must be known of the reconcile that
  happens to be the last one. `LastReconcileCurrent` says it: as long as nothing
  is queued or on its way (`Calm`), what the reconcile has read is what is
  stored, and it is past no write that changed anything, because such a write
  sends an event (`CalmStep`). At `patchSts` this includes that the LRP shows the
  readiness of the StatefulSet, unless an error was collected, and then the
  reconcile does not end without queueing its key. The budget is no part of it,
  since nobody watches it: `lrp_pdb_fault` fails.
* `LastReconcile`: `Spec => []LastReconcileCurrent`, the middle part of that
  invariant, by itself.
* `VersionsOrdered` and `NoSilentRollback`: `Spec => []RevsOrdered` and
  `Spec => RollbackOnlyAfterStatusFailure`. `TypeOK /\ RevsOrdered` is
  inductive: the stored LRP carries the newest version, no copy is newer, and behind
  a status patch that went well the worker holds no version older than the
  StatefulSet's. This is why stale LRP caches are harmless: the
  patch's answer replaces the cached copy before the StatefulSet is compared.
  When the patch fails, `do` goes on with the cached copy, and the StatefulSet
  may go back until the retry.
* `BudgetOfUndisturbed`: `Spec => []PdbMatchesUndisturbed`, from `Convergence` and
  the inductive `TypeOK /\ BudgetInv`. Nobody watches budgets, so what holds at rest
  must be kept all the way: outside the calls between the write of the StatefulSet and
  that of the budget, the budget is that of the StatefulSet's replicas
  (`BudgetFollows`). The conditions of the property enter at three places. Calls that
  fail and processes that are replaced end a reconcile between the two writes. With
  one image a patch always writes the replicas the worker then applies to the budget;
  with two it may write the image alone, against an old StatefulSet. And with one LRP
  every copy, stored, cached, on its way or held, is of this one LRP and its one
  StatefulSet (`AllCopies`), which nobody collects.
* `ImplementsTheLifecycle`: `Spec => ImplementsLifecycle`, from
  `TypeOK /\ RevsOrdered /\ Underway`. Two arguments. Nothing is made up: a step adds
  to the copies of LRPs and StatefulSets only what it stores (`CopiesKnown`,
  `KnownAfter`), so whatever the worker writes or applies to the budget is of a
  version the specification still knows (`HeldCopies`). And the app goes back to an
  older version only after an error or for an LRP that is gone: with `RevsOrdered`
  this needs a bad status patch, and by `Underway` a status patch goes bad without a
  failed call only when the LRP of the version the worker holds does not exist any
  more. Then each action is a step of `LrpLifecycle` or a stutter
  (`UserInLifecycle`, `ClusterInLifecycle`, one lemma for each call that writes).
* `SecretKept`: `~LostReplies => (Spec => []SecretPresent)`, from `SecretsTied`:
  a secret is in one of two hands, that of the reconcile that made it, which
  nobody else knows of, or that of the StatefulSet that names it, which is or will
  be its owner. So the collector never takes it while the StatefulSet is there, and
  `cleanupAndError` deletes none that a StatefulSet names. Without lost replies is
  the point: `ErrorsLeaveNothing` is where the assumption enters, and
  `lrp_secret_lost` shows that it is needed.
* `OneStatefulSet`: `Spec => []OneStatefulSetPerLrp` for all specs, names and
  lengths, from `Owned`: owners are LRPs that exist, StatefulSets bear the name
  computed from their owner's spec, and no two bear the same. It rests on three
  facts of different components: the webhook keeps the fields a name is made of
  (`lrpMutableFields`), the Updater leaves the name alone, and the API server
  keeps names apart. That an LRP never finds the StatefulSet of another GUID or
  version under its own name is the work of the hash at the name's end
  (`NameTellsProcess`, from `HashAssumption`): whatever app and space names are cut
  to, equal names end in equal hashes.
* `BudgetsSelectTheirPods`: `LrpsApart => (Spec => []PdbSelectsOwnPods)`, from
  `Owned /\ BudgetsFit`. `BudgetsFit`: a budget carries name and selector of a
  StatefulSet that is there, the template of a StatefulSet carries the labels of its
  LRP, and a pod either bears those labels, unchanged by the injecting webhook, or is
  a Task's. `LrpsApart` says that no two LRPs have the same GUID and version or the
  same StatefulSet name. The code relies on it without checking it: with the same GUID
  and version two LRPs get the same selector, and with the same name `AlreadyExists`
  hides the second StatefulSet.
* `NamesAreAccepted`: `Spec => []NamesAccepted`, for names and cuts of any length.
  What `sanitizeName` cuts is valid, so what it leaves is a valid start (`ValidStart`),
  and a valid start is a valid name but for its last character. Behind a dash the
  converter of LRPs appends a hash, which is why only a dot remains an exception
  there; the one of Tasks appends nothing.
* `InstancesKnowTheirIndex` and `PlatformVariablesWin`: `Spec => []IndexIsOrdinal`
  and `Spec => []PlatformVarsWin`, from `Owned /\ EnvironmentsCarried`: the first
  container of every StatefulSet is the app's, its environment ends in the platform's
  variables, and that of a pod that was started ends in its index as well. Lemmas
  follow the lists through `Convert`, the update of the image and the webhook
  (`EnvsOfLrp`, `ReimagedAppFirst`, `IndexInjected`); `IndexParsed` says that what
  stands behind the last dash of a pod's name is its ordinal, and `LastValue` that the
  kubelet takes the last of several values.
* `UpdatesMissNothing`: `LrpsApart => (Spec => []UpdatedAsIfNew)`, from
  `Owned /\ KeptAsNew`: a StatefulSet is what `Convert` makes of its LRP now, but for
  replicas, images and the pull secret of a private registry (`AsFresh`), and once
  reconciled it has the replicas and the image of the app too (`UpToDate`). An edit
  the webhook admits keeps the first (`EditKeepsFresh`), an update brings the second
  (`UpdatedIsFresh`): the two lists of mutable fields, in the webhook and in the
  Updater, fit together. `LrpsApart` is needed because the Updater finds a StatefulSet
  by its name.
* `TaskProofs!TypeCorrect`: the same for `Task`, from `TypeOK /\ Held`: while the
  worker is at a call it has a key, and past `GetTask` it has a Task.
* `Implements`: `JobNamesApart /\ ~NamesReused => (Spec => ImplementsLifecycle)`,
  for any number of Tasks, failures, lost replies and restarts. The invariant has
  three layers. `Identified`: a name stands for one Task, so every copy of the Task
  and of the Job under its name, stored, cached, on its way or in the worker's
  hands, is that Task's; this is all the two assumptions are used for.
  `TasksOrdered`: copies come in the order in which their conditions grew
  (`InOrder`, over the cache, the watch and the stored object). `Faithful`: every
  copy of the Job, and the one the worker holds, tells the truth and no less than
  the stored Task tells already (`Backed`), so patching what any of them says takes
  nothing back although the patch replaces the whole list; and a Task that has run
  either still has its Job, or every copy of the Task says it is completed
  (`Removed`), which is what keeps a stale worker from running it again. It is
  inductive only for Tasks that exist: a deleted Task may be run once more by a
  worker with a stale copy, and `TaskLifecycle!Run` admits that. Then each step that
  writes is one of six (`Steps`), and each of them is a step of `TaskLifecycle` or a
  stutter.
* `TtlIsKept`: `~LostReplies => (Spec => [](restarts = 0 => TtlKept))`, for any
  number of Tasks, refused calls, stale copies, vanished pods, shared Job names and
  names that are taken again. The invariant is `TtlInv`. `Timed`: a completed Task
  whose TTL has not passed has its timer. This holds because a status patch that
  completes a Task is made only for a copy that was not completed (`Unfinished`) and,
  without lost replies, either is not applied or ends the reconcile with the timer.
  `OnItsWay`: once the TTL has passed and the Job of the Task is still there, the Task
  is in the queue, in the timer, in the worker's hands before `DeleteJob`, or will be
  queued by an event. It is not enough that the worker holds the Task: a
  stale copy could send it elsewhere. But as long as nothing is on its way, the cached
  Task is the stored one (`Follows`), which is completed, so `GetTask` leads to
  `DeleteJob`, whose failure queues the Task again. An event of the Job queues the Task
  only because the Job's owner, a uid, and its key belong together (`UidsNamed`): a
  uid is given to one name, wherever it is seen. Both limits are needed: after a
  restart (`task_ttl_restart`), or when the reply of the patch is lost (see the
  variations), no timer is set again.
* `PodCrashProofs!TypeCorrect`: the same for `PodCrash`, from `TypeOK /\ Held`:
  past `GetPod` the worker holds an app pod that exists, and past `Generate` the
  newest termination of that copy, not shown there as reported.
* `RecountNeedsStaleRead`: `Spec => RecountOnlyByStaleRead`, from
  `IInv == TypeOK /\ Held /\ PodsOrdered /\ ReportedShown /\ Annotated`. Copies of a
  pod come in the order of uid and newest termination (`PodsOrdered`), and what the
  worker holds is no newer than any copy still to come. Hence every copy it may yet
  read of a pod shows a reported crash or a later one (`ReportedShown`), and no old
  copy brings back an earlier crash. As long as no call has failed and no process
  was replaced, the stored annotation is not behind what was reported, but for the
  crash the worker is about to annotate (`Annotated`). So a crash can be reported
  again only by a worker whose copy lacks an annotation that is stored.
* `ReportedHappened`: `Spec => [](reported \subseteq crashed)`, from `Happened`: the
  newest termination of every copy of a pod, stored, cached, on its way or held, is
  a crash that pod had.
* `RestsAnnotated`: `Spec => []AnnotatedAtRest`, from `Chained` and
  `LastReportCurrent`: as long as no call has failed and no process was replaced, an
  app's pod whose newest termination is not shown as reported has an event on its way
  or in the queue (`Awaited`), or the worker goes on with its stored version (`Seen`).
  The predicate, which drops first and last versions, is no gap: along the cache and
  what is on its way, a version that follows none has not crashed yet (`Beginning`,
  `Linked`).
* `ImplementsTheLedger`: `Spec => ImplementsLedger`, the refinement of `CrashLedger`,
  with any number of failures, lost replies and restarts. `EventsApart`: no two Events
  there have been are one, and the Event the worker is about to count up is about the
  crash it has read; with `Happened` this makes every write of an Event a
  `CrashLedger!Count` of a crash that happened (`TallyCounted`), and `LedgerSteps` shows
  that every other step leaves the tally alone or is a crash. That the update is
  optimistic is what keeps an old copy of an Event from taking a count back.
* `CountedAmongItsLike`: `Spec => []CountedAlike`, without any assumption on pods, LRPs
  and indices. A crash that is taken for reported is counted in an Event with its index
  and reason; and every Event is about a crash that happened (`EventsBegun`), so the
  Event is another LRP's only when an instance of that LRP with this index has
  crashed for this reason. `crash_wrong_lrp` shows that this does happen: this
  theorem says how far it goes, through failures, lost replies, restarts, old copies
  and Events that expire.

Every safety property of the passing runs is stated by a theorem, but for
`CacheUntouched`, whose write follows the structure of an object by recursion; `TtlKept`
has the two limits of its theorem. `OutcomeIsItsOwn` and
`CountedForItsLrp` are refuted by their runs, and no theorem restates them under an
assumption that leaves out what goes wrong. Liveness
(`EventuallySettles`, `OutcomeReported`, `JobRemovedAfterTtl`, `CrashReported`) is only
model-checked, for the prover has no rules for fairness.

## Not modelled

* The periodic resync of the caches, by default about every 10 hours, which in time
  looks at an expired Task again (`task_ttl_restart`), and the delays between retries.
* Writes of an old leader that arrive after its successor has started; a
  successor whose caches are older than its predecessor's.
* Clock skew and the one-second resolution of timestamps in `taskHasExpired`; the
  timer of the model never fires early.
* Pods of a Job that outlive it; foreground deletion and finalizers; deletion of
  Jobs, StatefulSets and budgets by users.
* In the runs, Tasks that share a Job name: see the variations above.
* Exit codes, restart counts and messages of crashes, which are only handed on.
* The duration histogram of the metric, logging, configuration files, flags,
  certificates, registration of types and webhooks, decoding of admission requests.
* The generated clientset, which the program does not call, the generated fakes of
  the tests, the Helm charts.

## Plan

Done, in this order: `Informer`, `Lrp` and its theorems; `TaskLifecycle`, `Task`
and its theorems; `CrashLedger`, `PodCrash` and its theorems; `Names`, `Conversion`,
`Workload`, `DeepCopy` and the theorems about them; `LrpLifecycle` and that `Lrp`
implements it.

Left: runs of their own for the variations above that fail without a fault, the
budget of an LRP that is created again and Tasks that share a Job name.
