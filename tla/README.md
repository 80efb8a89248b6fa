# TLA+ models of stoppablecontainer

stoppablecontainer is a Kubernetes operator that lets a container be stopped
and started again without losing its root filesystem.  A user-facing
*StoppableContainer* (the Workload) is projected onto one
*StoppableContainerInstance* (the Instance); the Instance owns a long-lived
*provider pod*, which holds the root filesystem and exposes it through a
hostPath directory, and a *consumer pod*, which chroots into that directory,
runs the user's command, and is deleted on stop and re-created on start.  A
privileged *mount-helper* DaemonSet performs the overlay mount on behalf of
the provider pod; the two talk through files in the hostPath directory.

This directory holds TLA+ models of the parts of that system whose
correctness depends on the order in which several actors take their steps,
the TLC configurations that check them, and `PROJECT.json`, which lists the
components, the runs, the seeded faults, the source lines every definition
models, the findings and the hazards.

## 1. Inventory

| Component | Source | State it keeps | Operations | Talks to |
|---|---|---|---|---|
| Instance controller | `src/cmd/kubectl-sc/main.go` 975-1308 | nothing of its own; the Instance's finalizer and `status` in the API server | `Reconcile`, `handleDeletion`, `createProviderPod`, `createConsumerPod`, `updatePhase`, `isPodReady`, `isPodFailed`, `SetupWithManager` | API server (through the cached client), work queue, pod builders |
| Workload controller | `src/unnamed/part_006` 39-352 | the Workload's finalizer and `status` | `Reconcile`, `handleDeletion`, `createInstance`, `updateStatusFromInstance`, `updateStatusStopped`, `SetupWithManager` | API server, Instance controller (through the Instance object) |
| Pod builders | `src/internal/provider/provider_pod.go`, `consumer_pod.go`, `src/unnamed/part_007`, `GetHostPath` in `part_006` 398-404 | none (pure) | `ProviderPodBuilder.Build`, `ConsumerPodBuilder.Build`, `GetHostPath` | called by the Instance controller |
| Provider driver (`sc-provider`) | `src/cmd/provider/main.go` | attempt counter, `lastError`; files `request.json`, `ready` in the work directory | `main`: write request, poll `ready.json`, verify rootfs, retry up to three times, write the `ready` marker, wait for a signal | mount-helper (through files), kubelet (readiness probe on `ready`, liveness probe on `rootfs`) |
| Mount agent (`mount-helper`) | `src/cmd/mount-helper/main.go` | none between passes; the mounts it made and `ready.json` | `main`, `scanAndProcessRequests`, `processRequest`, `findRootfsContainer`, `getOverlayfsOptions`, `adjustPathsForHost`, `mountOverlay`, `mountProcDevSys`, `writeResponse` | provider driver (files), `/proc`, the kernel's mount table |
| Consumer entrypoint and exec wrapper (`sc-exec`) | `src/unnamed/part_003`; the script of `buildEntrypointScript` with the command of `buildUserCommand`, `consumer_pod.go` 156-267 | none | `handleEntrypoint` (wait for the rootfs, chroot, exec), `handleReadinessProbe`, `handleInit`, the wrapper mode of `main` | the mounted rootfs, the kubelet (restarts), the two shells that read the user's command |
| `pause` (`sc-pause`) | `src/cmd/pause/main.go` | none | blocks until SIGTERM or SIGINT; it is the process of the rootfs container | mount agent (which finds it in `/proc`) |
| `kubectl-sc` CLI | `src/cmd/kubectl-sc/main.go` 1-933 | none | one API call per sub-command | API server |
| API types | `src/api/v1alpha1/stoppablecontainer_types.go`, `src/unnamed/part_000`, `part_001` | - | schema only | - |
| Tests, docs, scripts | `*_test.go`, `src/unnamed/part_004`, `part_005`, `part_013`, `src/docs*`, `src/hack` | - | - | - |

What makes the system hard:

* **Two reconcilers and many writers share objects.**  The Instance is
  written by the Workload controller (`spec.running`, Delete), by the
  Instance controller (finalizer, `status`) and by users; pods are written by
  the Instance controller, the scheduler, the kubelet, the garbage collector
  and whoever evicts them.  Every write of a controller is an optimistic
  update of the copy it read earlier.
* **Reads are stale.**  The controllers read through the manager's cached
  client.  A Get may return an object as it was several writes ago, or
  NotFound for an object the same controller created in its previous pass.
* **A Reconcile is not atomic.**  Most branches make two API calls - create
  or delete a pod, then write the phase - and either may fail alone.
* **Progress is event-driven.**  In phases Running, Stopped and Failed the
  controller does not re-reconcile on a timer; it relies on the pod watch.
* **The rendezvous is a protocol over files** with retries, timeouts, a
  polling agent, and processes that crash and restart with the files of their
  previous life still in place.
* **The user's command is text on its way to a process.**  It is quoted
  once for the shell of the root filesystem and put between the double
  quotes of the entrypoint's shell, and is right only if both read it back
  as it was written.

## 2. Plan

Modules, most important first.

| # | Module | Status |
|---|---|---|
| 1 | `InstanceController` - the Instance reconciler against the API server, an informer cache that lags, the work queue, the kubelet, the garbage collector and an arbitrary owner | done, section 3 |
| 2 | `Rendezvous` - the provider driver, the mount agent and the consumer's entrypoint over the work directory of one Instance | done, section 4 |
| 3 | `WorkloadController` - the Workload reconciler against the API server, the `kubectl-sc` commands and an Instance whose phase moves on its own | done, section 5 |
| 4 | `InstanceContract` - the Instance object as the interface of the two controllers: what its owner may do to it and what the Instance controller may do to it, as an abstract specification that both controllers implement, each checked against an environment that is the other side of the contract | done, section 6 |
| 5 | The conversions of the mount agent (`findRootfsContainer`, `getOverlayfsOptions`, `adjustPathsForHost`, `mountOverlay`) and the volume names of the consumer pod builder, as operators on sequences inside the modules that call them | done, sections 3 and 4 |
| 6 | Liveness of the Workload controller: deletion completes, and the status converges to the projection of the Instance, under the fairness that `InstanceController` is shown to provide | done, section 5 |
| 7 | The user's command from the template to the process: `buildUserCommand`, the last line of `buildEntrypointScript` and the two shells that read it, as operators on sequences of characters inside `Rendezvous` | done, section 4 |
| 8 | `waitForPhase` of `kubectl-sc` against a status written for an earlier generation | not modelled: measured and left out, section 8 |
| 9 | The mounts of the init containers of the consumer pod (`buildInitContainers`) in the admission of the pod; the script driver in the safety run of `Rendezvous` | done, sections 3 and 4 |
| 10 | The restarts of the driver as the pod specification gives them: RestartPolicyAlways after every exit, the liveness probe while `rootfs/` does not exist, without a bound; the error arm of the driver's write; `ProviderServes` | done, section 4 |

The largest run takes about two minutes with two workers.  The product of
the two controllers over one API server is out of reach of a standing run
(the safety configuration of `InstanceController` alone has 1.4 million
states), which is why the composition is argued through `InstanceContract`:
safety by refinement on both sides, liveness by taking what one side is
shown to guarantee as the fairness of the other.

## 3. Module `InstanceController`

### State

| Variable | Stands for |
|---|---|
| `sci` | the Instance in the API server, or `Absent`: `uid`, `finalizer`, `deleting` (DeletionTimestamp set), `running` (`spec.running`), `template` (the names of the volumes and of the volume mounts of `spec.template`), `phase`, `nodeName` (`status`) |
| `pods` | the provider and the consumer pod in the API server: `owner` (the UID in the owner reference), `status`, `node` (`spec.nodeName`), `deleting` |
| `sciCache`, `podCache` | what the cached client answers for them |
| `sciLag`, `podLag` | watch events that the informer has not delivered yet, oldest first |
| `queued` | the work queue holds a request for this Instance |
| `pc`, `mem` | a Reconcile is between its pod write and its `updatePhase`; the Instance it read and the phase it is about to write |

A pod's status is one of `NotReady`, `Ready`, `Failed`: exactly what
`isPodReady` and `isPodFailed` distinguish.  Status fields that no branch
reads (message, conditions, hostPath, pod names and UIDs) are left out.  One
Instance is modelled: requests for different Instances share nothing but the
worker pool, and the work queue never runs two Reconciles of one key
together.

### Actions

Every return of `Reconcile` is one action, named for the branch:

| Action | Code |
|---|---|
| `ReconcileGone` | `Get` NotFound (999), or deleting without our finalizer (1112) |
| `DeleteOwnedPod`, `RemoveFinalizer` | `handleDeletion` 1116-1152 |
| `AddFinalizer` | 1011-1017 |
| `CreateProviderPod` | 1050, `createProviderPod`; AlreadyExists requeues |
| `ProviderNotReady` | 1055-1058 |
| `StopConsumer`, `ReportStopped` | 1067-1078 |
| `CreateConsumerPod` | 1081-1088, `createConsumerPod`; a Create that the API server refuses (AlreadyExists, or a pod that is not valid) requeues |
| `ReportConsumer` | 1091-1106 |
| `UpdatePhaseStep` | the `updatePhase` that follows a pod Create or Delete |

A branch action reads the caches and makes the branch's first API write in
one step.  Nothing is lost by that: whatever could happen between the Get
and the write is what a cache that is behind already shows.  The second
write of a branch is a step of its own, so that the owner, the kubelet and
the informers interleave with it.

`Update` and `Status().Update` succeed only if the API server's copy equals
the object that was read (the resourceVersion check); a refused write
returns an error, which requeues.  An update that changes nothing produces
no watch event.  `Delete` of a pod is graceful when the pod has a node and
immediate otherwise.

The consumer pod is built with the names `buildVolumes` and
`buildVolumeMounts` give the volumes of the template: `sc-propagated`,
`sc-exec-wrapper`, and for every user volume `user-<name>` and
`user-<name>-rootfs`.  `buildInitContainers` puts the init container of the
exec wrapper before the user's init containers, which get a new container
name and keep their volume mounts as the template has them
(`BuildInitContainers`).  A name is a sequence of the words between its
dashes, so that adding a prefix or a suffix is concatenation.  The API
server takes a pod whose volume names are distinct and in which every mount
of every container, the init containers included, names a volume
(`Admitted`, `ConsumerPodAdmitted`).

The environment: `CreateInstance`, `SetRunning`, `DeleteInstance` (the
owner, by the operators of `InstanceContract`); `Schedule`, `BecomeReady`, `BecomeUnready`, `PodFails`, `PodDeleted`,
`PodRemoved` (scheduler, kubelet, eviction); `PodCollected` (the garbage
collector deletes a pod whose owner's UID is no longer in the API server);
`DeliverSci`, `DeliverPods` (the informers, which also enqueue a request as
`SetupWithManager` arranges).

### Bounds

| Constant | Value | Why it is enough |
|---|---|---|
| `Nodes` | one node; two in `instance_live` and `instance_node_drift`, under symmetry where only safety is checked | a second node matters only to where the consumer pod lands |
| `MaxLag` | 1 | one undelivered event already makes every read stale; at the bound a new event replaces the newest undelivered one, as a watch that coalesces does, so writers are never blocked |
| `MaxUid` | 2; 1 in the small runs | deleting an Instance and creating it again under the same name needs two UIDs; a UID is reused only when no object, cache or event remembers it |
| `Lagging` | both informers in `instance_lag`, the pod informer elsewhere | the informers whose cache may be behind; the event of any other is delivered before anything else happens |
| `MaxBehind` | 1 | how many informers may be behind at one time.  With 1, either cache may lag at any moment of a behaviour, and a write that would leave both behind is followed by a delivery before anything else happens: every Reconcile reads at most one stale kind |
| `Faults` | `unready` and `evict` in `instance_lag`; `unready` and `fail` in `instance_live`; `evict` in the two runs that show a defect | which pod faults happen |
| `Templates` | no volumes; in `instance_live` a template with the volume `data`, one with `data` and `data-rootfs`, one whose init container mounts `data`, and one whose init container mounts `user-data` | the smallest templates for which two built names coincide, for which an init container names a volume the pod does not have, and for which it names one the pod has |

With all three faults the properties of `instance_lag` also hold (4.1
million states, three and a half minutes), which is too long for a standing
run; `instance_lag` therefore leaves a pod that fails for good to
`instance_live`, where `RunningMeansBothReady` is checked with it.

### Properties

| Property | Kind | What it says |
|---|---|---|
| `TypeOK` | invariant | the type of every variable, the lag bound included |
| `RestsOnlyWhenSettled` | invariant | the controller is at rest (no Reconcile running or requested, every event delivered) only in Running, Stopped or Failed |
| `RunningMeansBothReady` | invariant | at rest in Running: wanted running, both pods exist and are Ready (P2) |
| `StoppedMeansProviderOnly` | invariant | at rest in Stopped: not wanted running, provider Ready, no consumer pod (P3) |
| `ProviderOutlivesStop` | action | the reconciler removes a provider pod only when the Instance that owns it is being deleted or is gone |
| `DeletionWaitsForPods` | action | an Instance with the finalizer leaves the API server only when none of its pods is left (I5); the code does not keep it, see the findings |
| `ConsumerOnProviderNode` | invariant | the consumer pod is on the node `status.nodeName` names (I3); the code does not keep it, see the findings |
| `DeletionCompletes` | liveness | a deleting Instance goes away, once the owner leaves `spec.running` alone |
| `StopConverges` | liveness | an Instance that stays wanted stopped with a Ready provider ends up Stopped without a consumer pod |
| `StartConverges` | liveness | an Instance that stays wanted running with a Ready provider and a template of well-named volumes and no mounts in init containers ends up with a consumer pod, reported ConsumerStarting or Running, and reported Running if that pod stays Ready |
| `ImplementsContract` | refinement | every step changes the Instance in the API server as `InstanceContract` allows (section 6) |

P2 and P3 of the specification are stated "at rest": between a pod's change
and the Reconcile that follows it the phase is necessarily out of date.

### Fairness

`FairSpec` assumes weak fairness of `Controller` (the work queue hands every
request to a worker, and `Requeue`, `RequeueAfter` and errors put it back),
of `DeliverSci` and `DeliverPods` (a watch delivers), and of `PodRemoved`
(the kubelet terminates a deleted pod within its grace period).  Nothing is
assumed of the owner, the scheduler or pods becoming Ready: properties that
need them say so in their hypothesis.

### Runs

| Run | Configuration | Result |
|---|---|---|
| `instance_lag` | either cache may lag, one at a time; pods become unready and are evicted; the Instance is deleted and created again | `TypeOK`, `RestsOnlyWhenSettled`, `RunningMeansBothReady`, `StoppedMeansProviderOnly`, `ProviderOutlivesStop`, `ImplementsContract` hold (1.4 million states) |
| `instance_live` | `FairSpec`, two nodes, pod cache may lag, pods become unready and fail, no eviction, templates with volumes | `RunningMeansBothReady`, `DeletionCompletes`, `StopConverges`, `StartConverges` hold |
| `instance_orphan` | pod cache may lag | `DeletionWaitsForPods` is **violated** |
| `instance_node_drift` | two nodes, eviction | `ConsumerOnProviderNode` is **violated** |

### Findings

* **The finalizer can go while a pod exists** (`instance_orphan`).
  `handleDeletion` asks the cache for the pods.  If the Instance is deleted
  right after `createProviderPod`, the next Reconcile can run before the pod
  informer has delivered the new pod: both Gets answer NotFound, the
  finalizer is removed, and the Instance is gone while its provider pod
  exists.  The pod is then removed by the garbage collector, not by the
  controller, and nothing waits for it.
* **The consumer can be left on the wrong node** (`instance_node_drift`).
  When the provider pod is deleted from outside, `Reconcile` creates a new
  one and leaves the consumer pod alone.  The new provider pod need not be
  scheduled to the same node; once it is Ready, `status.nodeName` names the
  new node, the consumer pod still runs on the old one over a hostPath that
  is no longer mounted, and the phase is Running.
* A failed provider pod is never reported: everything but a Ready provider
  pod is reported as ProviderStarting (1055-1058) and retried every two
  seconds.  This is an observation on the code, recorded as a hazard; no
  run states it, and `StartConverges` assumes a Ready provider pod.
* A template with the volumes `data` and `data-rootfs` never starts:
  `buildVolumes` names the second copy of `data` and the first copy of
  `data-rootfs` both `user-data-rootfs`, the API server refuses the pod, and
  `createConsumerPod` returns the error on every pass.  `StartConverges`
  excludes such templates in its hypothesis (`WellNamed`); `instance_live`
  has one, and TLC reaches the Instance that is retried for ever.
* **The builder in use and the test disagree on the mounts of init
  containers** (`instance_live`, `StartConverges`).  `buildInitContainers`
  of `consumer_pod.go` (409-413), which is what the Instance controller
  calls, gives the user's init container the name `user-<name>` and leaves
  its mounts alone, while `buildVolumes` has renamed every volume: an init
  container that mounts the volume `data` names a volume the pod does not
  have, the API server refuses the pod, and the Instance never starts.  The
  builder of `src/unnamed/part_007` adds `user-` to these mounts (326-328),
  and `TestConsumerPodBuilder_BuildInitContainers_VolumeNameMapping`
  (`helpers_test.go` 670-712) expects that; under it a template that
  already says `user-data`, which the builder in use admits, would be
  refused.  The model follows the builder in use.  `StartConverges`
  promises nothing for a template whose init containers mount volumes
  (`WellNamed`): it holds for the templates on which both builders agree.
  `instance_live` has a template of each kind, and TLC reaches the Instance
  whose consumer pod is refused for ever.
* A new Instance can rest in Running over the pods of its predecessor:
  after the orphan of `instance_orphan`, an Instance created under the same
  name finds the pods by name and never looks at their owner.  The garbage
  collector deletes them, the pod watch maps them to the owner's name, and
  the new Instance is reconciled: `RunningMeansBothReady` holds in
  `instance_lag`, which reaches this state.
* Phase `ProviderReady` is unreachable: the test `sci.Status.NodeName == ""`
  (1083) follows the assignment of a Ready pod's node to that field (1061).
  TLC's coverage shows that arm of `CreateConsumerPod` is never taken.

## 4. Module `Rendezvous`

The provider pod cannot mount; it asks the node's mount agent through files
in its work directory, a hostPath that both see.  The module has the three
programs that meet there for one Instance.

### State

| Variable | Stands for |
|---|---|
| `request` | `request.json`: the pod UID it carries, or `None` |
| `response` | `ready.json`: `"ready"`, `"error"`, or `None` |
| `marker` | the file `ready` that the provider pod's readiness probe tests |
| `rootfsDir`, `mounted`, `procMounted` | the directory `rootfs/`; the overlays mounted on it, by pod UID, newest last; the mount table has a mount at `rootfs/proc` |
| `procs`, `uid` | the pods whose rootfs container runs; the provider pod that now uses the directory |
| `dpc`, `attempt`, `lastError` | the driver: its place in `main`, the loop variable, `lastError != nil` |
| `apc`, `areq` | the agent: its place in a pass, the request it has read |
| `cpc` | the consumer: `none` without a pod, then `wait`, `setup`, `running`, `failed` |
| `container` | the container of the template the consumer pod was built from: `command`, `args`, `workingDir`, and the capabilities its security context adds |
| `user` | the user's process: the directory it was started in and its words, or `None` |
| `restarts` | kills of the driver's container and of the rootfs container from outside, and crashes of the agent, bounded |
| `node` | what the agent finds on the node: the cgroup driver (`systemd`, `cgroupfs`), the root filesystem of the container (`overlay` or another), the directory of the container runtime |
| `kind` | the driver of the provider pod: the `sc-provider` binary of the first pod builder in `provider_pod.go`, or the shell script of the second |

Paths are sequences of components.  `GetHostPath` and the agent's scan are
modelled on them: the work directory is `<prefix>/<namespace>/<name>`, and
the scan visits the direct children of `/var/lib/stoppablecontainer`.

The agent's conversions work on sequences too.  A pod UID is the sequence of
its groups and dashes; the kubelet writes it into the cgroup path with
underscores under the systemd driver and as it is under cgroupfs
(`CgroupOf`), and `FindRootfsContainer` replaces the dashes before it
searches, as `findRootfsContainer` does.  `GetOverlayfsOptions` gives the
directories of the overlay below the runtime's directory, or nothing when the
root of the container is no overlay; `AdjustPathsForHost` puts `host` before
`var/lib/containerd` and before nothing else; `CanMount` asks for `lowerdir`
and `upperdir` and for directories the agent has, which are the ones below
`/host`.

The user's command is modelled as text.  A word is a sequence of
characters, of which five are the ones a shell reads a meaning into (space,
single quote, double quote, backslash, dollar) and every other stands for a
run of characters without one of these.  `SingleQuoted` and
`BuildUserCommand` build the text as `buildUserCommand` does, every single
quote replaced by `'\''`; `ChrootLine` is the last line of the script,
`exec chroot "$ROOTFS" /bin/sh -c "cd '<dir>' && <command>"`.  `ShellWords`
is what `/bin/sh` does to a line: it splits at spaces, removes quotes, takes
every character between single quotes as it is, and between double quotes
still reads backslash before `\`, `"` and `$`, and `$name`.  `Started`
reads the line as the entrypoint's shell does and its sixth word as the
shell in the root filesystem does, and gives the directory and the words of
the process that `exec` starts, or `None` when a quote is left open or the
text is no longer `cd ... && exec ...`.

### Actions

| Action | Code |
|---|---|
| `DriverRetry`, `DriverWriteRequest` | `provider/main.go` 88-111 |
| `DriverWriteFails` | the error arm of `os.WriteFile` (107-110): `lastError` is set and the loop continues, so that a write that fails in the third attempt ends in `exit 1`; the script, under `set -e`, exits at its `cat` |
| `DriverSeesReady`, `DriverSeesError`, `DriverTimeout` | the poll loop, 113-136 |
| `DriverVerify` | 138-154 |
| `NextAttempt` | `continue`, `break`, and the end of `main`: exit when `lastError` is set, else the marker (157-178) |
| `AgentReadRequest` | `scanAndProcessRequests`, the read in `processRequest` |
| `ScriptSeesAnswer`, `ScriptTimeout` | `providerScript` (`provider_pod.go` 497-536): the request is written once, any `ready.json` ends the wait, the look at `rootfs/` only warns, the marker is written; `exit 1` after 120 rounds |
| `AgentFindFails`, `AgentMountFails` | the error returns of `processRequest`, with the error response of the scan, which leaves `request.json` in place |
| `AgentMount`, `AgentMountSpecial` | `mountOverlay`; `mountProcDevSys`, whose error is logged and ignored |
| `AgentRemoveRequest`, `AgentRespond` | 172-181 |
| `AgentCrash` | the agent's pod dies between any two steps; what is mounted stays |
| `RootfsStarts`, `RootfsExits` | the rootfs container runs `sc-pause` with `ROOTFS_MARKER` in its environment (`buildRootfsContainer`); `pause` returns when it is signalled |
| `ContainerRestarts` | RestartPolicyAlways (`provider_pod.go` 174): the kubelet starts a driver that has exited again, every time |
| `LivenessProbeFails` | the liveness probe `test -d /propagated/rootfs` (229-238) fails from 30 s on while `rootfs/` does not exist, and the kubelet kills the driver and starts it again, every time |
| `ContainerKilled` | the driver's container is killed from outside and started again |
| `PodReplaced` | the Instance controller creates a new provider pod over the same hostPath |
| `ConsumerStarts` | the Instance controller creates the consumer pod, from any container of `Containers`, when the provider pod is Ready, that is, when the marker exists; its hostPath `rootfs/` is of type Directory, so the pod starts only when `rootfs/` exists |
| `ConsumerSeesReady`, `ConsumerGivesUp` | the wait of the entrypoint script (`consumer_pod.go` 192-223) and of `handleEntrypoint` |
| `ConsumerChroot` | the rest of the script (224-267): with SYS_CHROOT among the capabilities of `buildSecurityContext`, the process that `Started` gives; the container ends when there is none.  `Process` has the outcome for every container of `Containers` |
| `ConsumerRestarts` | RestartPolicyAlways of the consumer pod |

Nothing in the code unmounts or removes a file other than `request.json`
and, from the second attempt on, `ready.json`; the model has no such step
either.

### Bounds and assumptions

| Constant | Value | Why |
|---|---|---|
| `MaxAttempts` | 3 | the constant of the retry loop |
| `MaxPods` | 1, or 2 with `replace` | one successor shows everything a predecessor can leave behind |
| `MaxRestarts` | 2 | bounds what comes from outside: kills of the two containers and crashes of the agent.  Two reach every place of `main` and of a pass with the files of a previous life.  The restarts the pod specification itself causes, after an exit and after a failed liveness probe, are not bounded |
| `MaxMounts` | 2 | the code never asks what is mounted on `rootfs/`.  With 1 the kernel is taken to refuse a second overlay there (the specification's EBUSY), with 2 it stacks them, which is what Linux does for a mount on a mount point |
| `HostPathPrefix`, `Namespace` | `/var/lib` and `stoppablecontainer` in the passing runs | the only layout in which the work directory is a direct child of the agent's work base; see the finding on depth |
| `Faults` | per run | `timeout`, `writeFails`, `mountFails`, `procFails`, `agentCrash`, `kill`, `replace` |
| `Nodes` | the node the code is written for (systemd, overlay, `/var/lib/containerd`), and in `rendezvous_safe` and `rendezvous_live` the three nodes that differ from it in one fact | every test of the agent on what it reads from `/proc` is taken both ways |
| `Drivers` | both in `rendezvous_safe` and `rendezvous_live`; the binary in the runs that show a defect | the script keeps the liveness properties and `ConsumerRunsUserCommand`; the two properties of the marker are stated for the binary |
| `Containers` | in `rendezvous_safe` 50 containers: every command of one word of up to two characters over the five special characters and a plain one; commands of several words split over `command` and `args`; working directories with a space, a single quote and a dollar; no command at all; an added capability.  One plain command elsewhere | two characters are what an escape or an expansion takes; a second word shows the joining |

The 300 rounds of the driver's poll and the 120 rounds of the consumer's wait
are abstracted to "the wait runs out": for the driver whenever `timeout` is
among the faults, for the consumer whenever the rootfs is not ready.

### Properties

| Property | Kind | What it says |
|---|---|---|
| `TypeOK` | invariant | types, with `attempt` within the loop's bound |
| `MarkerMeansMounted` | invariant | the marker of a pod whose driver is the binary exists only over a mounted overlay of the pod that now uses the directory |
| `ConsumerRunsUserCommand` | invariant | the user's process has the words of `command` and `args` and starts in `workingDir`, whatever spaces and single quotes they have, provided they read as themselves between double quotes (`Verbatim`) and the working directory has no single quote |
| `ReadyOnlyWhereSupported` | invariant | the marker of a pod whose driver is the binary exists only on a node with the systemd cgroup driver, overlayfs and containerd: elsewhere the agent finds no process, no overlay line, or directories it does not have, and answers with an error |
| `MountedOncePerPod` | invariant | no pod's overlay is mounted twice |
| `RequestAnswered` | liveness | a request is followed by a response |
| `ProviderServes` | liveness | on a node the agent was written for, the driver comes to serve behind the marker and stays there, unless faults go on for ever: `[]<><<Fault>>_vars \/ <>[](dpc = "serving")` |
| `ConsumerComesUp` | liveness | a consumer pod whose rootfs is complete comes to run the user's command |

### Fairness

Weak fairness of `Driver`, `Agent`, `Consumer`, `RootfsStarts` and
`ContainerRestarts`: the three programs are processes that keep running
(the agent scans every two seconds), and the kubelet starts containers and
starts them again after their exit under RestartPolicyAlways.  Nothing is
assumed of faults, nor of the liveness probe: `LivenessProbeFails` may
happen or not while `rootfs/` does not exist, as the 30 s of its initial
delay may or may not have passed.

`ProviderServes` is the one property with a hypothesis on faults, and it is
stated in the property: a behaviour in which `Fault` steps (a wait that
runs out, a write or a mount that is refused, a crash, a kill, a new pod)
happen again and again need not come to serve.  `AgentMountFails` counts as
a fault also when the refusal comes from the bound `MaxMounts`, so that
nothing is claimed of a `rootfs/` that has been mounted on `MaxMounts`
times.  The hypothesis on the node is needed: on the three other kinds of
node the driver exits and is started again for ever.  `RequestAnswered` is checked without
`agentCrash`: an agent that dies between the removal of `request.json` and
the write of `ready.json` leaves a request without an answer, which the
driver's timeout is there to cover.

### Runs

| Run | Configuration | Result |
|---|---|---|
| `rendezvous_safe` | four kinds of node, both drivers; `writeFails`, `mountFails`, `procFails`, `kill`, `agentCrash`; the 50 containers | `TypeOK`, `MarkerMeansMounted`, `ReadyOnlyWhereSupported`, `ConsumerRunsUserCommand` hold |
| `rendezvous_live` | `FairSpec`; four kinds of node, both drivers; `timeout`, `mountFails`, `kill`, `replace`; two pods | `RequestAnswered`, `ProviderServes`, `ConsumerComesUp` hold |
| `rendezvous_remount` | no fault | `MountedOncePerPod` is **violated** |
| `rendezvous_timeout` | `timeout` | `MarkerMeansMounted` is **violated** |
| `rendezvous_stale` | `replace`, two pods | `MarkerMeansMounted` is **violated** |
| `rendezvous_depth` | `FairSpec`, no `hostPathPrefix`, namespace `default` | `RequestAnswered` is **violated** |

All runs have `CHECK_DEADLOCK FALSE`: a driver that serves, an idle agent
and a running consumer is where the system stops.

### Findings

* **The overlay can be mounted twice** (`rendezvous_remount`).  The agent
  never asks what `rootfs/` carries, and the driver writes its request more
  than once: after an error answer (the rootfs container was not up yet),
  which leaves `request.json` in place, and after the restart that the
  liveness probe causes while `rootfs/` does not exist.  If the agent is
  serving the first request when the second is written, it removes the
  first, answers, and serves the second on its next pass.
* **Three timeouts count as success** (`rendezvous_timeout`).  The poll loop
  ends without touching `lastError`; after the last attempt `main` finds
  `lastError == nil` and writes the marker over an empty `rootfs/`.
* **A new pod is Ready on the files of the old one** (`rendezvous_stale`).
  The marker and `ready.json` live in a hostPath that depends on namespace
  and name only, and nothing removes them.
* **With the default prefix no request is found** (`rendezvous_depth`).
  `GetHostPath` puts the work directory two levels below
  `/var/lib/stoppablecontainer`; the scan looks one level below it.
* The script driver takes any `ready.json` for success, an error answer
  and the answer to an earlier pod included, and writes the marker without
  a mounted `rootfs/`: without the restriction to the binary,
  `MarkerMeansMounted` and `ReadyOnlyWhereSupported` fail for it in four
  steps.  The provider pod is then Ready and the Instance controller creates
  the consumer pod, whose entrypoint waits for a root filesystem that does
  not come.  This is an observation on the code, recorded as a hazard.
* **The code works on one kind of node, the documentation promises more**
  (`rendezvous_safe`, `ReadyOnlyWhereSupported`).
  `src/docs-site/docs/faq.md` (184-186) calls the system container runtime
  agnostic and names containerd, CRI-O and Docker, and `installation.md`
  (12) offers Docker as an alternative.  `findRootfsContainer` looks for
  the pod UID in the form the systemd cgroup driver writes,
  `getOverlayfsOptions` needs an overlay root, and `adjustPathsForHost`
  puts `/host` before `/var/lib/containerd` only.  On a node with the
  cgroupfs driver, with a container root that is no overlay, or with a
  runtime that keeps its layers elsewhere, every request is answered with
  an error, the driver exits after its three attempts and is started again
  for ever, and the provider pod never becomes Ready.
  `ReadyOnlyWhereSupported` holds, and what it shows is this limit of the
  code; `ProviderServes` needs the same hypothesis on the node.
* **The user's command is read by the entrypoint's shell before it is
  passed on.**  `buildUserCommand` quotes for one shell and
  `buildEntrypointScript` puts the result between the double quotes of
  another (`consumer_pod.go` 266).  A part with `$name` arrives with the
  value the variable has in the busybox container, `\\` arrives as one
  backslash, and a part with a double quote, as in
  `sh -c 'echo "hi"'`, ends the quoted text: the words arrive changed, or
  the line does not parse and the container is restarted for ever.  The
  working directory is put between single quotes as it is.
  `ConsumerRunsUserCommand` holds for every other command; the containers
  of `rendezvous_safe` include the ones it excludes, and TLC reaches for
  them a process with other words and the restart loop.  This is an
  observation on the code, recorded as a hazard.
* A failure of `mountProcDevSys` leaves the provider pod Ready and the
  consumer in a restart loop: the driver verifies `bin` only, the consumer
  waits for proc, gives up and is started again.  `rendezvous_safe` reaches
  these states; `ConsumerComesUp` is stated for a root filesystem that is
  complete.  This is an observation on the code, recorded as a hazard.

## 5. Module `WorkloadController`

### State

`sc` and `sci` are the Workload and the Instance of the same name in the API
server (`uid` or `owner`, `finalizer`, `deleting`, `running`, `phase`);
`scCache`, `sciCache`, `scLag`, `sciLag` the informer cache and the
undelivered watch events of each kind; `queued`, `pc`, `mem` the work queue
and a Reconcile between its two writes, as in `InstanceController`.

### Actions

| Action | Code (`src/unnamed/part_006`) |
|---|---|
| `ReconcileGone` | `Get` NotFound (72-79), deleting without our finalizer (152-154) |
| `DeleteInstance`, `RemoveFinalizer` | `handleDeletion` 156-182 |
| `AddFinalizer` | 86-93 |
| `CreateInstance` | `createInstance`: Create, AlreadyExists, phase Pending |
| `SetInstanceRunning` | both branches that `Update` the Instance (119-128, 132-141) |
| `ReportInstance`, `ReportStopped` | `updateStatusFromInstance`, `updateStatusStopped` |
| `StatusStep` | the `Status().Update` that follows a write of the Instance |
| `Project` | the switch from Instance phase to Workload phase (246-277) |
| `DeliverSc`, `DeliverSci` | the watches of `SetupWithManager`, which enqueue |
| `CliCreate`, `CliSetRunning`, `CliDelete` | `createCmd`, `startCmd`, `stopCmd`, `deleteCmd` of `kubectl-sc`.  `createCmd` is `kubectl apply`: it creates the Workload, and for one that exists it writes `spec.running` as its flag says |
| `InstanceAddsFinalizer`, `InstanceReports`, `InstanceGoes` | the Instance controller, by what `InstanceContract` lets it write into the Instance: the finalizer, any phase it can write for the Instance's `spec.running`, the removal of the finalizer |
| `InstanceCollected` | the garbage collector deletes an Instance whose owner is gone |

### Bounds

`MaxLag = 1` and `MaxUid = 2` as in `InstanceController`; `Lagging` is both
kinds, so that every Get of a Reconcile can be stale and every write of it
can be refused.  About a million states.  The liveness run has `MaxUid = 1`:
one Workload and its Instance, created once, started, stopped and deleted
under both caches lagging (140,000 states).

### Properties

| Property | Kind | What it says |
|---|---|---|
| `TypeOK` | invariant | types; the phase of a Workload is one of the projected ones |
| `RestsOnlyWhenProjected` | invariant | at rest on a Workload that stays, the Instance has the Workload's `spec.running` and the Workload shows `Project` of the Instance's phase, or there is no Instance, none is wanted and the phase is Stopped |
| `InstanceKeptWhileOwned` | action | no step deletes the Instance of a Workload that stays: stop keeps the Instance, and the Delete by name of `handleDeletion` never reaches a successor's Instance |
| `ImplementsContract` | refinement | every step changes the Instance in the API server as `InstanceContract` allows (section 6) |
| `DeletionCompletes` | liveness | once the user is quiet, a Workload under deletion leaves the API server: `handleDeletion` deletes the Instance, waits for it to go, and removes the finalizer, through refused updates and stale reads |
| `Converges` | liveness | once the user and the Instance controller are quiet and the Workload stays, the Instance has the Workload's `spec.running` and the Workload shows `Project` of the Instance's phase, for good: the write of a stale wish and the status computed before a write of the other side are put right by a later pass |

Run `workload_lag` checks the first four, run `workload_live` the two
liveness properties.

### Fairness

`FairSpec` assumes weak fairness of `Controller`, `DeliverSc` and
`DeliverSci`, for the reasons given for `InstanceController`, and weak
fairness of the step `InstanceGoes` while every event is delivered: an
Instance that is being deleted loses its finalizer.  That is not an
assumption about the code of this module but a property of the other
controller: `DeletionCompletes` of `InstanceController` (run
`instance_live`) shows that the Instance controller lets a deleted Instance
go.  Nothing is assumed of the user or of the phases the Instance controller
reports; `Converges` has their coming to rest as its hypothesis, stated on
the actions (`UserSettles`, `InstanceSettles`).

### Observations

* `handleDeletion` takes NotFound from the cache for "the Instance is gone"
  (162).  Right after `createInstance` the cache does not have the Instance
  yet, and the finalizer of the Workload is removed while the Instance
  exists.  The Instance is then deleted through its owner reference.  This
  is the defect of finding `instance_orphan`, one level up.
  With the Instance cache behind, TLC finds the Workload gone while its
  Instance exists after ten steps; no property of a run states what the
  code does not keep.
* A Workload created under the name of one just deleted finds the Instance
  of its predecessor by name (102), writes its `spec.running` and reports
  its phase until the garbage collector removes it.  Both properties hold
  through it.

## 6. Module `InstanceContract`

The two controllers meet in one object.  `InstanceContract` has that object
alone, as the variable `inst` with the fields both sides read (`finalizer`,
`deleting`, `running`, `phase`), and says what each side may do to it:

| Side | May | Operators |
|---|---|---|
| owner (Workload controller, garbage collector, a user) | create the Instance wanted running and without status; change `spec.running`; delete it, which marks an Instance that has a finalizer and removes one that has none | `Created`, `Toggled`, `CanDelete`, `AfterDelete` |
| Instance controller | put the finalizer on an Instance that is not being deleted; write a phase on an Instance that has the finalizer and stays, and only a phase of what `spec.running` asks for at the time of the write (`Reportable`); take the finalizer off an Instance that is being deleted | `CanAddFinalizer`, `WithFinalizer`, `CanReport`, `Reports`, `CanGo` |

Both controllers are shown to implement it.  Each module instantiates the
contract with `inst <- Bare(sci)`, the Instance of its API server without
the fields the other side never reads, and checks `Contract!Spec` as the
property `ImplementsContract` (runs `instance_lag` and `workload_lag`).
The mapping is checked where it is hardest: with the controller's cache of
the Instance behind the API server, so that every Reconcile decides on a
copy that the other side has changed since.

The environment of each controller is the other side of the contract and
nothing else: the owner's actions of `InstanceController` and the Instance
controller's actions of `WorkloadController` are written with the contract's
operators.  That makes the argument for the composition.  Every write of the
Workload controller to the Instance is a step of the contract's owner, which
is the environment the properties of `InstanceController` were checked
against; every write of the Instance controller is a step of the contract's
controller side, which is the environment the properties of
`WorkloadController` were checked against.  The properties of either module
therefore hold of the two controllers running together, as far as they
speak of the Instance and of what only their own controller writes.

Liveness across the two is argued the same way, one step at a time.  The
Workload controller's `DeletionCompletes` needs the Instance to go once it
is deleted; that is `DeletionCompletes` of `InstanceController`, checked
against an owner that does what the contract allows, and taken into
`WorkloadController` as the fairness of `InstanceGoes`.  The hypothesis of
the one, that the owner comes to leave `spec.running` alone, is met by a
Workload under deletion: `handleDeletion` never writes it, and a Reconcile
writes it only as long as its cache has not seen the deletion.

What the contract forbids is what the seeded faults do: `UpdatePhasePatched`
writes a phase computed for a `spec.running` that has changed since,
`SetInstanceRunningForced` stores a cached copy over a finalizer or a phase
that arrived later.  The resourceVersion check of `Update` is what keeps
both out.

## 7. Seeded faults

Every property of a passing run is paired in `PROJECT.json` with a seeded
fault: a definition of the module replaced by a variant with a plausible
bug, under which TLC must find the property violated.  The variants are
defined next to the definitions they replace and are marked "Seeded fault"
(`UpdatePhaseOnce`, `UpdatePhasePatched`, `BuildVolumesSameName`,
`DriverSeesErrorUnrecorded`, `FindRootfsContainerAsGiven`,
`ConsumerStaysDown`, `SingleQuotedAsIs`, `SetInstanceRunningForced`,
`DeleteInstanceAwaited`, `StatusStepRetried`, `ContainerNeverRestarts`,
...).

## 8. Not modelled

* The API types' schema beyond the fields a branch reads, documentation
  and scripts: no behaviour.
* Of `kubectl-sc`: `list`, `status`, `logs` and `version`, which only read,
  and `exec`, which starts `kubectl exec` and changes nothing in the
  cluster; the rendering of the manifest by `buildStoppableContainerYAML`
  and of the tables (`formatAge`); the parsing of the command line, which
  is cobra's.  `createCmd` and `execCmd` look for `--` among the arguments
  cobra hands them; what they find depends on that library and is not
  modelled, so `CliCreate` creates a Workload without saying anything of
  its command.  `waitForPhase` polls `status.phase` and does not compare
  `observedGeneration`: `start --wait` can return on the Running of before
  a stop.  A command that waits was added to `WorkloadController` on trial:
  it takes the configuration of `workload_lag` from 1.0 to 2.2 million
  states (5.8 million with `observedGeneration` in the object), and what
  holds of it, that the phase turns to the awaited one only by a
  `Status().Update` that was accepted, is the refusal of a stale write on
  which `RestsOnlyWhenProjected` and `Converges` already rest.  That the
  command can return early is a statement the code does not keep, and is
  recorded as a hazard.
* Of `sc-exec`: `--init`, `--copy`, and the wrapper mode (`setupMounts`,
  `findBinary`, `chrootExec`, `execDirect`), which run inside one container;
  a user's command that the rootfs does not have.
* The contents of pod specs beyond owner, node, role, hostPath and its
  type, probes, restart policy, the rootfs container and the names of the
  volumes, the capabilities and the command of the consumer's container:
  resources, annotations, environment variables, the rest of the security
  context, and of the init containers everything but the volumes they
  mount.
* In the shell of `ShellWords`: expansions other than `$name` and `$$`,
  backquotes, globbing and the splitting of an expanded value into fields;
  a character of a command that is none of the five stands for text without
  any of these.
* The product of the two controllers and the rendezvous in one state space:
  see section 6 for what stands in its place.
* API errors other than NotFound, AlreadyExists and a refused update: they
  return an error and requeue, which is what a refused update already does.
* Several Instances at once, leader election, the metrics endpoint.
