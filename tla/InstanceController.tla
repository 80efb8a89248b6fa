------------------------- MODULE InstanceController -------------------------
(***************************************************************************)
(* The reconciler of one StoppableContainerInstance                        *)
(* (StoppableContainerInstanceReconciler) together with the part of the    *)
(* cluster it talks to: the API server's copy of the Instance and of its   *)
(* two pods, the informer cache the reconciler reads from, the work queue  *)
(* that triggers it, the kubelet that changes pod status, and the owner    *)
(* of the Instance that creates it, flips spec.running and deletes it.     *)
(*                                                                         *)
(* One Reconcile call is one branch action: the Gets, answered by the      *)
(* cache, and the first API write of the branch taken.  Where the code     *)
(* calls updatePhase after creating or deleting a pod that second write is *)
(* UpdatePhaseStep, and everything else may happen in between.  What       *)
(* happens between a Get and the first write is what a cache that is       *)
(* behind the API server already shows the reconciler.                     *)
(***************************************************************************)
EXTENDS Naturals, Sequences, SequencesExt

CONSTANTS
    Nodes,       \* the nodes a pod can be scheduled to
    Templates,   \* the pod templates an Instance can be created with
    Absent,      \* the answer NotFound: no such object
    NoNode,      \* the empty node name
    MaxLag,      \* bound: watch events a cache may be behind the API server
    MaxUid,      \* bound: Instance UIDs remembered somewhere at one time
    Lagging,     \* bound: the informers whose cache may be behind
    MaxBehind,   \* bound: the informers that may be behind at one time
    Faults       \* what may go wrong with a pod: a subset of FaultKinds

\* A pod loses readiness, a pod fails for good, a pod is deleted by someone
\* other than the controller (an eviction, a drain, a user).
FaultKinds == {"unready", "fail", "evict"}

ASSUME /\ MaxLag \in Nat \ {0}
       /\ MaxUid \in Nat \ {0}
       /\ Lagging \subseteq {"sci", "pods"}
       /\ MaxBehind \in {1, 2}
       /\ Faults \subseteq FaultKinds
       /\ NoNode \notin Nodes

VARIABLES
    sci,        \* API server: the Instance object, or Absent
    pods,       \* API server: role -> pod object, or Absent
    sciCache,   \* informer cache: the Instance as last delivered
    podCache,   \* informer cache: the pods as last delivered
    sciLag,     \* Instance watch events not yet delivered, oldest first
    podLag,     \* pod watch events not yet delivered, oldest first
    queued,     \* work queue: a request for this Instance is waiting
    pc,         \* reconciler: "idle", or "updatePhase" between two writes
    mem         \* reconciler: the Instance it read, with the status fields
                \* set in memory and not yet written

store      == <<sci, sciLag, pods, podLag>>
caches     == <<sciCache, podCache>>
reconciler == <<pc, mem>>
vars       == <<sci, pods, sciCache, podCache, sciLag, podLag,
                queued, pc, mem>>

Roles == {"provider", "consumer"}

NoPhase == ""
Phases  == {NoPhase, "Pending", "ProviderStarting", "ProviderReady", "ConsumerStarting",
            "Running", "Stopping", "Stopped", "Failed"}
\* updatePhase does not ask for another Reconcile after writing one of these.
SettledPhases == {"Running", "Stopped", "Failed"}

NodeNames == Nodes \cup {NoNode}
Uids      == 1..MaxUid
\* A pod's status is kept as what isPodReady and isPodFailed tell apart:
\* "Ready" is phase Running with condition Ready, "Failed" is phase Failed,
\* "NotReady" is every other status.
PodObjects == [owner : Uids, status : {"NotReady", "Ready", "Failed"},
               node : NodeNames, deleting : BOOLEAN]
SciObjects == [uid : Uids, finalizer : BOOLEAN, deleting : BOOLEAN,
               running : BOOLEAN, template : Templates, phase : Phases,
               nodeName : NodeNames]
PodSets    == [Roles -> PodObjects \cup {Absent}]

NoPods == [r \in Roles |-> Absent]
NoMem == [sci |-> Absent, phase |-> NoPhase, nodeName |-> NoNode]

-----------------------------------------------------------------------------
(* Pure helpers of the controller *)

IsPodReady(p) == p.status = "Ready"

IsPodFailed(p) == p.status = "Failed"

\* ProviderPodBuilder.Build: a pod owned by the Instance it is built from,
\* left to the scheduler.
NewProviderPod(owner) ==
    [owner |-> owner.uid, status |-> "NotReady", node |-> NoNode,
     deleting |-> FALSE]

\* ConsumerPodBuilder.Build: a pod owned by the Instance and bound to the
\* node the builder was given.
NewConsumerPod(owner, node) ==
    [NewProviderPod(owner) EXCEPT !.node = node]

\* A name is kept as the words between its dashes.
PropagatedVolumeName  == <<"sc", "propagated">>
ExecWrapperVolumeName == <<"sc", "exec", "wrapper">>

\* Each volume of the template comes twice, for the container and for the
\* place below the root filesystem, under names of its own.
UserNames(name) == << <<"user">> \o name, <<"user">> \o name \o <<"rootfs">> >>

\* Seeded fault: the copy for the root filesystem keeps the name.
BuildVolumesSameName(userVolumes) ==
    <<PropagatedVolumeName, ExecWrapperVolumeName>>
        \o FlattenSeq([i \in DOMAIN userVolumes |->
               << <<"user">> \o userVolumes[i], <<"user">> \o userVolumes[i] >>])

\* buildVolumes, by the names of the volumes.
BuildVolumes(userVolumes) ==
    <<PropagatedVolumeName, ExecWrapperVolumeName>>
        \o FlattenSeq([i \in DOMAIN userVolumes |-> UserNames(userVolumes[i])])

\* buildVolumeMounts, by the names of the volumes mounted.
BuildVolumeMounts(userMounts) ==
    <<PropagatedVolumeName, ExecWrapperVolumeName>>
        \o FlattenSeq([i \in DOMAIN userMounts |-> UserNames(userMounts[i])])

\* What the API server asks of a pod at Create: the names of the volumes
\* are distinct, and every mount names a volume.
Admitted(volumes, mounts) ==
    IsInjective(volumes) /\ Range(mounts) \subseteq Range(volumes)

\* buildInitContainers, by the names of the volumes mounted: the init
\* container of the exec wrapper, then the user's own under new container
\* names, their mounts as the template gives them.
BuildInitContainers(initMounts) == <<ExecWrapperVolumeName>> \o initMounts

\* Build: the volumes of the pod, and the mounts of all its containers.
ConsumerPodAdmitted(owner) ==
    LET t == owner.template
    IN  Admitted(BuildVolumes(t.volumes),
                 BuildVolumeMounts(t.mounts) \o BuildInitContainers(t.initMounts))

\* The Instance as createInstance writes it.
NewInstance(uid, template) ==
    [uid |-> uid, finalizer |-> FALSE, deleting |-> FALSE, running |-> TRUE,
     template |-> template, phase |-> NoPhase, nodeName |-> NoNode]

-----------------------------------------------------------------------------
(* The API server and the informer *)

\* A watch event joins the undelivered ones; at the bound the newest
\* undelivered event is overwritten, so that writers are never blocked.
Push(lag, obj) ==
    IF Len(lag) < MaxLag THEN Append(lag, obj) ELSE [lag EXCEPT ![MaxLag] = obj]

SciWrite(new) ==
    /\ sci' = new
    /\ sciLag' = IF new = sci THEN sciLag ELSE Push(sciLag, new)

PodsWrite(new) ==
    /\ pods' = new
    /\ podLag' = IF new = pods THEN podLag ELSE Push(podLag, new)

\* Delete of a pod: graceful when a kubelet has it, immediate otherwise;
\* NotFound is tolerated by every caller.
Deleted(p) ==
    IF p = Absent \/ p.node = NoNode THEN Absent ELSE [p EXCEPT !.deleting = TRUE]

\* Seeded fault: the pod watch is set up without the mapping from a pod to
\* its Instance, so that a pod event refreshes the cache and wakes nobody.
DeliverPodsUnmapped ==
    /\ podLag # <<>>
    /\ podCache' = Head(podLag)
    /\ podLag' = Tail(podLag)
    /\ UNCHANGED <<sci, sciLag, pods, sciCache, queued, reconciler>>

\* For(&StoppableContainerInstance{}): an Instance event refreshes the cache
\* and enqueues a request.
DeliverSci ==
    /\ sciLag # <<>>
    /\ sciCache' = Head(sciLag)
    /\ sciLag' = Tail(sciLag)
    /\ queued' = TRUE
    /\ UNCHANGED <<sci, pods, podLag, podCache, reconciler>>

\* Owns/Watches(&Pod{}): a pod event refreshes the cache and, through the
\* instance label, enqueues a request for the Instance.
DeliverPods ==
    /\ podLag # <<>>
    /\ podCache' = Head(podLag)
    /\ podLag' = Tail(podLag)
    /\ queued' = TRUE
    /\ UNCHANGED <<sci, sciLag, pods, sciCache, reconciler>>

-----------------------------------------------------------------------------
(* Reconcile *)

\* What the Gets of Reconcile and of handleDeletion return.
vs == sciCache
vp == podCache["provider"]
vc == podCache["consumer"]

\* A worker takes the request for this Instance.
Start == pc = "idle" /\ queued

\* Past the deletion branch and the finalizer branch of Reconcile.
Live == vs # Absent /\ ~vs.deleting /\ vs.finalizer

\* Past the two provider branches of Reconcile.
ProviderUp == Live /\ vp # Absent /\ IsPodReady(vp)

\* Reconcile returns; `requeue' stands for Requeue, RequeueAfter and an error.
\* A request that arrived while Reconcile was running stays in the queue.
Done(requeue) ==
    /\ pc' = "idle"
    /\ queued' = (requeue \/ (pc = "updatePhase" /\ queued))
    /\ mem' = NoMem

\* The first API write of a branch is made and updatePhase is still to come.
ThenUpdatePhase(phase, nodeName) ==
    /\ pc' = "updatePhase"
    /\ mem' = [sci |-> vs, phase |-> phase, nodeName |-> nodeName]
    /\ queued' = FALSE

\* Seeded fault: updatePhase returns without RequeueAfter in every phase.
UpdatePhaseOnce(obj, phase, nodeName) ==
    IF sci = obj
      THEN /\ SciWrite([sci EXCEPT !.phase = phase, !.nodeName = nodeName])
           /\ pc' = "idle" /\ mem' = NoMem
           /\ queued' = (pc = "updatePhase" /\ queued)
      ELSE /\ UNCHANGED <<sci, sciLag>>
           /\ pc' = "idle" /\ mem' = NoMem /\ queued' = TRUE

\* Seeded fault: the status is written with a patch, which the API server
\* applies to whatever copy it has.
UpdatePhasePatched(obj, phase, nodeName) ==
    IF sci # Absent
      THEN /\ SciWrite([sci EXCEPT !.phase = phase, !.nodeName = nodeName])
           /\ Done(phase \notin SettledPhases)
      ELSE /\ UNCHANGED <<sci, sciLag>>
           /\ Done(TRUE)

\* updatePhase: Status().Update of the object read by this Reconcile; it is
\* refused when the API server's copy is no longer the one that was read.
UpdatePhase(obj, phase, nodeName) ==
    IF sci = obj
      THEN /\ SciWrite([sci EXCEPT !.phase = phase, !.nodeName = nodeName])
           /\ Done(phase \notin SettledPhases)
      ELSE /\ UNCHANGED <<sci, sciLag>>
           /\ Done(TRUE)

\* The Instance is gone, or is going and no longer ours to clean up.
NothingToDo == IF vs = Absent THEN TRUE ELSE vs.deleting /\ ~vs.finalizer

ReconcileGone ==
    /\ Start /\ NothingToDo
    /\ Done(FALSE)
    /\ UNCHANGED <<store, caches>>

\* Seeded fault: handleDeletion is entered without looking at the
\* DeletionTimestamp.
DeleteOwnedPodAnyway ==
    /\ Start
    /\ vs # Absent /\ vs.finalizer
    /\ LET victim == IF vc # Absent THEN "consumer" ELSE "provider" IN
         /\ podCache[victim] # Absent
         /\ PodsWrite([pods EXCEPT ![victim] = Deleted(@)])
    /\ pc' = "idle" /\ mem' = NoMem /\ queued' = TRUE
    /\ UNCHANGED <<sci, sciLag, caches>>

\* Seeded fault: handleDeletion deletes the consumer pod and has no branch
\* for the provider pod.
DeleteConsumerOnly ==
    /\ Start
    /\ vs # Absent /\ vs.deleting /\ vs.finalizer
    /\ vc # Absent
    /\ PodsWrite([pods EXCEPT !["consumer"] = Deleted(@)])
    /\ Done(TRUE)
    /\ UNCHANGED <<sci, sciLag, caches>>

\* handleDeletion while a pod is left: the consumer first, then the provider.
DeleteOwnedPod ==
    /\ Start
    /\ vs # Absent /\ vs.deleting /\ vs.finalizer
    /\ LET victim == IF vc # Absent THEN "consumer" ELSE "provider" IN
         /\ podCache[victim] # Absent
         /\ PodsWrite([pods EXCEPT ![victim] = Deleted(@)])
    /\ Done(TRUE)
    /\ UNCHANGED <<sci, sciLag, caches>>

\* handleDeletion when no pod is left: the finalizer goes, and with it the
\* object, which was only waiting for that.
RemoveFinalizer ==
    /\ Start
    /\ vs # Absent /\ vs.deleting /\ vs.finalizer
    /\ vc = Absent /\ vp = Absent
    /\ IF sci = vs
         THEN SciWrite(Absent) /\ Done(FALSE)
         ELSE UNCHANGED <<sci, sciLag>> /\ Done(TRUE)
    /\ UNCHANGED <<pods, podLag, caches>>

AddFinalizer ==
    /\ Start
    /\ vs # Absent /\ ~vs.deleting /\ ~vs.finalizer
    /\ IF sci = vs
         THEN SciWrite([sci EXCEPT !.finalizer = TRUE])
         ELSE UNCHANGED <<sci, sciLag>>
    /\ Done(TRUE)
    /\ UNCHANGED <<pods, podLag, caches>>

CreateProviderPod ==
    /\ Start
    /\ Live /\ vp = Absent
    /\ IF pods["provider"] # Absent
         THEN UNCHANGED <<pods, podLag>> /\ Done(TRUE)
         ELSE /\ PodsWrite([pods EXCEPT !["provider"] = NewProviderPod(vs)])
              /\ ThenUpdatePhase("ProviderStarting", vs.nodeName)
    /\ UNCHANGED <<sci, sciLag, caches>>

ProviderNotReady ==
    /\ Start
    /\ Live /\ vp # Absent /\ ~IsPodReady(vp)
    /\ UpdatePhase(vs, "ProviderStarting", vs.nodeName)
    /\ UNCHANGED <<pods, podLag, caches>>

\* Seeded fault: the !Running branch reports Stopping and leaves out the
\* Delete of the consumer pod.
StopConsumerPhaseOnly ==
    /\ Start
    /\ ProviderUp /\ ~vs.running /\ vc # Absent
    /\ UpdatePhase(vs, "Stopping", vp.node)
    /\ UNCHANGED <<pods, podLag, caches>>

StopConsumer ==
    /\ Start
    /\ ProviderUp /\ ~vs.running /\ vc # Absent
    /\ PodsWrite([pods EXCEPT !["consumer"] = Deleted(@)])
    /\ ThenUpdatePhase("Stopping", vp.node)
    /\ UNCHANGED <<sci, sciLag, caches>>

\* Seeded fault: Stopped is reported without the consumerExists test.
ReportStoppedUnseen ==
    /\ Start
    /\ ProviderUp /\ ~vs.running
    /\ UpdatePhase(vs, "Stopped", vp.node)
    /\ UNCHANGED <<pods, podLag, caches>>

ReportStopped ==
    /\ Start
    /\ ProviderUp /\ ~vs.running /\ vc = Absent
    /\ UpdatePhase(vs, "Stopped", vp.node)
    /\ UNCHANGED <<pods, podLag, caches>>

CreateConsumerPod ==
    /\ Start
    /\ ProviderUp /\ vs.running /\ vc = Absent
    /\ CASE vp.node = NoNode ->
              UpdatePhase(vs, "ProviderReady", vp.node) /\ UNCHANGED <<pods, podLag>>
         [] vp.node # NoNode
              /\ (~ConsumerPodAdmitted(vs) \/ pods["consumer"] # Absent) ->
              UNCHANGED <<store>> /\ Done(TRUE)
         [] OTHER ->
              /\ PodsWrite([pods EXCEPT !["consumer"] = NewConsumerPod(vs, vp.node)])
              /\ ThenUpdatePhase("ConsumerStarting", vp.node)
              /\ UNCHANGED <<sci, sciLag>>
    /\ UNCHANGED <<caches>>

\* Seeded fault: for a consumer pod that is not Ready the pod's own phase is
\* copied into the Instance; Succeeded is no phase of an Instance.
ConsumerPhaseOfPod(p) ==
    CASE IsPodFailed(p) -> "Failed"
      [] ~IsPodFailed(p) /\ ~IsPodReady(p) -> "Succeeded"
      [] OTHER -> "Running"

ConsumerPhase(p) ==
    CASE IsPodFailed(p) -> "Failed"
      [] ~IsPodFailed(p) /\ ~IsPodReady(p) -> "ConsumerStarting"
      [] OTHER -> "Running"

ReportConsumer ==
    /\ Start
    /\ ProviderUp /\ vs.running /\ vc # Absent
    /\ UpdatePhase(vs, ConsumerPhase(vc), vp.node)
    /\ UNCHANGED <<pods, podLag, caches>>

UpdatePhaseStep ==
    /\ pc = "updatePhase"
    /\ UpdatePhase(mem.sci, mem.phase, mem.nodeName)
    /\ UNCHANGED <<pods, podLag, caches>>

Reconcile ==
    \/ ReconcileGone \/ DeleteOwnedPod \/ RemoveFinalizer
    \/ AddFinalizer \/ CreateProviderPod \/ ProviderNotReady \/ StopConsumer
    \/ ReportStopped \/ CreateConsumerPod \/ ReportConsumer \/ UpdatePhaseStep

-----------------------------------------------------------------------------
(* The owner of the Instance, which does what its side of InstanceContract  *)
(* allows: the Workload controller, the garbage collector, or a user        *)

\* The UIDs some object, cached copy or undelivered event still carries.
Remembered ==
    LET scis    == {sci, sciCache, mem.sci} \cup {sciLag[i] : i \in DOMAIN sciLag}
        podSets == {pods, podCache} \cup {podLag[i] : i \in DOMAIN podLag}
        allPods == UNION {{ps[r] : r \in Roles} : ps \in podSets}
    IN  {o.uid : o \in scis \ {Absent}} \cup {p.owner : p \in allPods \ {Absent}}

\* A new object gets a UID nothing remembers: the least such one.
Fresh(u) == u \in Uids \ Remembered /\ \A w \in Uids \ Remembered : u <= w

\* The Instance as its owner sees it, without the UID and the node name,
\* and what InstanceContract lets either side do to it.
Bare(i) ==
    IF i = Absent THEN Absent
    ELSE [finalizer |-> i.finalizer, deleting |-> i.deleting,
          running |-> i.running, phase |-> i.phase]

Contract == INSTANCE InstanceContract WITH inst <- Bare(sci)

OwnerStep(new) ==
    /\ SciWrite(new)
    /\ UNCHANGED <<pods, podLag, caches, queued, reconciler>>

CreateInstance ==
    /\ sci = Absent
    /\ \E u \in Uids, t \in Templates : Fresh(u) /\ OwnerStep(NewInstance(u, t))

SetRunning ==
    /\ sci # Absent
    /\ OwnerStep(Contract!Toggled(sci))

\* Delete of the Instance: with a finalizer it is only marked.
DeleteInstance ==
    /\ Contract!CanDelete(sci)
    /\ OwnerStep(Contract!AfterDelete(sci))

Owner == CreateInstance \/ SetRunning \/ DeleteInstance

-----------------------------------------------------------------------------
(* The scheduler, the kubelets and whoever else deletes pods *)

PodStep(r, new) ==
    /\ PodsWrite([pods EXCEPT ![r] = new])
    /\ UNCHANGED <<sci, sciLag, caches, queued, reconciler>>

\* A pod that is not being deleted, and the kubelet of its node reports it.
Reported(r) == pods[r] # Absent /\ pods[r].node # NoNode /\ ~pods[r].deleting

Schedule(r, n) ==
    /\ pods[r] # Absent /\ pods[r].node = NoNode
    /\ PodStep(r, [pods[r] EXCEPT !.node = n])

BecomeReady(r) ==
    /\ Reported(r) /\ pods[r].status = "NotReady"
    /\ PodStep(r, [pods[r] EXCEPT !.status = "Ready"])

BecomeUnready(r) ==
    /\ "unready" \in Faults
    /\ Reported(r) /\ pods[r].status = "Ready"
    /\ PodStep(r, [pods[r] EXCEPT !.status = "NotReady"])

PodFails(r) ==
    /\ "fail" \in Faults
    /\ Reported(r) /\ pods[r].status # "Failed"
    /\ PodStep(r, [pods[r] EXCEPT !.status = "Failed"])

PodDeleted(r) ==
    /\ "evict" \in Faults
    /\ pods[r] # Absent /\ ~pods[r].deleting
    /\ PodStep(r, Deleted(pods[r]))

\* The garbage collector deletes a pod whose owner no longer exists.
Orphan(p) == p # Absent /\ (IF sci = Absent THEN TRUE ELSE sci.uid # p.owner)

PodCollected(r) ==
    /\ Orphan(pods[r]) /\ ~pods[r].deleting
    /\ PodStep(r, Deleted(pods[r]))

\* The kubelet has stopped the containers of a deleted pod.
PodRemoved(r) ==
    /\ pods[r] # Absent /\ pods[r].deleting
    /\ PodStep(r, Absent)

Kubelet ==
    \E r \in Roles :
        \/ \E n \in Nodes : Schedule(r, n)
        \/ BecomeReady(r) \/ BecomeUnready(r) \/ PodFails(r)
        \/ PodDeleted(r) \/ PodCollected(r) \/ PodRemoved(r)

-----------------------------------------------------------------------------

Init ==
    /\ sci = Absent /\ pods = NoPods
    /\ sciCache = Absent /\ podCache = NoPods
    /\ sciLag = <<>> /\ podLag = <<>>
    /\ queued = FALSE /\ pc = "idle" /\ mem = NoMem

\* The event of an informer that is not in Lagging is delivered before
\* anything else happens, and so is an event that leaves more than MaxBehind
\* informers behind.
InSync ==
    /\ "sci" \notin Lagging => sciLag = <<>>
    /\ "pods" \notin Lagging => podLag = <<>>
    /\ MaxBehind = 1 => sciLag = <<>> \/ podLag = <<>>

Controller == InSync /\ Reconcile
Cluster    == InSync /\ (Owner \/ Kubelet)

Next == Controller \/ DeliverSci \/ DeliverPods \/ Cluster

Spec == Init /\ [][Next]_vars

\* The work queue hands out every request, watch events arrive, and a
\* kubelet finishes the termination of a deleted pod.
Fairness ==
    /\ WF_vars(Controller)
    /\ WF_vars(DeliverSci)
    /\ WF_vars(DeliverPods)
    /\ \A r \in Roles : WF_vars(PodRemoved(r))

FairSpec == Spec /\ Fairness

-----------------------------------------------------------------------------
(* Properties *)

TypeOK ==
    /\ sci \in SciObjects \cup {Absent}
    /\ sciCache \in SciObjects \cup {Absent}
    /\ pods \in PodSets /\ podCache \in PodSets
    /\ sciLag \in Seq(SciObjects \cup {Absent}) /\ Len(sciLag) <= MaxLag
    /\ podLag \in Seq(PodSets) /\ Len(podLag) <= MaxLag
    /\ queued \in BOOLEAN
    /\ pc \in {"idle", "updatePhase"}
    /\ mem \in [sci : SciObjects \cup {Absent}, phase : Phases, nodeName : NodeNames]

\* Nothing is in flight: no Reconcile runs, none is requested, and the
\* caches have seen every write.
Quiescent ==
    pc = "idle" /\ ~queued /\ sciLag = <<>> /\ podLag = <<>>

AtRest == Quiescent /\ sci # Absent

\* While an Instance is in a phase that is not Running, Stopped or Failed
\* the controller is never at rest: every return of Reconcile and of
\* updatePhase on such a path asks for another Reconcile, also after a
\* refused write and after AlreadyExists.
RestsOnlyWhenSettled ==
    AtRest => sci.phase \in SettledPhases

\* When the controller is at rest on an Instance it reports Running, the
\* Instance is wanted running and both pods exist and are Ready: whatever
\* happened to a pod after Running was written has woken the reconciler
\* through the pod watch of SetupWithManager.
RunningMeansBothReady ==
    AtRest /\ sci.phase = "Running" =>
        /\ sci.running
        /\ \A r \in Roles : pods[r] # Absent /\ IsPodReady(pods[r])

\* When the controller is at rest on an Instance it reports Stopped, the
\* provider pod exists and is Ready and there is no consumer pod:
\* Reconcile writes Stopped only after its Get of the consumer pod has
\* returned NotFound, and Stopping until then.
StoppedMeansProviderOnly ==
    AtRest /\ sci.phase = "Stopped" =>
        /\ ~sci.running
        /\ pods["provider"] # Absent /\ IsPodReady(pods["provider"])
        /\ pods["consumer"] = Absent

\* The reconciler deletes a provider pod only when the Instance that owns
\* the pod is being deleted or is gone: stopping an Instance goes through
\* the same Delete call as its deletion and must leave the pod that holds
\* the root filesystem, also when the reconciler acts on a cached Instance.
ProviderGoes ==
    /\ pods["provider"] # Absent
    /\ pods'["provider"] # pods["provider"]

ProviderOutlivesStop ==
    [][Reconcile /\ ProviderGoes => (Orphan(pods["provider"]) \/ sci.deleting)]_vars

\* The pods of role r that the Instance in the API server owns.
Owned(r) == pods[r] # Absent /\ sci # Absent /\ pods[r].owner = sci.uid

\* The finalizer and with it the Instance go.
InstanceLeaves == sci # Absent /\ sci' = Absent /\ sci.finalizer

\* An Instance with the finalizer leaves the API server only when none of
\* its pods is left there: handleDeletion removes the finalizer after its
\* Gets of both pods have returned NotFound.
DeletionWaitsForPods ==
    [][InstanceLeaves => \A r \in Roles : ~Owned(r)]_vars

\* The consumer pod of an Instance runs on the node that status.nodeName
\* names: Reconcile copies the provider pod's node into status.nodeName and
\* createConsumerPod pins the consumer pod to it.
ConsumerOnProviderNode ==
    Owned("consumer") /\ sci.nodeName # NoNode
        => pods["consumer"].node = sci.nodeName

Deleting == sci # Absent /\ sci.deleting

\* From some time on the owner leaves spec.running alone.
OwnerSettles == <>[][~SetRunning]_vars

\* Once the owner stops changing spec.running, an Instance that is being
\* deleted leaves the API server: handleDeletion deletes the consumer pod,
\* then the provider pod, asks for another Reconcile after each, and removes
\* the finalizer when both Gets return NotFound.
DeletionCompletes ==
    OwnerSettles => (Deleting ~> sci = Absent)

\* The Instance is wanted stopped and its provider pod is Ready.
StopWanted ==
    /\ sci # Absent /\ ~sci.deleting /\ sci.finalizer /\ ~sci.running
    /\ Owned("provider") /\ IsPodReady(pods["provider"])
    /\ ~pods["provider"].deleting

\* If from some time on the Instance stays wanted stopped with a Ready
\* provider pod, then from some time on it is reported Stopped and has no
\* consumer pod: the !Running branch of Reconcile deletes the consumer pod,
\* reports Stopping while the pod terminates and Stopped after that.
StopConverges ==
    <>[]StopWanted =>
        <>[](StopWanted /\ sci.phase = "Stopped" /\ pods["consumer"] = Absent)

\* The names of the template's volumes are distinct, stay distinct when
\* "rootfs" is added to one of them, every mount of the container names a
\* volume of the template, and no init container mounts a volume.
WellNamed(t) ==
    /\ Admitted(t.volumes, t.mounts)
    /\ \A v, w \in Range(t.volumes) : v # w \o <<"rootfs">>
    /\ t.initMounts = <<>>

\* The Instance is wanted running with a template of well-named volumes,
\* its provider pod is Ready, and its consumer pod, if there is one, has
\* not failed.
StartWanted ==
    /\ sci # Absent /\ ~sci.deleting /\ sci.finalizer /\ sci.running
    /\ WellNamed(sci.template)
    /\ Owned("provider") /\ IsPodReady(pods["provider"])
    /\ ~pods["provider"].deleting
    /\ pods["consumer"] # Absent =>
          Owned("consumer") /\ ~IsPodFailed(pods["consumer"])

ConsumerUp == Owned("consumer") /\ IsPodReady(pods["consumer"])

\* If from some time on the Instance stays wanted running with a Ready
\* provider pod, then from some time on it has a consumer pod and is
\* reported ConsumerStarting or Running, and if the consumer pod stays Ready
\* it is reported Running: the Running branch of Reconcile creates the
\* consumer pod on the provider's node, with the names buildVolumes and
\* buildVolumeMounts give the volumes and mounts of the template, and
\* updatePhase asks for another Reconcile until the pod is Ready, whatever
\* the cache showed on the way.  Nothing is said of a template whose init
\* containers mount volumes: buildInitContainers leaves their mounts
\* unrenamed and the pod is refused.
StartConverges ==
    /\ <>[]StartWanted =>
          <>[](Owned("consumer") /\ sci.phase \in {"ConsumerStarting", "Running"})
    /\ <>[](StartWanted /\ ConsumerUp) =>
          <>[](ConsumerUp /\ sci.phase = "Running")

\* The reconciler keeps to its side of the Instance: every change of the
\* object in the API server is one the contract with the owner allows.  The
\* finalizer is put on and taken off by the rules, spec.running is never
\* written, and a phase is stored only when it is one of what spec.running
\* asks for at that moment, also when Reconcile computed it from a cached
\* copy and the owner has started or stopped the Instance since: updatePhase
\* is then refused.
ImplementsContract == Contract!Spec

=============================================================================
