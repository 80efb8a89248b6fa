------------------------- MODULE WorkloadController -------------------------
(***************************************************************************)
(* The reconciler of one StoppableContainer (StoppableContainerReconciler, *)
(* the Workload controller) together with what it talks to: the API        *)
(* server's copy of the Workload and of the Instance of the same name, the *)
(* informer cache it reads from, its work queue, the kubectl-sc commands   *)
(* that create, start, stop and delete the Workload, the Instance          *)
(* controller, seen through what it writes into the Instance, and the      *)
(* garbage collector.                                                      *)
(*                                                                         *)
(* One Reconcile call is one branch action: the Gets, answered by the      *)
(* cache, and the first API write of the branch.  Where a branch writes    *)
(* the Instance and then the Workload's status, the second write is        *)
(* StatusStep and everything else may happen in between.                   *)
(***************************************************************************)
EXTENDS Naturals, Sequences

CONSTANTS
    Absent,      \* the answer NotFound: no such object
    MaxLag,      \* bound: watch events a cache may be behind the API server
    MaxUid,      \* bound: Workload UIDs remembered somewhere at one time
    Lagging      \* bound: the informers whose cache may be behind

ASSUME /\ MaxLag \in Nat \ {0} /\ MaxUid \in Nat \ {0}
       /\ Lagging \subseteq {"sc", "sci"}

VARIABLES
    sc,         \* API server: the Workload object, or Absent
    sci,        \* API server: the Instance object, or Absent
    scCache,    \* informer cache: the Workload as last delivered
    sciCache,   \* informer cache: the Instance as last delivered
    scLag,      \* Workload watch events not yet delivered, oldest first
    sciLag,     \* Instance watch events not yet delivered, oldest first
    queued,     \* work queue: a request for this Workload is waiting
    pc,         \* reconciler: "idle", or "status" between two writes
    mem         \* reconciler: the Workload it read and the status to write

store      == <<sc, scLag, sci, sciLag>>
caches     == <<scCache, sciCache>>
reconciler == <<queued, pc, mem>>
vars       == <<sc, sci, scCache, sciCache, scLag, sciLag, queued, pc, mem>>

NoPhase == ""
\* Phase, the phase of a Workload.
ScPhases == {NoPhase, "Pending", "ProviderReady", "Running", "Stopped", "Failed"}
\* InstancePhase, the phase of an Instance.
InstancePhases ==
    {NoPhase, "Pending", "ProviderStarting", "ProviderReady", "ConsumerStarting",
     "Running", "Stopping", "Stopped", "Failed"}
\* updateStatusFromInstance does not ask for another Reconcile in these.
SettledPhases == {"Running", "Stopped", "Failed"}

Uids == 1..MaxUid
ScObjects  == [uid : Uids, finalizer : BOOLEAN, deleting : BOOLEAN,
               running : BOOLEAN, phase : ScPhases]
SciObjects == [owner : Uids, finalizer : BOOLEAN, deleting : BOOLEAN,
               running : BOOLEAN, phase : InstancePhases]

NoMem == [sc |-> Absent, phase |-> NoPhase, requeue |-> FALSE]

-----------------------------------------------------------------------------
(* Pure helpers of the controller *)

\* Seeded fault: the phase of the Instance is copied as it is.
ProjectVerbatim(phase) == phase

\* updateStatusFromInstance: the switch from Instance phase to Workload phase.
Project(phase) ==
    CASE phase \in {"Pending", "ProviderStarting"}        -> "Pending"
      [] phase \in {"ProviderReady", "ConsumerStarting"}  -> "ProviderReady"
      [] phase = "Running"                                -> "Running"
      [] phase \in {"Stopping", "Stopped"}                -> "Stopped"
      [] phase = "Failed"                                 -> "Failed"
      [] OTHER                                            -> "Pending"

\* createInstance: the Instance of a Workload, owned by it and running.
NewInstance(owner) ==
    [owner |-> owner.uid, finalizer |-> FALSE, deleting |-> FALSE,
     running |-> TRUE, phase |-> NoPhase]

-----------------------------------------------------------------------------
(* The API server and the informer *)

\* A watch event joins the undelivered ones; at the bound the newest
\* undelivered event is overwritten, so that writers are never blocked.
Push(lag, obj) ==
    IF Len(lag) < MaxLag THEN Append(lag, obj) ELSE [lag EXCEPT ![MaxLag] = obj]

ScWrite(new) ==
    /\ sc' = new
    /\ scLag' = IF new = sc THEN scLag ELSE Push(scLag, new)

SciWrite(new) ==
    /\ sci' = new
    /\ sciLag' = IF new = sci THEN sciLag ELSE Push(sciLag, new)

\* Delete of an object: with a finalizer it is only marked.
Deleted(obj) ==
    IF obj = Absent THEN Absent
    ELSE IF obj.finalizer THEN [obj EXCEPT !.deleting = TRUE] ELSE Absent

\* For(&StoppableContainer{}): a Workload event refreshes the cache and
\* enqueues a request.
DeliverSc ==
    /\ scLag # <<>>
    /\ scCache' = Head(scLag)
    /\ scLag' = Tail(scLag)
    /\ queued' = TRUE
    /\ UNCHANGED <<sc, sci, sciLag, sciCache, pc, mem>>

\* Seeded fault: the Instance is watched for the cache only, without Owns
\* and without the mapping to the Workload named in its spec.
DeliverSciUnmapped ==
    /\ sciLag # <<>>
    /\ sciCache' = Head(sciLag)
    /\ sciLag' = Tail(sciLag)
    /\ UNCHANGED <<sc, scLag, sci, scCache, reconciler>>

\* Owns and Watches(&StoppableContainerInstance{}): an Instance event
\* refreshes the cache and enqueues a request for the Workload it names.
DeliverSci ==
    /\ sciLag # <<>>
    /\ sciCache' = Head(sciLag)
    /\ sciLag' = Tail(sciLag)
    /\ queued' = TRUE
    /\ UNCHANGED <<sc, scLag, sci, scCache, pc, mem>>

-----------------------------------------------------------------------------
(* Reconcile *)

\* What the Gets of Reconcile and of handleDeletion return.
vsc  == scCache
vsci == sciCache

\* A worker takes the request for this Workload.
Start == pc = "idle" /\ queued

\* Past the deletion branch and the finalizer branch of Reconcile.
Live == vsc # Absent /\ ~vsc.deleting /\ vsc.finalizer

\* In handleDeletion, past its finalizer test.
Leaving == vsc # Absent /\ vsc.deleting /\ vsc.finalizer

\* Reconcile returns; `requeue' stands for Requeue, RequeueAfter and an error.
\* A request that arrived while Reconcile was running stays in the queue.
Done(requeue) ==
    /\ pc' = "idle"
    /\ queued' = (requeue \/ (pc = "status" /\ queued))
    /\ mem' = NoMem

\* The Instance is written and the status of the Workload is still to come.
ThenStatus(phase, requeue) ==
    /\ pc' = "status"
    /\ mem' = [sc |-> vsc, phase |-> phase, requeue |-> requeue]
    /\ queued' = FALSE

\* Status().Update of the Workload read by this Reconcile; it is refused
\* when the API server's copy is no longer the one that was read.
UpdateStatus(obj, phase, requeue) ==
    IF sc = obj
      THEN ScWrite([sc EXCEPT !.phase = phase]) /\ Done(requeue)
      ELSE UNCHANGED <<sc, scLag>> /\ Done(TRUE)

\* The Workload is gone, or is going and no longer ours to clean up.
NothingToDo == IF vsc = Absent THEN TRUE ELSE vsc.deleting /\ ~vsc.finalizer

ReconcileGone ==
    /\ Start /\ NothingToDo
    /\ Done(FALSE)
    /\ UNCHANGED <<store, caches>>

\* Seeded fault: handleDeletion waits for the Instance to go and leaves its
\* deletion to the garbage collector.
DeleteInstanceAwaited ==
    /\ Start
    /\ Leaving /\ vsci # Absent
    /\ Done(TRUE)
    /\ UNCHANGED <<store, caches>>

\* handleDeletion while the Instance is there: Delete by name, NotFound is
\* tolerated, and another Reconcile after a second.
DeleteInstance ==
    /\ Start
    /\ Leaving /\ vsci # Absent
    /\ SciWrite(Deleted(sci))
    /\ Done(TRUE)
    /\ UNCHANGED <<sc, scLag, caches>>

\* handleDeletion when no Instance is found: the finalizer goes, and with it
\* the object, which was only waiting for that.
RemoveFinalizer ==
    /\ Start
    /\ Leaving /\ vsci = Absent
    /\ IF sc = vsc
         THEN ScWrite(Absent) /\ Done(FALSE)
         ELSE UNCHANGED <<sc, scLag>> /\ Done(TRUE)
    /\ UNCHANGED <<sci, sciLag, caches>>

AddFinalizer ==
    /\ Start
    /\ vsc # Absent /\ ~vsc.deleting /\ ~vsc.finalizer
    /\ IF sc = vsc
         THEN ScWrite([sc EXCEPT !.finalizer = TRUE])
         ELSE UNCHANGED <<sc, scLag>>
    /\ Done(TRUE)
    /\ UNCHANGED <<sci, sciLag, caches>>

\* createInstance: Create, where AlreadyExists asks for another Reconcile,
\* then phase Pending and another Reconcile after a second.
CreateInstance ==
    /\ Start
    /\ Live /\ vsc.running /\ vsci = Absent
    /\ IF sci # Absent
         THEN UNCHANGED <<sci, sciLag>> /\ Done(TRUE)
         ELSE SciWrite(NewInstance(vsc)) /\ ThenStatus("Pending", TRUE)
    /\ UNCHANGED <<sc, scLag, caches>>

\* The Instance has the spec.running of the Workload, or there is none and
\* none is wanted.
Propagated(w, i) ==
    IF i = Absent THEN ~w.running ELSE i.running = w.running

\* Seeded fault: the branch that stops the Instance deletes it.
SetInstanceRunningOrDelete ==
    /\ Start
    /\ Live /\ vsci # Absent /\ ~Propagated(vsc, vsci)
    /\ IF sci = vsci
         THEN /\ SciWrite(IF vsc.running THEN [sci EXCEPT !.running = TRUE]
                                         ELSE Deleted(sci))
              /\ ThenStatus(Project(vsci.phase),
                            Project(vsci.phase) \notin SettledPhases)
         ELSE UNCHANGED <<sci, sciLag>> /\ Done(TRUE)
    /\ UNCHANGED <<sc, scLag, caches>>

\* Seeded fault: the copy from the cache is stored whatever the API server
\* holds by now.
SetInstanceRunningForced ==
    /\ Start
    /\ Live /\ vsci # Absent /\ ~Propagated(vsc, vsci)
    /\ IF sci # Absent
         THEN /\ SciWrite([vsci EXCEPT !.running = vsc.running])
              /\ ThenStatus(Project(vsci.phase),
                            Project(vsci.phase) \notin SettledPhases)
         ELSE UNCHANGED <<sci, sciLag>> /\ Done(TRUE)
    /\ UNCHANGED <<sc, scLag, caches>>

\* Both branches on sc.Spec.Running with an Instance that wants the other:
\* Update of the Instance read, then updateStatusFromInstance of that copy.
SetInstanceRunning ==
    /\ Start
    /\ Live /\ vsci # Absent /\ ~Propagated(vsc, vsci)
    /\ IF sci = vsci
         THEN /\ SciWrite([sci EXCEPT !.running = vsc.running])
              /\ ThenStatus(Project(vsci.phase),
                            Project(vsci.phase) \notin SettledPhases)
         ELSE UNCHANGED <<sci, sciLag>> /\ Done(TRUE)
    /\ UNCHANGED <<sc, scLag, caches>>

\* updateStatusFromInstance for an Instance that needs no change.
ReportInstance ==
    /\ Start
    /\ Live /\ vsci # Absent /\ Propagated(vsc, vsci)
    /\ UpdateStatus(vsc, Project(vsci.phase), Project(vsci.phase) \notin SettledPhases)
    /\ UNCHANGED <<sci, sciLag, caches>>

\* updateStatusStopped: no Instance and none wanted.
ReportStopped ==
    /\ Start
    /\ Live /\ vsci = Absent /\ ~vsc.running
    /\ UpdateStatus(vsc, "Stopped", FALSE)
    /\ UNCHANGED <<sci, sciLag, caches>>

\* Seeded fault: a refused update of the status is tried again with the
\* copy it was refused for.
StatusStepRetried ==
    /\ pc = "status"
    /\ IF sc = mem.sc
         THEN ScWrite([sc EXCEPT !.phase = mem.phase]) /\ Done(mem.requeue)
         ELSE UNCHANGED <<sc, scLag, reconciler>>
    /\ UNCHANGED <<sci, sciLag, caches>>

StatusStep ==
    /\ pc = "status"
    /\ UpdateStatus(mem.sc, mem.phase, mem.requeue)
    /\ UNCHANGED <<sci, sciLag, caches>>

Reconcile ==
    \/ ReconcileGone \/ DeleteInstance \/ RemoveFinalizer \/ AddFinalizer
    \/ CreateInstance \/ SetInstanceRunning \/ ReportInstance
    \/ ReportStopped \/ StatusStep

-----------------------------------------------------------------------------
(* kubectl-sc: create, start, stop, delete *)

\* The UIDs some object, cached copy or undelivered event still carries.
Remembered ==
    LET scs  == {sc, scCache, mem.sc} \cup {scLag[i] : i \in DOMAIN scLag}
        scis == {sci, sciCache} \cup {sciLag[i] : i \in DOMAIN sciLag}
    IN  {o.uid : o \in scs \ {Absent}} \cup {o.owner : o \in scis \ {Absent}}

\* A new object gets a UID nothing remembers: the least such one.
Fresh(u) == u \in Uids \ Remembered /\ \A w \in Uids \ Remembered : u <= w

UserStep(new) ==
    /\ ScWrite(new)
    /\ UNCHANGED <<sci, sciLag, caches, reconciler>>

\* createCmd: kubectl apply of a manifest with the --running flag, which
\* creates the Workload, or writes spec.running of the one that exists.
CliCreate ==
    \E running \in BOOLEAN :
        IF sc = Absent
          THEN \E u \in Uids :
                  /\ Fresh(u)
                  /\ UserStep([uid |-> u, finalizer |-> FALSE, deleting |-> FALSE,
                               running |-> running, phase |-> NoPhase])
          ELSE /\ sc.running # running
               /\ UserStep([sc EXCEPT !.running = running])

\* startCmd, stopCmd: Get, return when spec.running is already as wanted,
\* Update of the object read.
CliSetRunning(running) ==
    /\ sc # Absent /\ sc.running # running
    /\ UserStep([sc EXCEPT !.running = running])

\* deleteCmd: kubectl delete.
CliDelete ==
    /\ sc # Absent /\ ~sc.deleting
    /\ UserStep(Deleted(sc))

Cli == CliCreate \/ CliDelete \/ \E running \in BOOLEAN : CliSetRunning(running)

-----------------------------------------------------------------------------
(* The Instance controller, which does what its side of InstanceContract    *)
(* allows, and the garbage collector                                       *)

InstanceStep(new) ==
    /\ SciWrite(new)
    /\ UNCHANGED <<sc, scLag, caches, reconciler>>

\* The Instance without its owner reference, and what the contract lets
\* either side do to it.
Bare(i) ==
    IF i = Absent THEN Absent
    ELSE [finalizer |-> i.finalizer, deleting |-> i.deleting,
          running |-> i.running, phase |-> i.phase]

Contract == INSTANCE InstanceContract WITH inst <- Bare(sci)

InstanceAddsFinalizer ==
    /\ Contract!CanAddFinalizer(sci)
    /\ InstanceStep(Contract!WithFinalizer(sci))

\* Reconcile of the Instance controller writes a phase.
InstanceReports ==
    /\ Contract!CanReport(sci)
    /\ \E new \in Contract!Reports(sci) \ {sci} : InstanceStep(new)

\* handleDeletion of the Instance controller has seen both pods go.
InstanceGoes ==
    /\ Contract!CanGo(sci)
    /\ InstanceStep(Absent)

\* The garbage collector deletes an Instance whose owner no longer exists.
Orphan(i) ==
    /\ i # Absent /\ i.owner \in Uids
    /\ IF sc = Absent THEN TRUE ELSE sc.uid # i.owner

InstanceCollected ==
    /\ Orphan(sci) /\ ~sci.deleting
    /\ InstanceStep(Deleted(sci))

Instance ==
    \/ InstanceAddsFinalizer \/ InstanceReports
    \/ InstanceGoes \/ InstanceCollected

-----------------------------------------------------------------------------

Init ==
    /\ sc = Absent /\ sci = Absent
    /\ scCache = Absent /\ sciCache = Absent
    /\ scLag = <<>> /\ sciLag = <<>>
    /\ queued = FALSE /\ pc = "idle" /\ mem = NoMem

\* The event of an informer that is not in Lagging is delivered before
\* anything else happens.
InSync ==
    /\ "sc" \notin Lagging => scLag = <<>>
    /\ "sci" \notin Lagging => sciLag = <<>>

Controller == InSync /\ Reconcile
Cluster    == InSync /\ (Cli \/ Instance)

Next == Controller \/ DeliverSc \/ DeliverSci \/ Cluster

Spec == Init /\ [][Next]_vars

\* The work queue hands out every request, watch events arrive, and the
\* Instance controller lets an Instance go that is being deleted, which is
\* what DeletionCompletes of InstanceController says of it.
Fairness ==
    /\ WF_vars(Controller)
    /\ WF_vars(DeliverSc)
    /\ WF_vars(DeliverSci)
    /\ WF_vars(InSync /\ InstanceGoes)

FairSpec == Spec /\ Fairness

-----------------------------------------------------------------------------
(* Properties *)

TypeOK ==
    /\ sc \in ScObjects \cup {Absent}
    /\ scCache \in ScObjects \cup {Absent}
    /\ sci \in SciObjects \cup {Absent}
    /\ sciCache \in SciObjects \cup {Absent}
    /\ scLag \in Seq(ScObjects \cup {Absent}) /\ Len(scLag) <= MaxLag
    /\ sciLag \in Seq(SciObjects \cup {Absent}) /\ Len(sciLag) <= MaxLag
    /\ queued \in BOOLEAN
    /\ pc \in {"idle", "status"}
    /\ mem \in [sc : ScObjects \cup {Absent}, phase : ScPhases, requeue : BOOLEAN]

\* Nothing is in flight: no Reconcile runs, none is requested, and the
\* caches have seen every write.
Quiescent ==
    pc = "idle" /\ ~queued /\ scLag = <<>> /\ sciLag = <<>>

\* The Workload is there, has its finalizer and is not being deleted.
Established == sc # Absent /\ ~sc.deleting /\ sc.finalizer

\* When the controller is at rest on a Workload, the Instance has the
\* spec.running of the Workload and the Workload shows the projection of the
\* Instance's phase, or there is no Instance, none is wanted and the phase
\* is Stopped: every write of the Instance controller, also one made
\* between the two writes of a Reconcile, and every refused write of
\* Reconcile lead to another Reconcile.
RestsOnlyWhenProjected ==
    Quiescent /\ Established =>
        /\ Propagated(sc, sci)
        /\ sc.phase = IF sci = Absent THEN "Stopped" ELSE Project(sci.phase)

\* The Instance starts to be deleted, or is deleted at once.
InstanceDeleted ==
    /\ sci # Absent /\ ~sci.deleting
    /\ IF sci' = Absent THEN TRUE ELSE sci'.deleting

\* An Instance, and with it the provider pod that keeps the root
\* filesystem, is deleted only when the Workload that owns it is gone or is
\* being deleted: stopping a Workload sets spec.running of the Instance and
\* keeps it, and handleDeletion, which deletes by name from what the cache
\* shows, never meets the Instance of a Workload that stays.
InstanceKeptWhileOwned ==
    [][InstanceDeleted => ~(Established /\ sc.uid = sci.owner)]_vars

Deleting == sc # Absent /\ sc.deleting

\* From some time on kubectl-sc leaves the Workload alone.
UserSettles == <>[][~Cli]_vars

\* From some time on the Instance controller writes no new phase.
InstanceSettles == <>[][~InstanceReports]_vars

\* Once kubectl-sc leaves it alone, a Workload that is being deleted leaves
\* the API server: handleDeletion deletes the Instance, asks for another
\* Reconcile until its Get of the Instance returns NotFound, and removes the
\* finalizer then, whatever the Instance controller writes on the way.
DeletionCompletes ==
    UserSettles => (Deleting ~> sc = Absent)

\* The Instance wants what the Workload wants, and the Workload shows what
\* the Instance reports.
Projected ==
    /\ Established
    /\ Propagated(sc, sci)
    /\ sc.phase = IF sci = Absent THEN "Stopped" ELSE Project(sci.phase)

\* Once kubectl-sc and the Instance controller have made their last change
\* to a Workload that stays, the controller brings spec.running into the
\* Instance and the phase of the Instance into the Workload and keeps them
\* there: every refused Update and every status computed from a copy that
\* was behind is followed by a Reconcile that reads again.
Converges ==
    UserSettles /\ InstanceSettles /\ <>[]Established => <>[]Projected

\* The Workload controller keeps to the owner's side of the Instance: it
\* creates it wanted running, sets spec.running to the value the Instance
\* does not have, and deletes it; it never writes the finalizer or the
\* status, also when it acts on a cached copy: its Update of an Instance
\* that has changed since is refused.
ImplementsContract == Contract!Spec

=============================================================================
