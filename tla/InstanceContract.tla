-------------------------- MODULE InstanceContract --------------------------
(***************************************************************************)
(* The StoppableContainerInstance as the interface between the two         *)
(* controllers.  The Workload controller, kubectl and the garbage          *)
(* collector are its owner: they create it, set spec.running and delete    *)
(* it.  The Instance controller holds the finalizer and writes the phase.  *)
(* Each side may do to the object only what is written here, and each      *)
(* controller is checked against an environment that does no more.         *)
(*                                                                         *)
(* The operators take the object as an argument and use EXCEPT, so that    *)
(* the modules of the controllers apply them to their own records, which   *)
(* carry more fields.                                                      *)
(***************************************************************************)
CONSTANT Absent   \* no such object

VARIABLE inst     \* the Instance in the API server, or Absent

NoPhase == ""
Phases  == {NoPhase, "Pending", "ProviderStarting", "ProviderReady",
            "ConsumerStarting", "Running", "Stopping", "Stopped", "Failed"}

Objects == [finalizer : BOOLEAN, deleting : BOOLEAN, running : BOOLEAN,
            phase : Phases]

-----------------------------------------------------------------------------
(* The owner's side *)

\* createInstance: a new Instance is wanted running and has no status.
Created ==
    [finalizer |-> FALSE, deleting |-> FALSE, running |-> TRUE,
     phase |-> NoPhase]

\* Update of spec.running, to the value it does not have.
Toggled(i) == [i EXCEPT !.running = ~@]

\* Delete: an object with a finalizer is marked, one without is gone.
CanDelete(i)   == i # Absent /\ ~i.deleting
AfterDelete(i) == IF i.finalizer THEN [i EXCEPT !.deleting = TRUE] ELSE Absent

OwnerStep ==
    \/ inst = Absent /\ inst' = Created
    \/ inst # Absent /\ inst' = Toggled(inst)
    \/ CanDelete(inst) /\ inst' = AfterDelete(inst)

-----------------------------------------------------------------------------
(* The Instance controller's side *)

\* The finalizer is put on an Instance that is not being deleted.
CanAddFinalizer(i) == i # Absent /\ ~i.deleting /\ ~i.finalizer
WithFinalizer(i)   == [i EXCEPT !.finalizer = TRUE]

\* The phases Reconcile writes for an Instance that is wanted running, and
\* for one that is wanted stopped.
Reportable(running) ==
    IF running THEN {"ProviderStarting", "ConsumerStarting", "Running", "Failed"}
               ELSE {"ProviderStarting", "Stopping", "Stopped"}

\* The phase is written on an Instance that has the finalizer and stays,
\* and it is a phase of what spec.running asks for at the time of the write.
CanReport(i) == i # Absent /\ ~i.deleting /\ i.finalizer
Reports(i)   == {[i EXCEPT !.phase = p] : p \in Reportable(i.running)}

\* The finalizer is taken off an Instance that is being deleted, which
\* removes the object.
CanGo(i) == i # Absent /\ i.deleting

ControllerStep ==
    \/ CanAddFinalizer(inst) /\ inst' = WithFinalizer(inst)
    \/ CanReport(inst) /\ inst' \in Reports(inst)
    \/ CanGo(inst) /\ inst' = Absent

-----------------------------------------------------------------------------

Init == inst = Absent

Next == OwnerStep \/ ControllerStep

Spec == Init /\ [][Next]_inst

=============================================================================
