------------------------ MODULE MCWorkloadController ------------------------
(***************************************************************************)
(* WorkloadController for model checking.                                  *)
(***************************************************************************)
EXTENDS WorkloadController

=============================================================================
