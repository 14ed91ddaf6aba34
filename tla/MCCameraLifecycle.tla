-------------------------- MODULE MCCameraLifecycle --------------------------
(***************************************************************************)
(* CameraLifecycle on a small instance.  There is no symmetry: the runs    *)
(* are of liveness, or end after a few states.                             *)
(***************************************************************************)
EXTENDS CameraLifecycle
=============================================================================
