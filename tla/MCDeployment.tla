---------------------------- MODULE MCDeployment ----------------------------
(* Small instances of Deployment. *)
EXTENDS Deployment

Anywhere == Steps
OutsideTheWindow == Steps \ Window
=============================================================================
