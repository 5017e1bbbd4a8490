----------------------------- MODULE MCCupsSetup -----------------------------
(* Small instances of CupsSetup. *)
EXTENDS CupsSetup

AllModes == {"enable", "safe", "stop", "artifacts"}
OnlyEnable == {"enable"}

\* A host without the queue, and one whose queue an earlier activation exposed.
Fresh == {NoQueue}
Exposed == {Queue(TRUE, TRUE, TRUE, "old", "other")}
FreshOrExposed == Fresh \cup Exposed
=============================================================================
