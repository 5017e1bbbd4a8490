------------------------------ MODULE PrintJob ------------------------------
(***************************************************************************)
(* What the two processes of a job promise together, whatever order they   *)
(* run in and whoever is killed: one output is let through to the pipe,    *)
(* and only a printable one; the transfer starts once it is settled how    *)
(* much of it the printer gets, and whether it is accounted for, which     *)
(* then no longer changes; nothing that is accounted for is transferred in *)
(* part; and a job only counts as printed when the printer has all of it   *)
(* and cupsd the accounting.                                               *)
(***************************************************************************)
EXTENDS PrintGuards

CONSTANTS Documents, DriverOutputs

VARIABLES
  state,        \* "idle", "filtering", "sending", and then "printed" or "failed"
  document,     \* the document of the job
  output,       \* the output let through, NoOutput before
  accounting,   \* what cupsd has to account for
  payload,      \* the units a transfer that runs has to send
  delivered     \* the units the printer has taken

jobVars == <<state, document, output, accounting, payload, delivered>>

Init ==
  /\ state = "idle" /\ document \in Documents /\ output = NoOutput
  /\ accounting = NoLines /\ payload = 0 /\ delivered = 0

Start ==
  /\ state \in {"idle", "printed", "failed"}
  /\ state' = "filtering"
  /\ document' \in Documents
  /\ output' = NoOutput /\ accounting' = NoLines /\ payload' = 0 /\ delivered' = 0

Release ==
  /\ state = "filtering" /\ output = NoOutput
  /\ output' \in {spl \in DriverOutputs : Printable(document, spl)}
  /\ UNCHANGED <<state, document, accounting, payload, delivered>>

Account ==
  /\ state = "filtering" /\ output # NoOutput /\ accounting = NoLines
  /\ accounting' = extractCupsJobAccounting(output.stderr)
  /\ UNCHANGED <<state, document, output, payload, delivered>>

Transfer ==
  /\ state = "filtering" /\ output # NoOutput
  /\ state' = "sending"
  /\ payload' \in 1..output.bytes
  /\ accounting # NoLines => payload' = output.bytes
  /\ UNCHANGED <<document, output, accounting, delivered>>

Deliver ==
  /\ state = "sending" /\ delivered < payload
  /\ delivered' = delivered + 1
  /\ UNCHANGED <<state, document, output, accounting, payload>>

Succeed ==
  /\ state = "sending" /\ delivered = output.bytes /\ accounting # NoLines
  /\ state' = "printed" /\ payload' = 0
  /\ UNCHANGED <<document, output, accounting, delivered>>

Fail ==
  /\ state \in {"filtering", "sending"}
  /\ state' = "failed" /\ payload' = 0
  /\ UNCHANGED <<document, output, accounting, delivered>>

Next == Start \/ Release \/ Account \/ Transfer \/ Deliver \/ Succeed \/ Fail

Spec == Init /\ [][Next]_jobVars
=============================================================================
