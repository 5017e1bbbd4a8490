-------------------------- MODULE MCCupsEventStream --------------------------
(* Small instances of CupsEventStream. *)
EXTENDS CupsEventStream

CONSTANT j1

Trouble(printer, outages, refusals, unanswered, uncancelled, stops, crashes) ==
  [printer |-> printer, outages |-> outages, refusals |-> refusals,
   unanswered |-> unanswered, uncancelled |-> uncancelled, stops |-> stops,
   crashes |-> crashes]

\* Every kind of trouble once.
MCLimits == Trouble(1, 1, 1, 1, 1, 1, 1)

\* A CUPS that twice answers with an error, and nothing else goes wrong.
RefusingLimits == Trouble(0, 0, 2, 0, 0, 0, 0)
=============================================================================
