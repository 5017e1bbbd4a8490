--------------------------- MODULE MCStatusRuntime ---------------------------
(* Small instances of StatusRuntime. *)
EXTENDS StatusRuntime

CONSTANTS heartbeat, http, stream

Attrs(accepting, state, reasons, message) ==
  [acceptingJobs |-> accepting, state |-> state, reasons |-> reasons, message |-> message]

MCTarget == [vendorId |-> "3f0", productId |-> "f22a", serial |-> Null]
Printer(authorized) ==
  [identity |-> [vendorId |-> "3f0", productId |-> "f22a", serial |-> "s1"],
   authorized |-> authorized]
Hub == [identity |-> [vendorId |-> "1d6b", productId |-> "2", serial |-> Null],
        authorized |-> "1"]

\* The host comes and goes, and moves while it stays online.
MCAddressLists == {<<>>, <<"home">>, <<"away">>}

\* A healthy queue, from which an unreadable bus is inferred to hold the printer.  That
\* CUPS cannot be reached is what the stream records.
MCCupsAnswers == {CupsAnswer(Attrs(TRUE, "idle", <<NoReason>>, Null))}
\* The printer comes and goes, and the bus is now and then unreadable.
MCSysfsViews == {Listing(<<Hub, Printer("1")>>), Listing(<<Hub>>), Unreadable}
MCMessages == {"refused"}
=============================================================================
