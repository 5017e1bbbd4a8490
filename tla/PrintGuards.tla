----------------------------- MODULE PrintGuards -----------------------------
(***************************************************************************)
(* The decisions that let a PDF through to the printer: the preflight on   *)
(* what pdfinfo says (domain/PdfPreflight.ts), the copies guard, the guard *)
(* on the final driver's output and the accounting that is released with   *)
(* it (domain/CupsFilterOutputGuard.ts).                                   *)
(*                                                                         *)
(* Text is modelled by what the regular expressions find in it: a field    *)
(* of pdfinfo by its parsed value, the driver's stderr by how many lines    *)
(* of each kind it has (no decision looks at their order), the head of its *)
(* output by whether it switches blank pages off.                          *)
(***************************************************************************)
EXTENDS Integers, FiniteSetsExt

CONSTANTS MaxBytesPerPage, MaxTotalBytes   \* the limits of the output guard

NotFound == -1      \* the code's null for a number

-----------------------------------------------------------------------------
(* Preflight *)

\* pdfinfo: exitCode (0, or another when it failed, timed out or did not run),
\* the Encrypted field ("no", "yes", "other" for any other text or none) and
\* the number parseInt reads in the Pages field, NotFound if there is none.
PdfInfo(exitCode, encrypted, pages) ==
  [exitCode |-> exitCode, encrypted |-> encrypted, pages |-> pages]

PositiveOrNotFound(n) == IF n > 0 THEN n ELSE NotFound

decidePdfPreflight(info) ==
  IF info.exitCode # 0 THEN "pdfinfo-failed"
  ELSE IF info.encrypted = "yes" THEN "encrypted"
  ELSE IF info.encrypted # "no" THEN "missing-encryption-status"
  ELSE IF PositiveOrNotFound(info.pages) = NotFound THEN "missing-page-count"
  ELSE "accepted"

-----------------------------------------------------------------------------
(* The guard on the output of the final driver *)

\* copies is the number parseInt reads in the argument, NotFound if none.
decideCupsCopiesGuard(copies) ==
  IF PositiveOrNotFound(copies) = 1 THEN "accepted" ELSE "invalid-copies"

\* The kinds of stderr lines: a page log, a page log with blanks before it
\* (found by the accounting, which trims, but not by the count), a progress
\* attribute, and the rest.
LineKinds == {"page", "indented-page", "progress", "other"}
Stderr == [LineKinds -> Nat]
NoLines == [kind \in LineKinds |-> 0]

\* What the final driver leaves behind: the size of its output, its stderr,
\* and whether the first 4096 bytes hold the blank page suppression command.
DriverOutput(bytes, stderr, suppressed) ==
  [bytes |-> bytes, stderr |-> stderr, suppressed |-> suppressed]

NoOutput == DriverOutput(0, NoLines, FALSE)

countCupsPageLogEntries(stderr) == stderr["page"]

extractCupsJobAccounting(stderr) == [stderr EXCEPT !["other"] = 0]

maxBytes(pages) == Min({pages * MaxBytesPerPage, MaxTotalBytes})

decideSplOutputGuard(pdfPages, copies, spl) ==
  LET observedPages == countCupsPageLogEntries(spl.stderr)
  IN  IF decideCupsCopiesGuard(copies) # "accepted" THEN "invalid-copies"
      ELSE IF spl.bytes = 0 THEN "empty-output"
      ELSE IF observedPages = 0 THEN "missing-page-log"
      ELSE IF observedPages # pdfPages THEN "unexpected-page-count"
      ELSE IF spl.bytes > maxBytes(pdfPages) THEN "oversized-output"
      ELSE "accepted"

\* Mutant of DriverOutputAccepted: the header is not checked.
OutputGuardOnly(pdfPages, copies, spl) ==
  decideSplOutputGuard(pdfPages, copies, spl) = "accepted"

\* The guard and the header check that follows it (validateSplBlankPageSuppression).
DriverOutputAccepted(pdfPages, copies, spl) ==
  /\ decideSplOutputGuard(pdfPages, copies, spl) = "accepted"
  /\ spl.suppressed

-----------------------------------------------------------------------------
\* What may reach the printer (docs/adr-0001): one copy of a readable, unprotected
\* PDF, as a driver output of bounded size that has a page log for each of its
\* pages and skips blank pages.
Printable(doc, output) ==
  /\ doc.pdfinfo.exitCode = 0 /\ doc.pdfinfo.encrypted = "no"
  /\ doc.pdfinfo.pages > 0 /\ doc.copies = 1
  /\ countCupsPageLogEntries(output.stderr) = doc.pdfinfo.pages
  /\ output.bytes <= doc.pdfinfo.pages * MaxBytesPerPage
  /\ output.bytes <= MaxTotalBytes
  /\ output.suppressed
=============================================================================
