----------------------------- MODULE MCPrintPath -----------------------------
(* Small instances of PrintPath. *)
EXTENDS PrintPath

Document(pdfinfo, copies) == [pdfinfo |-> pdfinfo, copies |-> copies]

MCDocuments ==
  {Document(PdfInfo(0, "no", 1), 1),
   Document(PdfInfo(0, "no", 2), 1),
   Document(PdfInfo(0, "no", 1), 2),
   Document(PdfInfo(0, "yes", 1), 1),
   Document(PdfInfo(0, "none", 1), 1),
   Document(PdfInfo(0, "no", 0), 1),
   Document(PdfInfo(1, "no", 1), 1)}

Lines(pages, indented, progress, other) ==
  [kind \in LineKinds |-> CASE kind = "page" -> pages
                           [] kind = "indented-page" -> indented
                           [] kind = "progress" -> progress
                           [] kind = "other" -> other]

MCDriverOutputs ==
  {DriverOutput(2, Lines(1, 0, 0, 1), TRUE),
   DriverOutput(2, Lines(2, 0, 1, 0), TRUE),
   DriverOutput(4, Lines(2, 0, 0, 0), TRUE),
   DriverOutput(1, Lines(1, 1, 0, 0), TRUE),
   DriverOutput(2, Lines(1, 0, 0, 0), FALSE),
   DriverOutput(3, Lines(1, 0, 0, 0), TRUE),
   DriverOutput(2, Lines(0, 0, 0, 1), TRUE),
   DriverOutput(0, Lines(1, 0, 0, 0), TRUE)}

\* One good document and what the driver makes of it, for the timed run.
GoodDocuments == {Document(PdfInfo(0, "no", 1), 1)}
GoodOutputs == {DriverOutput(2, Lines(1, 0, 0, 0), TRUE)}
=============================================================================
