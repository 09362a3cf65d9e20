----------------------------- MODULE MCEngines -----------------------------
EXTENDS Engines

CONSTANTS q, poll

MCCallers == {q, poll}

\* Permanent, and good for day 0 only, with a later second date.
MCLicences == {{}, {0, 5}}

Text == [magic |-> "other", mime |-> "none", main |-> "none", streams |-> {},
         ext |-> "none", size |-> 50, pages |-> 0, slides |-> 0, real |-> "none"]

Docx    == [Text EXCEPT !.magic = "zip", !.main = "docx", !.pages = 1, !.size = 250, !.real = "docx"]
Pptx    == [Text EXCEPT !.magic = "zip", !.mime = "odp", !.slides = 2, !.real = "pptx"]
Xlsx    == [Text EXCEPT !.magic = "zip", !.main = "xlsx", !.real = "xlsx"]
Odg     == [Text EXCEPT !.magic = "zip", !.mime = "odg"]
Pdf     == [Text EXCEPT !.magic = "pdf", !.pages = 1, !.real = "pdf"]
BadPdf  == [Text EXCEPT !.magic = "pdf"]
\* A Word document named .xls, its stream names beyond the first 512 KiB.
Mislaid == [Text EXCEPT !.magic = "ole2", !.ext = "xls", !.real = "docx"]
\* A workbook named .doc: the metadata probe counts it as a docx.
Misnamed == [Text EXCEPT !.magic = "ole2", !.ext = "doc", !.real = "xlsx"]
Eml     == [Text EXCEPT !.magic = "eml"]
Html    == [Text EXCEPT !.ext = "html"]

Csv     == [Text EXCEPT !.ext = "csv"]

MCDocs == {Text, Csv, Docx, Pptx, Xlsx, Odg, Pdf, BadPdf, Mislaid, Misnamed, Eml, Html}
=============================================================================
