--------------------------- MODULE MCFileBrowser ----------------------------
(* An instance of FileBrowser for TLC: "d/x (2).jpg", which no browser can     *)
(* decode, "d/x.jpg" and "x.png".  The word 0 stands for "x", 1 for "d".       *)
EXTENDS FileBrowser

MCFileStem == <<<<0, 2>>, <<0>>, <<0>>>>
MCFileName == <<<<10>>, <<11>>, <<12>>>>
MCFolderName == <<1>>
MCArchiveName == <<13>>

(* A bound: of two changes, an upload and a trouble at most three in one run.  *)
Few == Cardinality(calls) + uploads + mishaps <= 3
MCSpec == BrowserInit /\ [][BrowserNext /\ Few']_bvars
=============================================================================
