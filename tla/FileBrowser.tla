----------------------------- MODULE FileBrowser -----------------------------
(* The page of the file browser, one part at a time: its lists, dialogs and    *)
(* changes, and its upload dialog.  The parts meet in the folder the page      *)
(* shows, which the upload dialog only reads (here: place), so their states    *)
(* are added up and not multiplied.                                            *)
EXTENDS FilesPage, UploadDialog

VARIABLE screen   \* the part this behaviour is of

bvars == <<screen, fvars, dialogVars>>

BrowserInit ==
  /\ screen \in {"files", "upload"}
  /\ FilesInit /\ DialogInit
  /\ screen = "files" => place = "/"
  /\ screen = "upload" => route = "/"

BrowserNext ==
  \/ screen = "files" /\ FilesNext /\ UNCHANGED <<screen, dialogVars>>
  \/ screen = "upload" /\ DialogNext /\ UNCHANGED <<screen, fvars>>

BrowserSpec == BrowserInit /\ [][BrowserNext]_bvars
=============================================================================
