----------------------------- MODULE FilesPage -----------------------------
(* The file browser of the web application (apps/web/app/features/files): the  *)
(* list of a folder or of the trash, its search, pages, selection and dialogs, *)
(* the changes it asks the server for, which answers at once or with an        *)
(* operation the page follows, and the refresh after uploads.  One controller  *)
(* (files-controller.ts) outlives the pages that are mounted on it.            *)
EXTENDS Naturals, FiniteSets

CONSTANTS MaxActs,     \* bound: things the user does
          MaxCalls,    \* bound: changes asked for
          MaxUploads,  \* bound: uploads that complete
          FileTrouble  \* bound: failed requests and operations, and late uploads

ASSUME FilesAssumption ==
  MaxActs \in Nat /\ MaxCalls \in Nat /\ MaxUploads \in Nat /\ FileTrouble \in Nat

Folders == {"/", "/d"}
Trash == "trash"
Away == "away"          \* another page of the application
Items == {1, 2}         \* what is in the trash at first
LastOffset == 1         \* bound: a folder has two pages
MaxLists == 2           \* bound: requests for a list in flight
None == 0
NoText == ""

VARIABLES
  route,                        \* the page on the screen
  at, search, offset,           \* the controller: its route, query and page
  files, loading, error, lists, \* the folder shown, and the requests for it
  entries, trashLoading, bins,  \* the trash shown, and the requests for it
  asked,                        \* a request for the status is in flight
  query, typing,                \* the search field and its 250 ms timer
  told, refreshDue,             \* folders of completed uploads; the 300 ms timer
  ticked, dialog, picked, chosen, \* selection, dialog, actionTrashIds; what the user chose
  calls,                        \* the changes asked for
  banner, monitor,              \* the operation shown and the one followed
  content, bin,                 \* the server: versions of folders, the trash,
  late,                         \* folders of uploads it still publishes
  known,                        \* the versions the page was told of
  acts, uploads, mishaps

controller == <<at, search, offset>>
folderShown == <<files, loading, error, lists>>
trash == <<entries, trashLoading, bins>>
field == <<query, typing>>
uploaded == <<told, refreshDue>>
choice == <<ticked, dialog, picked, chosen>>
operation == <<banner, monitor>>
store == <<content, bin, late>>
counters == <<acts, uploads, mishaps>>
fvars == <<route, controller, folderShown, trash, asked, field, uploaded, choice, calls,
           operation, store, known, counters>>

Mounted == route # Away
NoFiles == [want |-> <<Away, NoText, 0>>, version |-> 0]
Request(want) == [want |-> want, latest |-> TRUE, pc |-> "asked", version |-> 0]
TrashRequest == [live |-> TRUE, pc |-> "asked", seen |-> {}]

(* The application is opened on a folder, on the trash or on another page.     *)
FilesInit ==
  /\ route \in {"/", Trash, Away}
  /\ at = (IF Mounted THEN route ELSE "/") /\ search = NoText /\ offset = 0
  /\ files = NoFiles /\ loading = TRUE /\ error = FALSE
  /\ lists = IF route = "/" THEN {Request(<<"/", NoText, 0>>)} ELSE {}
  /\ bins = IF route = Trash THEN {TrashRequest} ELSE {}
  /\ entries = {} /\ trashLoading = (route = Trash) /\ asked = Mounted
  /\ query = NoText /\ typing = Mounted /\ told = {} /\ refreshDue = FALSE
  /\ ticked = {} /\ dialog = "none" /\ picked = {} /\ chosen = {}
  /\ calls = {} /\ banner = None /\ monitor = None
  /\ content = [f \in Folders |-> 0] /\ bin = Items /\ late = {}
  /\ known = [f \in Folders |-> 0]
  /\ acts = 0 /\ uploads = 0 /\ mishaps = 0

Act == acts < MaxActs /\ acts' = acts + 1 /\ UNCHANGED <<uploads, mishaps>>
Mishap == mishaps < FileTrouble /\ mishaps' = mishaps + 1 /\ UNCHANGED <<acts, uploads>>
Quiet == UNCHANGED counters

-----------------------------------------------------------------------------
(* Loading a folder, the trash and the status *)

Overtaken(R) == {[r EXCEPT !.latest = FALSE] : r \in R}
LoadFiles(R, want) ==
  /\ Cardinality(R) < MaxLists
  /\ lists' = Overtaken(R) \cup {Request(want)}
  /\ loading' = TRUE /\ error' = FALSE
LoadTrash(R) ==
  /\ Cardinality(R) < MaxLists
  /\ bins' = R \cup {TrashRequest}
  /\ trashLoading' = TRUE

(* The lists of the controller's route, from the first page.                   *)
Load(r, text) ==
  /\ asked' = TRUE
  /\ IF r = Trash THEN LoadTrash(bins) /\ UNCHANGED <<lists, loading, error>>
     ELSE LoadFiles(lists, <<r, text, 0>>) /\ UNCHANGED <<bins, trashLoading>>
Refreshed == offset' = 0 /\ Load(at, search)

HandleFiles(r) ==
  /\ r.pc = "asked"
  /\ lists' = (lists \ {r}) \cup {[r EXCEPT !.pc = "answered", !.version = content[r.want[1]]]}
  /\ Quiet
  /\ UNCHANGED <<route, controller, files, loading, error, trash, asked, field, uploaded,
                 choice, calls, operation, store, known>>
NewestAny(r) == TRUE
Newest(r) == r.latest
FilesLoaded(r) ==
  /\ lists' = lists \ {r}
  /\ \/ /\ r.pc = "answered" /\ Quiet
        /\ IF Newest(r)
           THEN files' = [want |-> r.want, version |-> r.version] /\ loading' = FALSE
           ELSE UNCHANGED <<files, loading>>
        /\ error' = error
     \/ /\ Mishap /\ files' = files
        /\ loading' = (loading /\ ~Newest(r)) /\ error' = (error \/ Newest(r))
  /\ UNCHANGED <<route, controller, trash, asked, field, uploaded, choice, calls,
                 operation, store, known>>

(* Only a change of route overtakes a request for the trash.                   *)
HandleTrash(r) ==
  /\ r.pc = "asked"
  /\ bins' = (bins \ {r}) \cup {[r EXCEPT !.pc = "answered", !.seen = bin]}
  /\ Quiet
  /\ UNCHANGED <<route, controller, folderShown, entries, trashLoading, asked, field, uploaded,
                 choice, calls, operation, store, known>>
TrashLoaded(r) ==
  /\ bins' = bins \ {r}
  /\ \/ r.pc = "answered" /\ Quiet /\ entries' = (IF r.live THEN r.seen ELSE entries)
     \/ Mishap /\ entries' = entries
  /\ trashLoading' = (trashLoading /\ ~r.live)
  (* useFileSelection drops what is not shown any more *)
  /\ ticked' = IF route = Trash THEN ticked \cap entries' ELSE ticked
  /\ UNCHANGED <<route, controller, folderShown, asked, field, uploaded, dialog, picked, chosen,
                 calls, operation, store, known>>

(* A failed status request puts its error where a failed list puts its own.    *)
StatusLoaded ==
  /\ asked
  /\ asked' = FALSE
  /\ \/ Quiet /\ error' = error
     \/ Mishap /\ error' = TRUE
  /\ UNCHANGED <<route, controller, files, loading, lists, trash, field, uploaded, choice,
                 calls, operation, store, known>>

-----------------------------------------------------------------------------
(* Routes *)

(* leave(): nothing of the route that is left is answered any more.            *)
Left(R) == {[r EXCEPT !.live = FALSE] : r \in R}
Unmounted(C) == {[c EXCEPT !.mine = FALSE] : c \in C}

(* enter() resets query and page only when it is for another route than the    *)
(* one the controller was last used for.                                       *)
Entered(r, R, B) ==
  /\ at' = r
  /\ IF r = at THEN UNCHANGED <<search, offset, files>>
     ELSE search' = NoText /\ offset' = 0 /\ files' = (IF r = Trash THEN NoFiles ELSE files)
  /\ asked' = TRUE
  /\ IF r = Trash
     THEN LoadTrash(B) /\ lists' = Overtaken(R) /\ UNCHANGED <<loading, error>>
     ELSE LoadFiles(R, <<r, NoText, 0>>) /\ bins' = B /\ UNCHANGED trashLoading

(* From a folder to another: the page stays, and with it its search field      *)
(* unless the folder was opened on the page.                                   *)
OpenFolder(f) ==
  /\ Act
  /\ route \in Folders /\ f # route
  /\ route' = f
  /\ Entered(f, lists, Left(bins))
  /\ \/ query' = NoText /\ typing' = (typing \/ query # NoText)
     \/ UNCHANGED field
  /\ ticked' = {}
  /\ UNCHANGED <<entries, uploaded, dialog, picked, chosen, calls, operation, store, known>>

(* To or from the trash or another page: the page is mounted anew.  What was   *)
(* asked for on other pages is answered if the controller's route is entered   *)
(* again: that is no change of route.                                          *)
Navigate(r) ==
  /\ Act
  /\ r # route /\ ~(r \in Folders /\ route \in Folders)
  /\ route' = r
  /\ IF r = Away
     THEN /\ lists' = Overtaken(lists) /\ bins' = Left(bins) /\ asked' = FALSE
          /\ UNCHANGED <<controller, files, loading, error, trashLoading>>
     ELSE Entered(r, lists, IF route = Away /\ r = at THEN bins ELSE Left(bins))
  /\ query' = NoText /\ typing' = (r # Away)
  /\ told' = {} /\ refreshDue' = FALSE
  /\ ticked' = {} /\ dialog' = "none" /\ picked' = {} /\ chosen' = {}
  /\ calls' = Unmounted(calls)
  /\ monitor' = None /\ banner' = banner
  /\ UNCHANGED <<entries, store, known>>

-----------------------------------------------------------------------------
(* Search, pages, refresh *)

Type ==
  /\ Act
  /\ route \in Folders
  /\ query' \in {NoText, "x"} \ {query} /\ typing' = TRUE
  /\ UNCHANGED <<route, controller, folderShown, trash, asked, uploaded, choice, calls,
                 operation, store, known>>
SetSearchQuery ==
  /\ typing
  /\ typing' = FALSE
  /\ IF query = search /\ offset = 0
     THEN UNCHANGED <<controller, lists, loading, error>>
     ELSE /\ search' = query /\ offset' = 0 /\ at' = at
          /\ IF at = Trash THEN UNCHANGED <<lists, loading, error>>
             ELSE LoadFiles(lists, <<at, query, 0>>)
  /\ Quiet
  /\ UNCHANGED <<route, files, trash, asked, query, uploaded, choice, calls, operation,
                 store, known>>

(* Previous and Next count from the list that is shown.                        *)
SetPageOffset ==
  /\ Act
  /\ route \in Folders /\ files # NoFiles
  /\ LET o == LastOffset - files.want[3]
     IN /\ o # offset
        /\ offset' = o /\ LoadFiles(lists, <<at, search, o>>)
  /\ UNCHANGED <<route, at, search, files, trash, asked, field, uploaded, choice, calls,
                 operation, store, known>>

MayRefresh == IF route = Trash THEN ~trashLoading ELSE ~loading
Refresh ==
  /\ Act
  /\ Mounted /\ MayRefresh
  /\ IF route = Trash
     THEN LoadTrash(bins) /\ UNCHANGED <<offset, asked, lists, loading, error>>
     ELSE Refreshed
  /\ UNCHANGED <<route, at, search, files, entries, field, uploaded, choice, calls,
                 operation, store, known>>

(* A row of an upload completes; the page reloads the folder once it has been  *)
(* quiet.  A completion answered with 202 has not published the file yet, and  *)
(* nothing tells the page when it has.                                         *)
ObserveUploads(f) ==
  /\ uploads < MaxUploads /\ uploads' = uploads + 1 /\ acts' = acts
  /\ Mounted
  /\ \/ /\ content' = [content EXCEPT ![f] = @ + 1]
        /\ known' = [known EXCEPT ![f] = content[f] + 1]
        /\ UNCHANGED <<late, mishaps>>
     \/ /\ mishaps < FileTrouble /\ mishaps' = mishaps + 1
        /\ late' = late \cup {f} /\ UNCHANGED <<content, known>>
  /\ told' = told \cup {f} /\ refreshDue' = TRUE
  /\ UNCHANGED <<route, controller, folderShown, trash, asked, field, choice, calls,
                 operation, bin>>
PublishLate(f) ==
  /\ f \in late
  /\ late' = late \ {f} /\ content' = [content EXCEPT ![f] = @ + 1]
  /\ Quiet
  /\ UNCHANGED <<route, controller, folderShown, trash, asked, field, uploaded, choice, calls,
                 operation, bin, known>>
RefreshUploaded ==
  /\ refreshDue
  /\ refreshDue' = FALSE /\ told' = {}
  /\ IF at \in told THEN Refreshed
     ELSE asked' = TRUE /\ UNCHANGED <<offset, lists, loading, error, bins, trashLoading>>
  /\ Quiet
  /\ UNCHANGED <<route, at, search, files, entries, field, choice, calls, operation, store, known>>

-----------------------------------------------------------------------------
(* Choosing *)

Chooses == UNCHANGED <<route, controller, folderShown, trash, asked, field, uploaded, calls,
                       operation, store, known>>

(* A click on a row, with or without Ctrl or Shift, and its box.               *)
Select ==
  /\ Act
  /\ route = Trash /\ dialog = "none" /\ ~trashLoading
  /\ \E i \in entries : ticked' \in {{i}, ticked \cup {i}, ticked \ {i}} \ {ticked}
  /\ UNCHANGED <<dialog, picked, chosen>> /\ Chooses
(* Ctrl+A and Escape, also while the list is loaded, and with a confirmation   *)
(* on the screen: the only dialogs of the trash, they are alertdialogs, which  *)
(* the page's key handler does not leave alone.                                *)
SelectByKey ==
  /\ Act
  /\ route = Trash
  /\ ticked' \in {entries, {}} \ {ticked}
  /\ UNCHANGED <<dialog, picked, chosen>> /\ Chooses

(* The dialogs for entries of a folder.                                        *)
OpenEntryDialog ==
  /\ Act
  /\ dialog = "none" /\ route \in Folders
  /\ dialog' \in {"rename", "move", "trash"}
  /\ UNCHANGED <<ticked, picked, chosen>> /\ Chooses
(* Delete for good: the entry of a row, the selected ones, or all.             *)
OpenDelete(ids) ==
  /\ Act
  /\ dialog = "none" /\ route = Trash
  /\ dialog' = "delete" /\ picked' = ids /\ chosen' = ids
  /\ UNCHANGED ticked /\ Chooses
OpenRowDelete == ~trashLoading /\ \E i \in entries : OpenDelete({i})
OpenSelectedDelete == ticked # {} /\ OpenDelete(ticked)
OpenEmpty ==
  /\ Act
  /\ dialog = "none" /\ route = Trash /\ entries # {} /\ ticked = {}
  /\ dialog' = "empty"
  /\ UNCHANGED <<ticked, picked, chosen>> /\ Chooses
Waiting(c) == c.pc \in {"asked", "done", "accepted", "early"}
Renaming == \E c \in calls : c.kind = "rename" /\ c.mine /\ Waiting(c)
(* The rename dialog stays while its request is on its way.                    *)
CloseDialog ==
  /\ Act
  /\ dialog # "none"
  /\ dialog = "rename" => ~Renaming
  /\ dialog' = "none" /\ picked' = (IF dialog = "delete" THEN {} ELSE picked)
  /\ UNCHANGED <<route, controller, folderShown, trash, asked, field, uploaded, ticked, chosen,
                 calls, operation, store, known>>

Call(kind, ids) ==
  /\ Cardinality(calls) < MaxCalls
  /\ calls' = calls \cup {[n |-> Cardinality(calls) + 1, kind |-> kind, on |-> route, ids |-> ids,
                           pc |-> "asked", mine |-> TRUE, version |-> 0]}

Submits == UNCHANGED <<route, controller, folderShown, trash, asked, field, uploaded, ticked,
                       picked, chosen, operation, store, known>>

(* The dialogs for renaming and moving wait for the answer, and only the first *)
(* one keeps a second request from being made.  The others close.              *)
SubmitRename ==
  /\ Act
  /\ dialog = "rename" /\ ~Renaming
  /\ Call("rename", {}) /\ dialog' = dialog /\ Submits
SubmitMove ==
  /\ Act
  /\ dialog = "move"
  /\ Call("move", {}) /\ dialog' = dialog /\ Submits
Confirm ==
  /\ Act
  /\ dialog \in {"trash", "empty"}
  /\ Call(dialog, {}) /\ dialog' = "none" /\ Submits
DoomedSelected == IF ticked # {} THEN ticked ELSE picked
Doomed == IF picked # {} THEN picked ELSE ticked
RunPermanentDelete ==
  /\ Act
  /\ dialog = "delete"
  /\ Call("delete", Doomed)
  /\ dialog' = "none" /\ picked' = {}
  /\ UNCHANGED <<route, controller, folderShown, trash, asked, field, uploaded, ticked, chosen,
                 operation, store, known>>
RunRestore ==
  /\ Act
  /\ route = Trash /\ dialog = "none"
  /\ \/ ticked # {} /\ Call("restore", ticked)
     \/ ~trashLoading /\ \E i \in entries : Call("restore", {i})
  /\ UNCHANGED <<route, controller, folderShown, trash, asked, field, uploaded, choice,
                 operation, store, known>>

-----------------------------------------------------------------------------
(* The server makes the change, at once or as an operation *)

Put(c, new) == calls' = (calls \ {c}) \cup {new}
Effect(c) ==
  /\ content' = IF c.on \in Folders THEN [content EXCEPT ![c.on] = @ + 1] ELSE content
  /\ bin' = CASE c.kind \in {"delete", "restore"} -> bin \ c.ids
              [] c.kind = "empty" -> {}
              [] OTHER -> bin
  /\ late' = late
Version(c) == IF c.on \in Folders THEN content[c.on] + 1 ELSE 0
HandleCall(c) ==
  /\ c.pc = "asked"
  /\ \/ Effect(c) /\ Put(c, [c EXCEPT !.pc = "done", !.version = Version(c)])
     \/ Put(c, [c EXCEPT !.pc = "accepted"]) /\ UNCHANGED store
  /\ Quiet
  /\ UNCHANGED <<route, controller, folderShown, trash, asked, field, uploaded, choice,
                 operation, known>>
RunOperation(c) ==
  /\ c.pc \in {"accepted", "running"}
  /\ \/ Effect(c) /\ Quiet
        /\ Put(c, [c EXCEPT !.pc = IF @ = "running" THEN "completed" ELSE "early",
                            !.version = Version(c)])
     \/ c.pc = "running" /\ Mishap /\ Put(c, [c EXCEPT !.pc = "failed"]) /\ UNCHANGED store
  /\ UNCHANGED <<route, controller, folderShown, trash, asked, field, uploaded, choice,
                 operation, known>>

(* The page is told: of the change, or of an operation to follow.              *)
Told(c) ==
  known' = IF c.on \in Folders /\ known[c.on] < c.version
           THEN [known EXCEPT ![c.on] = c.version] ELSE known
Dismissal(c) ==
  IF c.mine
  THEN /\ dialog' = IF c.kind = dialog THEN "none" ELSE dialog
       /\ ticked' = {} /\ UNCHANGED <<picked, chosen>>
  ELSE UNCHANGED choice
AcceptMutation(c) ==
  /\ \/ /\ c.pc = "done" /\ Put(c, [c EXCEPT !.pc = "over"])
        /\ Told(c) /\ Refreshed /\ UNCHANGED operation
     \/ /\ c.pc \in {"accepted", "early"}
        /\ Put(c, [c EXCEPT !.pc = IF @ = "early" THEN "completed" ELSE "running"])
        /\ banner' = c.n /\ monitor' = c.n
        /\ UNCHANGED <<offset, asked, lists, loading, error, bins, trashLoading, known>>
  /\ Dismissal(c)
  /\ Quiet
  /\ UNCHANGED <<route, at, search, files, entries, field, uploaded, store>>
FailAction(c) ==
  /\ Waiting(c)
  /\ Mishap
  /\ \/ Put(c, [c EXCEPT !.pc = "over"]) /\ UNCHANGED store
     \/ c.pc = "asked" /\ Effect(c) /\ Put(c, [c EXCEPT !.pc = "over"])
  /\ UNCHANGED <<route, controller, folderShown, trash, asked, field, uploaded, choice,
                 operation, known>>

(* watchFileOperation: a completed operation reloads the list; a failed one,   *)
(* a failed poll and the deadline only take the banner away.                   *)
Watched(c) ==
  \/ c.pc = "completed" /\ Quiet /\ Told(c) /\ Refreshed
  \/ /\ (c.pc = "failed" /\ Quiet) \/ Mishap
     /\ UNCHANGED <<known, offset, asked, lists, loading, error, bins, trashLoading>>
MonitorOperation(c) ==
  /\ monitor = c.n
  /\ banner' = None /\ monitor' = None
  /\ Watched(c)
  /\ UNCHANGED <<route, at, search, files, entries, field, uploaded, choice, calls, store>>

FilesNext ==
  \/ \E f \in Folders : OpenFolder(f) \/ ObserveUploads(f) \/ PublishLate(f)
  \/ \E r \in Folders \cup {Trash, Away} : Navigate(r)
  \/ Type \/ SetSearchQuery \/ SetPageOffset \/ Refresh \/ RefreshUploaded \/ StatusLoaded
  \/ \E r \in lists : HandleFiles(r) \/ FilesLoaded(r)
  \/ \E r \in bins : HandleTrash(r) \/ TrashLoaded(r)
  \/ Select \/ SelectByKey \/ OpenEntryDialog \/ OpenRowDelete \/ OpenSelectedDelete \/ OpenEmpty
  \/ CloseDialog \/ SubmitRename \/ SubmitMove \/ Confirm \/ RunPermanentDelete \/ RunRestore
  \/ \E c \in calls : \/ HandleCall(c) \/ RunOperation(c) \/ AcceptMutation(c)
                      \/ FailAction(c) \/ MonitorOperation(c)

FilesSpec == FilesInit /\ [][FilesNext]_fvars

-----------------------------------------------------------------------------
(* One type invariant: the controller, its requests and the operation it       *)
(* follows are of the program's making.                                        *)
FilesTypeOK ==
  /\ at \in Folders \cup {Trash} /\ (Mounted => at = route)
  /\ Cardinality({r \in lists : r.latest}) <= 1
  /\ monitor # None => monitor = banner /\ \E c \in calls : c.n = monitor
  /\ ticked \subseteq Items /\ picked \subseteq Items

(* The folder on the screen, once nothing is due or on its way and nothing     *)
(* failed, is the one of the route, for its query and page (or as the page was *)
(* entered), and not older than any change, operation or published upload the  *)
(* page was told of, although the answers overtook each other.                 *)
ListingCurrent ==
  route \in Folders /\ ~loading /\ ~error /\ ~refreshDue =>
    /\ files.want \in {<<route, search, offset>>, <<route, NoText, 0>>}
    /\ files.version >= known[route]
FilesInv == FilesTypeOK /\ ListingCurrent

(* What is deleted for good is what the user chose when the dialog was opened, *)
(* although answers close dialogs, clear the selection and reload the trash.   *)
DeletesChosen ==
  [][\A c \in calls' : c.kind = "delete" /\ (\A d \in calls : d.n # c.n) => c.ids = chosen]_fvars
=============================================================================
