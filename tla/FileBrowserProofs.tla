-------------------------- MODULE FileBrowserProofs --------------------------
(* Theorems about the file browser, for any number of things the user does,    *)
(* changes, uploads and failures: the list on the screen is current once       *)
(* nothing is due, and what is deleted for good is what was chosen; and, for   *)
(* any files and names, the archives the upload dialog queues are the right    *)
(* ones.                                                                       *)
EXTENDS FileBrowser, FiniteSetTheorems, WellFoundedInduction, TLAPS

Routes == Folders \cup {Trash, Away}
Texts == {NoText, "x"}
Wants == Folders \X Texts \X (0..LastOffset)
ListRequest == [want : Wants, latest : BOOLEAN, pc : {"asked", "answered"}, version : Nat]
BinRequest == [live : BOOLEAN, pc : {"asked", "answered"}, seen : SUBSET Items]
CallRecord == [n : Nat, kind : {"rename", "move", "trash", "empty", "delete", "restore"},
               on : Routes, ids : SUBSET Items,
               pc : {"asked", "done", "accepted", "early", "running", "completed", "failed",
                     "over"},
               mine : BOOLEAN, version : Nat]

RouteOK ==
  /\ route \in Routes /\ at \in Folders \cup {Trash} /\ (Mounted => at = route)
  /\ search \in Texts /\ query \in Texts /\ offset \in 0..LastOffset
ListsOK ==
  /\ lists \subseteq ListRequest /\ loading \in BOOLEAN /\ error \in BOOLEAN
  /\ files \in [want : Wants, version : Nat] \cup {NoFiles}
  /\ \A r, q \in lists : r.latest /\ q.latest => r = q
(* Nobody was told of more than there is.                                      *)
StoreOK ==
  /\ content \in [Folders -> Nat] /\ known \in [Folders -> Nat]
  /\ \A f \in Folders : known[f] <= content[f]
  /\ \A c \in calls : c.on \in Folders => c.version <= content[c.on]
BinOK ==
  /\ bin \subseteq Items /\ entries \subseteq Items /\ bins \subseteq BinRequest
  /\ ticked \subseteq Items /\ picked \subseteq Items
CallsOK ==
  /\ calls \subseteq CallRecord /\ IsFiniteSet(calls)
  /\ monitor # None => monitor = banner /\ \E c \in calls : c.n = monitor
(* The delete dialog still stands for what was chosen when it was opened.      *)
DeletingOK == dialog = "delete" => picked = chosen /\ picked # {}

(* A list that says enough for the page, or is known to be behind because of   *)
(* uploads the page will reload for; and the only request that may become it.  *)
Asked(want) == want \in {<<route, search, offset>>, <<route, NoText, 0>>}
Recent(version) == version >= known[route] \/ route \in told
FreshOK ==
  /\ told # {} => refreshDue
  /\ route \in Folders =>
       /\ ~loading /\ ~error => Asked(files.want) /\ Recent(files.version)
       /\ \A r \in lists : r.latest =>
            Asked(r.want) /\ (r.pc = "answered" => Recent(r.version))

FilesIInv == RouteOK /\ ListsOK /\ StoreOK /\ BinOK /\ CallsOK /\ DeletingOK /\ FreshOK

-----------------------------------------------------------------------------
LEMMA FilesImplies == FilesIInv => FilesInv
<1> SUFFICES ASSUME FilesIInv PROVE FilesInv
  OBVIOUS
<1>1. Cardinality({r \in lists : r.latest}) <= 1
  <2> DEFINE S == {r \in lists : r.latest}
  <2>1. CASE S = {}
    BY <2>1, FS_EmptySet
  <2>2. CASE S # {}
    <3>1. PICK r \in S : TRUE
      BY <2>2
    <3>2. S = {r}
      BY <3>1 DEF FilesIInv, ListsOK
    <3> HIDE DEF S
    <3>3. Cardinality(S) = 1
      BY <3>2, FS_Singleton
    <3> QED BY <3>3 DEF S
  <2> QED BY <2>1, <2>2
<1>2. FilesTypeOK
  BY <1>1 DEF FilesTypeOK, FilesIInv, RouteOK, BinOK, CallsOK
<1>3. ListingCurrent
  BY DEF ListingCurrent, FilesIInv, FreshOK, Asked, Recent
<1> QED BY <1>2, <1>3 DEF FilesInv

LEMMA RequestMade ==
  ASSUME NEW want \in Wants
  PROVE  /\ Request(want) \in ListRequest
         /\ Request(want).want = want /\ Request(want).latest /\ Request(want).pc = "asked"
<1> DEFINE W == Wants
<1>1. want \in W /\ 0 \in Nat
  OBVIOUS
<1> HIDE DEF W
<1>2. Request(want) \in [want : W, latest : BOOLEAN, pc : {"asked", "answered"}, version : Nat]
  BY <1>1 DEF Request
<1> QED BY <1>2 DEF W, ListRequest, Request

LEMMA FilesInitially == FilesInit => FilesIInv
<1> SUFFICES ASSUME FilesInit PROVE FilesIInv
  OBVIOUS
<1>1. /\ route \in {"/", "trash", "away"} /\ search = NoText /\ query = NoText /\ offset = 0
      /\ told = {} /\ dialog = "none" /\ calls = {} /\ monitor = 0
  BY DEF FilesInit, Trash, Away, None
<1>2. /\ files = NoFiles /\ loading = TRUE /\ error = FALSE
      /\ ticked = {} /\ picked = {} /\ entries = {} /\ bin = Items
      /\ content = [f \in Folders |-> 0] /\ known = [f \in Folders |-> 0]
  BY DEF FilesInit
<1>3. at = IF route # "away" THEN route ELSE "/"
  BY DEF FilesInit, Mounted, Away
<1>4. lists = IF route = "/" THEN {Request(<<"/", NoText, 0>>)} ELSE {}
  BY DEF FilesInit
<1>5. bins = IF route = "trash" THEN {TrashRequest} ELSE {}
  BY DEF FilesInit, Trash
<1>6. RouteOK
  BY <1>1, <1>3 DEF RouteOK, Routes, Mounted, Folders, Trash, Away, Texts, LastOffset
<1>7. /\ <<"/", NoText, 0>> \in Wants
      /\ Request(<<"/", NoText, 0>>) =
           [want |-> <<"/", NoText, 0>>, latest |-> TRUE, pc |-> "asked", version |-> 0]
  BY DEF Wants, Folders, Texts, LastOffset, Request
<1>8. Request(<<"/", NoText, 0>>) \in ListRequest
  BY <1>7, RequestMade
<1>9. ListsOK
  <2>1. lists \subseteq ListRequest /\ \A r, q \in lists : r = q
    BY <1>4, <1>8
  <2> QED BY <1>2, <2>1 DEF ListsOK
<1>10. StoreOK
  BY <1>1, <1>2 DEF StoreOK
<1>11. BinOK
  <2>1. TrashRequest \in BinRequest
    BY DEF BinRequest, TrashRequest
  <2>2. bins \subseteq BinRequest
    BY <2>1, <1>5
  <2> QED BY <1>2, <2>2 DEF BinOK
<1>12. CallsOK
  <2>1. IsFiniteSet(calls) /\ calls \subseteq CallRecord
    BY <1>1, FS_EmptySet
  <2> QED BY <1>1, <2>1 DEF CallsOK, None
<1>13. DeletingOK
  BY <1>1 DEF DeletingOK
<1>14. FreshOK
  <2>1. /\ Request(<<"/", NoText, 0>>).pc = "asked"
        /\ Request(<<"/", NoText, 0>>).want = <<"/", NoText, 0>>
    BY <1>7
  <2>2. \A r \in lists : r.latest => Asked(r.want) /\ (r.pc = "answered" => Recent(r.version))
    BY <2>1, <1>1, <1>4 DEF Asked
  <2> QED BY <2>2, <1>1, <1>2 DEF FreshOK
<1> QED BY <1>6, <1>9, <1>10, <1>11, <1>12, <1>13, <1>14 DEF FilesIInv

-----------------------------------------------------------------------------
(* What an action leaves alone stays as the invariant wants it.                *)
LEMMA RouteSame ==
  ASSUME RouteOK, UNCHANGED <<route, at, search, query, offset>> PROVE RouteOK'
BY DEF RouteOK, Mounted
LEMMA ListsSame ==
  ASSUME ListsOK, UNCHANGED <<lists, files, loading, error>> PROVE ListsOK'
BY DEF ListsOK
LEMMA StoreSame ==
  ASSUME StoreOK, UNCHANGED <<content, known, calls>> PROVE StoreOK'
BY DEF StoreOK
LEMMA BinSame ==
  ASSUME BinOK, UNCHANGED <<bin, entries, bins, ticked, picked>> PROVE BinOK'
BY DEF BinOK
LEMMA CallsSame ==
  ASSUME CallsOK, UNCHANGED <<calls, monitor, banner>> PROVE CallsOK'
BY DEF CallsOK
LEMMA DeletingSame ==
  ASSUME DeletingOK, UNCHANGED <<dialog, picked, chosen>> PROVE DeletingOK'
BY DEF DeletingOK
LEMMA FreshSame ==
  ASSUME FreshOK,
         UNCHANGED <<route, search, offset, files, loading, error, lists, told, refreshDue, known>>
  PROVE  FreshOK'
BY DEF FreshOK, Asked, Recent

-----------------------------------------------------------------------------
(* Requests for a list: the new one is the only one that may become the list.  *)
LEMMA Overtakes ==
  ASSUME lists \subseteq ListRequest
  PROVE  Overtaken(lists) \subseteq ListRequest /\ \A r \in Overtaken(lists) : ~r.latest
<1> DEFINE W == Wants
<1> HIDE DEF W
<1>1. \A r \in [want : W, latest : BOOLEAN, pc : {"asked", "answered"}, version : Nat] :
        LET q == [r EXCEPT !.latest = FALSE]
        IN q \in [want : W, latest : BOOLEAN, pc : {"asked", "answered"}, version : Nat]
           /\ ~q.latest
  OBVIOUS
<1>2. \A r \in ListRequest : LET q == [r EXCEPT !.latest = FALSE]
                             IN q \in ListRequest /\ ~q.latest
  BY <1>1 DEF W, ListRequest
<1> QED BY <1>2 DEF Overtaken

LEMMA LoadMade ==
  ASSUME ListsOK, NEW want \in Wants, LoadFiles(lists, want)
  PROVE  /\ lists' \subseteq ListRequest /\ loading' = TRUE /\ error' = FALSE
         /\ \A r \in lists' : r.latest => r = Request(want)
<1>1. lists' = Overtaken(lists) \cup {Request(want)} /\ loading' = TRUE /\ error' = FALSE
  BY DEF LoadFiles
<1>2. lists \subseteq ListRequest
  BY DEF ListsOK
<1> QED BY <1>1, <1>2, Overtakes, RequestMade

LEMMA LoadKept ==
  ASSUME ListsOK, NEW want \in Wants, LoadFiles(lists, want), files' \in {files, NoFiles},
         told' # {} => refreshDue',
         route' \in Folders => want \in {<<route', search', offset'>>, <<route', NoText, 0>>}
  PROVE  ListsOK' /\ FreshOK'
<1>1. ListsOK'
  BY LoadMade DEF ListsOK
<1>2. \A r \in lists' : r.latest => r.want = want /\ r.pc = "asked"
  BY LoadMade, RequestMade
<1>3. FreshOK'
  <2>1. loading' = TRUE
    BY LoadMade
  <2> QED BY <2>1, <1>2 DEF FreshOK, Asked
<1> QED BY <1>1, <1>3

LEMMA BinAsked ==
  ASSUME NEW B \in SUBSET BinRequest, LoadTrash(B) PROVE bins' \subseteq BinRequest
<1>1. TrashRequest \in BinRequest
  BY DEF TrashRequest, BinRequest
<1> QED BY <1>1 DEF LoadTrash

LEMMA BinLeft == ASSUME BinOK PROVE Left(bins) \subseteq BinRequest
<1>1. \A r \in BinRequest : [r EXCEPT !.live = FALSE] \in BinRequest
  BY DEF BinRequest
<1> QED BY <1>1 DEF BinOK, Left

(* Loading the lists of the controller's route from the first page.            *)
LEMMA RefreshKept ==
  ASSUME RouteOK, ListsOK, BinOK, Refreshed,
         UNCHANGED <<route, at, search, files>>, told' # {} => refreshDue'
  PROVE  ListsOK' /\ FreshOK' /\ bins' \subseteq BinRequest /\ offset' = 0
<1>1. offset' = 0 /\ Load(at, search)
  BY DEF Refreshed
<1>2. CASE at = Trash
  <2>1. LoadTrash(bins) /\ UNCHANGED <<lists, loading, error>>
    BY <1>1, <1>2 DEF Load
  <2>2. bins' \subseteq BinRequest
    BY <2>1, BinAsked DEF BinOK
  <2>3. route \notin Folders
    BY <1>2 DEF RouteOK, Mounted, Folders, Trash, Away
  <2>4. FreshOK'
    BY <2>3 DEF FreshOK
  <2> QED BY <1>1, <2>1, <2>2, <2>4, ListsSame
<1>3. CASE at # Trash
  <2>1. LoadFiles(lists, <<at, search, 0>>) /\ UNCHANGED bins
    BY <1>1, <1>3 DEF Load
  <2>2. <<at, search, 0>> \in Wants
    BY <1>3 DEF RouteOK, Wants, LastOffset
  <2>3. route' \in Folders => <<at, search, 0>> = <<route', search', offset'>>
    BY <1>1 DEF RouteOK, Mounted, Folders, Away
  <2>4. ListsOK' /\ FreshOK'
    BY <2>1, <2>2, <2>3, LoadKept
  <2> QED BY <1>1, <2>1, <2>4 DEF BinOK
<1> QED BY <1>2, <1>3

-----------------------------------------------------------------------------
(* Changes: a call keeps its number, and nobody is told of more than there is. *)
LEMMA CallMade ==
  ASSUME CallsOK, StoreOK, RouteOK, NEW ids \in SUBSET Items,
         NEW kind \in {"rename", "move", "trash", "empty", "delete", "restore"},
         Call(kind, ids), UNCHANGED <<monitor, banner, content, known>>
  PROVE  CallsOK' /\ StoreOK'
<1> DEFINE new == [n |-> Cardinality(calls) + 1, kind |-> kind, on |-> route, ids |-> ids,
                   pc |-> "asked", mine |-> TRUE, version |-> 0]
<1>1. calls' = calls \cup {new}
  BY DEF Call
<1>2. Cardinality(calls) \in Nat
  BY FS_CardinalityType DEF CallsOK
<1>3. new \in CallRecord
  BY <1>2 DEF CallRecord, RouteOK
<1>4. new.on = route /\ new.version = 0
  OBVIOUS
<1> HIDE DEF new
<1>5. CallsOK'
  <2>1. IsFiniteSet(calls')
    BY <1>1, FS_AddElement DEF CallsOK
  <2> QED BY <1>1, <1>3, <2>1 DEF CallsOK
<1>6. StoreOK'
  BY <1>1, <1>4 DEF StoreOK
<1> QED BY <1>5, <1>6

LEMMA CallPut ==
  ASSUME CallsOK, NEW c \in calls, NEW new \in CallRecord, new.n = c.n, Put(c, new)
  PROVE  /\ calls' \subseteq CallRecord /\ IsFiniteSet(calls')
         /\ \A d \in calls : \E e \in calls' : e.n = d.n
         /\ \A e \in calls' : \E d \in calls : e.n = d.n
<1>1. calls' = (calls \ {c}) \cup {new}
  BY DEF Put
<1>2. IsFiniteSet(calls')
  BY <1>1, FS_RemoveElement, FS_AddElement DEF CallsOK
<1> QED BY <1>1, <1>2 DEF CallsOK

LEMMA PutKept ==
  ASSUME CallsOK, StoreOK, NEW c \in calls, NEW new \in CallRecord, new.n = c.n, Put(c, new),
         UNCHANGED operation, content' \in [Folders -> Nat], known' \in [Folders -> Nat],
         \A f \in Folders : content[f] <= content'[f] /\ known'[f] <= content'[f],
         new.on \in Folders => new.version <= content'[new.on]
  PROVE  CallsOK' /\ StoreOK'
<1>1. CallsOK'
  BY CallPut DEF CallsOK, operation
<1>2. StoreOK'
  <2>1. calls' = (calls \ {c}) \cup {new}
    BY DEF Put
  <2>2. \A d \in calls : d.on \in Folders => d.version <= content'[d.on]
    BY DEF StoreOK, CallsOK, CallRecord
  <2> QED BY <2>1, <2>2 DEF StoreOK
<1> QED BY <1>1, <1>2

LEMMA EffectGrows ==
  ASSUME CallsOK, StoreOK, BinOK, NEW c \in calls, Effect(c), UNCHANGED known
  PROVE  /\ content' \in [Folders -> Nat] /\ bin' \subseteq Items /\ Version(c) \in Nat
         /\ \A f \in Folders : content[f] <= content'[f] /\ known'[f] <= content'[f]
         /\ c.on \in Folders => Version(c) = content'[c.on]
<1>1. bin' \subseteq Items
  BY DEF Effect, BinOK
<1>2. CASE c.on \in Folders
  <2>1. content' = [content EXCEPT ![c.on] = @ + 1] /\ Version(c) = content[c.on] + 1
    BY <1>2 DEF Effect, Version
  <2> QED BY <1>1, <1>2, <2>1 DEF StoreOK
<1>3. CASE c.on \notin Folders
  <2>1. content' = content /\ Version(c) = 0
    BY <1>3 DEF Effect, Version
  <2> QED BY <1>1, <1>3, <2>1 DEF StoreOK
<1> QED BY <1>2, <1>3

LEMMA ToldKept ==
  ASSUME CallsOK, StoreOK, NEW c \in calls, Told(c)
  PROVE  /\ known' \in [Folders -> Nat]
         /\ \A f \in Folders : known'[f] <= content[f]
<1>1. c.version \in Nat /\ (c.on \in Folders => c.version <= content[c.on])
  BY DEF StoreOK, CallsOK, CallRecord
<1> QED BY <1>1 DEF Told, StoreOK

-----------------------------------------------------------------------------
(* Choosing changes only the choice.                                           *)
LEMMA ChoosesKept ==
  ASSUME FilesIInv, Chooses, ticked' \subseteq Items, picked' \subseteq Items, DeletingOK'
  PROVE  FilesIInv'
<1> USE DEF FilesIInv, Chooses, controller, folderShown, trash, field, uploaded, operation, store
<1>1. RouteOK' /\ ListsOK' /\ StoreOK'
  BY RouteSame, ListsSame, StoreSame
<1>2. CallsOK' /\ FreshOK'
  BY CallsSame, FreshSame
<1>3. BinOK'
  BY DEF BinOK
<1> QED BY <1>1, <1>2, <1>3

LEMMA SelectKept == ASSUME FilesIInv, Select \/ SelectByKey PROVE FilesIInv'
<1>1. ticked' \subseteq Items
  BY DEF Select, SelectByKey, FilesIInv, BinOK
<1>2. UNCHANGED <<dialog, picked, chosen>> /\ Chooses
  BY DEF Select, SelectByKey
<1>3. DeletingOK' /\ picked' \subseteq Items
  BY <1>2, DeletingSame DEF FilesIInv, BinOK
<1> QED BY <1>1, <1>2, <1>3, ChoosesKept

LEMMA OpenDialogKept == ASSUME FilesIInv, OpenEntryDialog \/ OpenEmpty PROVE FilesIInv'
<1>1. dialog' # "delete" /\ UNCHANGED <<ticked, picked, chosen>> /\ Chooses
  BY DEF OpenEntryDialog, OpenEmpty
<1>2. DeletingOK' /\ picked' \subseteq Items /\ ticked' \subseteq Items
  BY <1>1 DEF DeletingOK, FilesIInv, BinOK
<1> QED BY <1>1, <1>2, ChoosesKept

LEMMA OpenDeleteKept == ASSUME FilesIInv, OpenRowDelete \/ OpenSelectedDelete PROVE FilesIInv'
<1>1. PICK ids \in SUBSET Items : ids # {} /\ OpenDelete(ids)
  BY DEF OpenRowDelete, OpenSelectedDelete, FilesIInv, BinOK
<1>2. picked' = ids /\ chosen' = ids /\ ticked' = ticked /\ Chooses
  BY <1>1 DEF OpenDelete
<1>3. DeletingOK' /\ picked' \subseteq Items /\ ticked' \subseteq Items
  BY <1>1, <1>2 DEF DeletingOK, FilesIInv, BinOK
<1> QED BY <1>2, <1>3, ChoosesKept

LEMMA CloseDialogKept == ASSUME FilesIInv, CloseDialog PROVE FilesIInv'
<1>1. Chooses /\ ticked' = ticked /\ dialog' = "none" /\ picked' \in {{}, picked}
  BY DEF CloseDialog, Chooses
<1>2. DeletingOK' /\ picked' \subseteq Items /\ ticked' \subseteq Items
  BY <1>1 DEF DeletingOK, FilesIInv, BinOK
<1> QED BY <1>1, <1>2, ChoosesKept

(* Asking for a change leaves the lists alone.                                 *)
LEMMA SubmitKept ==
  ASSUME FilesIInv, NEW ids \in SUBSET Items,
         NEW kind \in {"rename", "move", "trash", "empty", "delete", "restore"},
         Call(kind, ids), picked' \in {{}, picked}, DeletingOK',
         UNCHANGED <<route, controller, folderShown, trash, asked, field, uploaded, ticked,
                     operation, store, known>>
  PROVE  FilesIInv'
<1> USE DEF FilesIInv, controller, folderShown, trash, field, uploaded, operation, store
<1>1. RouteOK' /\ ListsOK' /\ FreshOK'
  BY RouteSame, ListsSame, FreshSame
<1>2. CallsOK' /\ StoreOK'
  BY CallMade
<1>3. BinOK'
  BY DEF BinOK
<1> QED BY <1>1, <1>2, <1>3

LEMMA SubmitsKept == ASSUME FilesIInv, SubmitRename \/ SubmitMove \/ Confirm PROVE FilesIInv'
<1>1. PICK kind \in {"rename", "move", "trash", "empty"} : Call(kind, {}) /\ Submits
  BY DEF SubmitRename, SubmitMove, Confirm
<1>2. DeletingOK'
  <2>1. dialog' # "delete"
    BY DEF SubmitRename, SubmitMove, Confirm
  <2> QED BY <2>1 DEF DeletingOK
<1>3. {} \in SUBSET Items
  OBVIOUS
<1> QED BY <1>1, <1>2, <1>3, SubmitKept DEF Submits

LEMMA PermanentDeleteKept == ASSUME FilesIInv, RunPermanentDelete PROVE FilesIInv'
<1>1. Call("delete", Doomed) /\ picked' = {} /\ dialog' = "none"
  BY DEF RunPermanentDelete
<1>2. Doomed \in SUBSET Items
  BY DEF Doomed, FilesIInv, BinOK
<1>3. DeletingOK'
  BY <1>1 DEF DeletingOK
<1> QED BY <1>1, <1>2, <1>3, SubmitKept DEF RunPermanentDelete

LEMMA RestoreKept == ASSUME FilesIInv, RunRestore PROVE FilesIInv'
<1>1. PICK ids \in SUBSET Items : Call("restore", ids)
  BY DEF RunRestore, FilesIInv, BinOK
<1>2. UNCHANGED choice
  BY DEF RunRestore
<1>3. DeletingOK'
  BY <1>2, DeletingSame DEF FilesIInv, choice
<1> QED BY <1>1, <1>2, <1>3, SubmitKept DEF RunRestore, choice

-----------------------------------------------------------------------------
(* The server changes what a call asks for; the page is not told yet.          *)
LEMMA ServerKept ==
  ASSUME FilesIInv, CallsOK', StoreOK', bin' \subseteq Items,
         UNCHANGED <<route, controller, folderShown, trash, field, uploaded, choice, known>>
  PROVE  FilesIInv'
<1> USE DEF FilesIInv, controller, folderShown, trash, field, uploaded, choice
<1>1. RouteOK' /\ ListsOK' /\ FreshOK'
  BY RouteSame, ListsSame, FreshSame
<1>2. BinOK'
  BY DEF BinOK
<1>3. DeletingOK'
  BY DeletingSame
<1> QED BY <1>1, <1>2, <1>3

LEMMA PutServed ==
  ASSUME FilesIInv, NEW c \in calls, NEW new \in CallRecord, Put(c, new),
         UNCHANGED <<route, controller, folderShown, trash, field, uploaded, choice, operation,
                     known>>,
         new.n = c.n, new.on = c.on, new.version \in {c.version, Version(c)},
         \/ Effect(c)
         \/ new.version = c.version /\ UNCHANGED store
  PROVE  FilesIInv'
<1> USE DEF FilesIInv
<1>1. CASE Effect(c)
  <2>1. /\ content' \in [Folders -> Nat] /\ bin' \subseteq Items /\ Version(c) \in Nat
        /\ \A f \in Folders : content[f] <= content'[f] /\ known'[f] <= content'[f]
        /\ c.on \in Folders => Version(c) = content'[c.on]
    BY <1>1, EffectGrows
  <2>2. new.on \in Folders => new.version <= content'[new.on]
    <3>1. c.on \in Folders => c.version <= content[c.on] /\ c.version \in Nat
      BY DEF StoreOK, CallsOK, CallRecord
    <3> QED BY <2>1, <3>1 DEF StoreOK
  <2>3. known' \in [Folders -> Nat]
    BY DEF StoreOK
  <2>4. CallsOK' /\ StoreOK'
    BY <2>1, <2>2, <2>3, PutKept
  <2> QED BY <2>1, <2>4, ServerKept
<1>2. CASE new.version = c.version /\ UNCHANGED store
  <2>1. UNCHANGED <<content, bin>>
    BY <1>2 DEF store
  <2>2. /\ content' \in [Folders -> Nat] /\ known' \in [Folders -> Nat]
        /\ \A f \in Folders : content[f] <= content'[f] /\ known'[f] <= content'[f]
        /\ new.on \in Folders => new.version <= content'[new.on]
    BY <1>2, <2>1 DEF StoreOK
  <2>3. CallsOK' /\ StoreOK'
    BY <2>2, PutKept
  <2> QED BY <2>1, <2>3, ServerKept DEF BinOK
<1> QED BY <1>1, <1>2

LEMMA Advanced ==
  ASSUME NEW c \in CallRecord, NEW v \in Nat,
         NEW pc \in {"asked", "done", "accepted", "early", "running", "completed", "failed", "over"}
  PROVE  LET new == [c EXCEPT !.pc = pc, !.version = v]
         IN new \in CallRecord /\ new.n = c.n /\ new.on = c.on /\ new.version = v
BY DEF CallRecord
LEMMA Moved ==
  ASSUME NEW c \in CallRecord,
         NEW pc \in {"asked", "done", "accepted", "early", "running", "completed", "failed", "over"}
  PROVE  LET new == [c EXCEPT !.pc = pc]
         IN new \in CallRecord /\ new.n = c.n /\ new.on = c.on /\ new.version = c.version
BY DEF CallRecord

LEMMA HandleCallKept == ASSUME FilesIInv, NEW c \in calls, HandleCall(c) PROVE FilesIInv'
<1>1. UNCHANGED <<route, controller, folderShown, trash, field, uploaded, choice, operation, known>>
  BY DEF HandleCall
<1>2. c \in CallRecord
  BY DEF FilesIInv, CallsOK
<1>3. CASE Effect(c) /\ Put(c, [c EXCEPT !.pc = "done", !.version = Version(c)])
  <2>1. Version(c) \in Nat
    BY <1>1, <1>3, EffectGrows DEF FilesIInv
  <2> DEFINE new == [c EXCEPT !.pc = "done", !.version = Version(c)]
  <2>2. new \in CallRecord /\ new.n = c.n /\ new.on = c.on /\ new.version = Version(c)
    BY <1>2, <2>1, Advanced
  <2> HIDE DEF new
  <2>3. Put(c, new)
    BY <1>3 DEF new
  <2> QED BY <1>1, <1>3, <2>2, <2>3, PutServed
<1>4. CASE Put(c, [c EXCEPT !.pc = "accepted"]) /\ UNCHANGED store
  <2> DEFINE new == [c EXCEPT !.pc = "accepted"]
  <2>1. new \in CallRecord /\ new.n = c.n /\ new.on = c.on /\ new.version = c.version
    BY <1>2, Moved
  <2> HIDE DEF new
  <2>2. Put(c, new)
    BY <1>4 DEF new
  <2> QED BY <1>1, <1>4, <2>1, <2>2, PutServed
<1> QED BY <1>3, <1>4 DEF HandleCall

LEMMA RunOperationKept == ASSUME FilesIInv, NEW c \in calls, RunOperation(c) PROVE FilesIInv'
<1>1. UNCHANGED <<route, controller, folderShown, trash, field, uploaded, choice, operation, known>>
  BY DEF RunOperation
<1>2. c \in CallRecord
  BY DEF FilesIInv, CallsOK
<1> DEFINE end == IF c.pc = "running" THEN "completed" ELSE "early"
<1>3. CASE Effect(c) /\ Put(c, [c EXCEPT !.pc = end, !.version = Version(c)])
  <2>1. Version(c) \in Nat
    BY <1>1, <1>3, EffectGrows DEF FilesIInv
  <2>2. end \in {"asked", "done", "accepted", "early", "running", "completed", "failed", "over"}
    OBVIOUS
  <2> HIDE DEF end
  <2> DEFINE new == [c EXCEPT !.pc = end, !.version = Version(c)]
  <2>3. new \in CallRecord /\ new.n = c.n /\ new.on = c.on /\ new.version = Version(c)
    BY <1>2, <2>1, <2>2, Advanced
  <2> HIDE DEF new
  <2>4. Put(c, new)
    BY <1>3 DEF new
  <2> QED BY <1>1, <1>3, <2>3, <2>4, PutServed
<1>4. CASE Put(c, [c EXCEPT !.pc = "failed"]) /\ UNCHANGED store
  <2> DEFINE new == [c EXCEPT !.pc = "failed"]
  <2>1. new \in CallRecord /\ new.n = c.n /\ new.on = c.on /\ new.version = c.version
    BY <1>2, Moved
  <2> HIDE DEF new
  <2>2. Put(c, new)
    BY <1>4 DEF new
  <2> QED BY <1>1, <1>4, <2>1, <2>2, PutServed
<1> QED BY <1>3, <1>4 DEF RunOperation

LEMMA FailActionKept == ASSUME FilesIInv, NEW c \in calls, FailAction(c) PROVE FilesIInv'
<1>1. UNCHANGED <<route, controller, folderShown, trash, field, uploaded, choice, operation, known>>
  BY DEF FailAction
<1>2. c \in CallRecord
  BY DEF FilesIInv, CallsOK
<1> DEFINE new == [c EXCEPT !.pc = "over"]
<1>3. new \in CallRecord /\ new.n = c.n /\ new.on = c.on /\ new.version = c.version
  BY <1>2, Moved
<1>4. Put(c, new) /\ (Effect(c) \/ UNCHANGED store)
  BY DEF FailAction
<1> HIDE DEF new
<1> QED BY <1>1, <1>3, <1>4, PutServed

-----------------------------------------------------------------------------
(* The lists: an answer becomes the list only if its request is the newest.    *)
LEMMA HandleFilesKept == ASSUME FilesIInv, NEW r \in lists, HandleFiles(r) PROVE FilesIInv'
<1> USE DEF FilesIInv
<1> DEFINE new == [r EXCEPT !.pc = "answered", !.version = content[r.want[1]]]
<1>1. r \in ListRequest /\ r.want \in Wants /\ r.want[1] \in Folders
  BY DEF ListsOK, ListRequest, Wants
<1>2. content[r.want[1]] \in Nat
  BY <1>1 DEF StoreOK
<1>3. /\ new \in ListRequest /\ new.want = r.want /\ new.latest = r.latest
      /\ new.version = content[r.want[1]]
  <2> DEFINE W == Wants
  <2> HIDE DEF W
  <2>1. r \in [want : W, latest : BOOLEAN, pc : {"asked", "answered"}, version : Nat]
    BY <1>1 DEF W, ListRequest
  <2>2. new \in [want : W, latest : BOOLEAN, pc : {"asked", "answered"}, version : Nat]
    BY <1>2, <2>1
  <2>3. new.want = r.want /\ new.latest = r.latest /\ new.version = content[r.want[1]]
    BY <2>1
  <2> QED BY <2>2, <2>3 DEF W, ListRequest
<1>4. lists' = (lists \ {r}) \cup {new}
  BY DEF HandleFiles
<1> HIDE DEF new
<1>5. /\ UNCHANGED <<route, at, search, query, offset, files, loading, error, content, known>>
      /\ UNCHANGED <<calls, bin, entries, bins, ticked, picked, dialog, chosen, monitor, banner>>
      /\ UNCHANGED <<told, refreshDue>>
  BY DEF HandleFiles, controller, trash, field, uploaded, choice, operation, store
<1>6. ListsOK'
  BY <1>3, <1>4, <1>5 DEF ListsOK
<1>7. FreshOK'
  <2>1. ASSUME route \in Folders, r.latest PROVE Asked(r.want) /\ Recent(content[r.want[1]])
    <3>1. Asked(r.want)
      BY <2>1 DEF FreshOK
    <3>2. r.want[1] = route
      BY <3>1 DEF Asked
    <3> QED BY <2>1, <3>1, <3>2 DEF StoreOK, Recent
  <2> QED BY <1>3, <1>4, <1>5, <2>1 DEF FreshOK, Asked, Recent
<1>8. RouteOK' /\ StoreOK' /\ BinOK' /\ CallsOK' /\ DeletingOK'
  BY <1>5, RouteSame, StoreSame, BinSame, CallsSame, DeletingSame
<1> QED BY <1>6, <1>7, <1>8

LEMMA FilesLoadedKept == ASSUME FilesIInv, NEW r \in lists, FilesLoaded(r) PROVE FilesIInv'
<1> USE DEF FilesIInv
<1>1. /\ lists' = lists \ {r}
      /\ UNCHANGED <<route, at, search, query, offset, content, known, calls>>
      /\ UNCHANGED <<bin, entries, bins, ticked, picked, dialog, chosen, monitor, banner>>
      /\ UNCHANGED <<told, refreshDue>>
  BY DEF FilesLoaded, controller, trash, field, uploaded, choice, operation, store
<1>2. RouteOK' /\ StoreOK' /\ BinOK' /\ CallsOK' /\ DeletingOK'
  BY <1>1, RouteSame, StoreSame, BinSame, CallsSame, DeletingSame
<1>3. r.want \in Wants /\ r.version \in Nat /\ r.latest \in BOOLEAN
  BY DEF ListsOK, ListRequest
<1>4. CASE r.pc = "answered" /\ r.latest /\ loading' = FALSE /\ error' = error
            /\ files' = [want |-> r.want, version |-> r.version]
  <2>1. /\ files' \in [want : Wants, version : Nat]
        /\ files'.want = r.want /\ files'.version = r.version
    BY <1>3, <1>4
  <2>2. ListsOK'
    BY <1>1, <1>4, <2>1 DEF ListsOK
  <2>3. FreshOK'
    BY <1>1, <1>4, <2>1 DEF FreshOK, Asked, Recent
  <2> QED BY <1>2, <2>2, <2>3
<1>5. CASE ~r.latest /\ UNCHANGED <<files, loading, error>>
  <2>1. ListsOK'
    BY <1>1, <1>5 DEF ListsOK
  <2>2. FreshOK'
    BY <1>1, <1>5 DEF FreshOK, Asked, Recent
  <2> QED BY <1>2, <2>1, <2>2
<1>6. CASE r.latest /\ files' = files /\ loading' = FALSE /\ error' = TRUE
  <2>1. ListsOK'
    BY <1>1, <1>6 DEF ListsOK
  <2>2. FreshOK'
    BY <1>1, <1>6 DEF FreshOK, Asked, Recent
  <2> QED BY <1>2, <2>1, <2>2
<1>7. loading \in BOOLEAN /\ error \in BOOLEAN
  BY DEF ListsOK
<1> QED BY <1>3, <1>4, <1>5, <1>6, <1>7 DEF FilesLoaded, Newest

LEMMA TrashKept == ASSUME FilesIInv, NEW r \in bins, HandleTrash(r) \/ TrashLoaded(r)
                   PROVE  FilesIInv'
<1> USE DEF FilesIInv
<1>1. /\ UNCHANGED <<route, at, search, query, offset, files, loading, error, lists>>
      /\ UNCHANGED <<told, refreshDue, content, known, calls, bin, picked, dialog, chosen>>
      /\ UNCHANGED <<monitor, banner>>
  BY DEF HandleTrash, TrashLoaded, controller, folderShown, field, uploaded, choice, operation,
         store
<1>2. RouteOK' /\ ListsOK' /\ StoreOK' /\ CallsOK' /\ DeletingOK' /\ FreshOK'
  BY <1>1, RouteSame, ListsSame, StoreSame, CallsSame, DeletingSame, FreshSame
<1>3. r \in BinRequest /\ r.seen \subseteq Items
  BY DEF BinOK, BinRequest
<1>4. CASE HandleTrash(r)
  <2>1. [r EXCEPT !.pc = "answered", !.seen = bin] \in BinRequest
    BY <1>3 DEF BinOK, BinRequest
  <2>2. bins' \subseteq BinRequest /\ UNCHANGED <<entries, ticked>>
    BY <1>4, <2>1 DEF HandleTrash, BinOK, choice
  <2> QED BY <1>1, <1>2, <2>2 DEF BinOK
<1>5. CASE TrashLoaded(r)
  <2>1. bins' \subseteq BinRequest /\ entries' \subseteq Items
    BY <1>3, <1>5 DEF TrashLoaded, BinOK
  <2>2. ticked' \subseteq Items
    BY <1>5 DEF TrashLoaded, BinOK
  <2> QED BY <1>1, <1>2, <2>1, <2>2 DEF BinOK
<1> QED BY <1>4, <1>5

LEMMA StatusKept == ASSUME FilesIInv, StatusLoaded PROVE FilesIInv'
<1> USE DEF FilesIInv
<1>1. /\ UNCHANGED <<route, at, search, query, offset, files, loading, lists>>
      /\ UNCHANGED <<told, refreshDue, content, known, calls, bin, entries, bins, ticked, picked>>
      /\ UNCHANGED <<dialog, chosen, monitor, banner>> /\ (error' = error \/ error' = TRUE)
  BY DEF StatusLoaded, controller, trash, field, uploaded, choice, operation, store
<1>2. RouteOK' /\ StoreOK' /\ BinOK' /\ CallsOK' /\ DeletingOK'
  BY <1>1, RouteSame, StoreSame, BinSame, CallsSame, DeletingSame
<1>3. CASE error' = error
  BY <1>1, <1>2, <1>3, ListsSame, FreshSame
<1>4. CASE error' = TRUE
  <2>1. ListsOK'
    BY <1>1, <1>4 DEF ListsOK
  <2>2. FreshOK'
    BY <1>1, <1>4 DEF FreshOK, Asked, Recent
  <2> QED BY <1>2, <2>1, <2>2
<1> QED BY <1>1, <1>3, <1>4

-----------------------------------------------------------------------------
(* Routes: the list of the route that is entered is asked for anew.            *)
LEMMA EnteredKept ==
  ASSUME FilesIInv, NEW r \in Folders \cup {Trash}, NEW B \in SUBSET BinRequest,
         route' = r, Entered(r, lists, B),
         told' # {} => refreshDue', query' \in Texts
  PROVE  RouteOK' /\ ListsOK' /\ FreshOK' /\ bins' \subseteq BinRequest
<1> USE DEF FilesIInv
<1>1. /\ at' = r /\ (r = at => UNCHANGED <<search, offset, files>>)
      /\ r # at => search' = NoText /\ offset' = 0 /\ files' \in {files, NoFiles}
  BY DEF Entered
<1>2. RouteOK'
  BY <1>1 DEF RouteOK, Routes, Mounted, Texts, LastOffset
<1>3. files' \in {files, NoFiles}
  BY <1>1
<1>5. CASE r = Trash
  <2>1. LoadTrash(B) /\ lists' = Overtaken(lists) /\ UNCHANGED <<loading, error>>
    BY <1>5 DEF Entered
  <2>2. bins' \subseteq BinRequest
    BY <2>1, BinAsked
  <2>3. lists' \subseteq ListRequest /\ \A q \in lists' : ~q.latest
    BY <2>1, Overtakes DEF ListsOK
  <2>4. ListsOK'
    BY <1>3, <2>1, <2>3 DEF ListsOK
  <2>5. route' \notin Folders
    BY <1>5 DEF Folders, Trash
  <2>6. FreshOK'
    BY <2>5 DEF FreshOK
  <2> QED BY <1>2, <2>2, <2>4, <2>6
<1>6. CASE r # Trash
  <2>1. LoadFiles(lists, <<r, NoText, 0>>) /\ bins' = B
    BY <1>6 DEF Entered
  <2>2. <<r, NoText, 0>> \in Wants
    BY <1>6 DEF Wants, Texts, LastOffset
  <2>3. ListsOK' /\ FreshOK'
    BY <1>3, <2>1, <2>2, LoadKept
  <2> QED BY <1>2, <2>1, <2>3
<1> QED BY <1>5, <1>6

LEMMA OpenFolderKept == ASSUME FilesIInv, NEW f \in Folders, OpenFolder(f) PROVE FilesIInv'
<1> USE DEF FilesIInv
<1>1. /\ route' = f /\ Entered(f, lists, Left(bins)) /\ query' \in {NoText, query}
      /\ ticked' = {} /\ UNCHANGED <<entries, told, refreshDue, dialog, picked, chosen, calls>>
      /\ UNCHANGED <<monitor, banner, content, bin, known>>
  BY DEF OpenFolder, field, uploaded, operation, store
<1>2. told' # {} => refreshDue'
  BY <1>1 DEF FreshOK
<1>3. query' \in Texts
  BY <1>1 DEF RouteOK, Texts
<1>4. RouteOK' /\ ListsOK' /\ FreshOK' /\ bins' \subseteq BinRequest
  <2>1. Left(bins) \in SUBSET BinRequest
    BY BinLeft
  <2> QED BY <1>1, <1>2, <1>3, <2>1, EnteredKept
<1>5. StoreOK' /\ CallsOK' /\ DeletingOK'
  BY <1>1, StoreSame, CallsSame, DeletingSame
<1>6. BinOK'
  BY <1>1, <1>4 DEF BinOK
<1> QED BY <1>4, <1>5, <1>6

(* The calls of a page that is gone are still answered.                        *)
LEMMA UnmountedKept ==
  ASSUME CallsOK, StoreOK, calls' = Unmounted(calls), monitor' = None, UNCHANGED <<content, known>>
  PROVE  CallsOK' /\ StoreOK'
<1>1. \A c \in CallRecord : LET new == [c EXCEPT !.mine = FALSE]
                            IN new \in CallRecord /\ new.on = c.on /\ new.version = c.version
  BY DEF CallRecord
<1>2. calls' \subseteq CallRecord
  BY <1>1 DEF CallsOK, Unmounted
<1>3. IsFiniteSet(calls')
  <2> DEFINE gone == [c \in calls |-> [c EXCEPT !.mine = FALSE]]
  <2>1. gone \in Surjection(calls, Unmounted(calls))
    BY DEF Surjection, Unmounted
  <2> HIDE DEF gone
  <2> QED BY <2>1, FS_Surjection DEF CallsOK
<1>4. ASSUME NEW d \in calls', d.on \in Folders PROVE d.version <= content[d.on]
  <2>1. PICK c \in calls : d = [c EXCEPT !.mine = FALSE]
    BY DEF Unmounted
  <2>2. d.on = c.on /\ d.version = c.version
    BY <1>1, <2>1 DEF CallsOK
  <2> QED BY <1>4, <2>2 DEF StoreOK
<1> QED BY <1>2, <1>3, <1>4 DEF CallsOK, StoreOK

LEMMA NavigateKept ==
  ASSUME FilesIInv, NEW r \in Folders \cup {Trash, Away}, Navigate(r) PROVE FilesIInv'
<1> USE DEF FilesIInv
<1>1. /\ route' = r /\ query' = NoText /\ told' = {} /\ ticked' = {} /\ picked' = {}
      /\ dialog' = "none" /\ calls' = Unmounted(calls) /\ monitor' = None
      /\ UNCHANGED <<entries, content, bin, known>>
  BY DEF Navigate, store
<1>2. StoreOK' /\ CallsOK'
  BY <1>1, UnmountedKept
<1>3. DeletingOK'
  BY <1>1 DEF DeletingOK
<1>4. query' \in Texts
  BY <1>1 DEF Texts
<1>5. CASE r = Away
  <2>1. /\ lists' = Overtaken(lists) /\ bins' = Left(bins)
        /\ UNCHANGED <<at, search, offset, files, loading, error>>
    BY <1>5 DEF Navigate, controller
  <2>2. RouteOK'
    BY <1>1, <1>4, <1>5, <2>1 DEF RouteOK, Routes, Mounted
  <2>3. lists' \subseteq ListRequest /\ \A q \in lists' : ~q.latest
    BY <2>1, Overtakes DEF ListsOK
  <2>4. ListsOK'
    BY <2>1, <2>3 DEF ListsOK
  <2>5. route' \notin Folders
    BY <1>1, <1>5 DEF Folders, Away
  <2>6. FreshOK'
    BY <1>1, <2>5 DEF FreshOK
  <2>7. BinOK'
    BY <1>1, <2>1, BinLeft DEF BinOK
  <2> QED BY <1>2, <1>3, <2>2, <2>4, <2>6, <2>7
<1>6. CASE r # Away
  <2> DEFINE B == IF route = Away /\ r = at THEN bins ELSE Left(bins)
  <2>1. Entered(r, lists, B)
    BY <1>6 DEF Navigate
  <2>2. B \in SUBSET BinRequest
    BY BinLeft DEF BinOK
  <2> HIDE DEF B
  <2>3. RouteOK' /\ ListsOK' /\ FreshOK' /\ bins' \subseteq BinRequest
    BY <1>1, <1>4, <1>6, <2>1, <2>2, EnteredKept
  <2>4. BinOK'
    BY <1>1, <2>3 DEF BinOK
  <2> QED BY <1>2, <1>3, <2>3, <2>4
<1> QED BY <1>5, <1>6

-----------------------------------------------------------------------------
(* Search, pages, refresh                                                      *)
LEMMA TypeKept == ASSUME FilesIInv, Type PROVE FilesIInv'
<1> USE DEF FilesIInv
<1>1. /\ UNCHANGED <<route, at, search, offset, files, loading, error, lists>>
      /\ UNCHANGED <<told, refreshDue, content, known, calls, bin, entries, bins, ticked, picked>>
      /\ UNCHANGED <<dialog, chosen, monitor, banner>> /\ query' \in Texts
  BY DEF Type, controller, folderShown, trash, uploaded, choice, operation, store, Texts
<1>2. RouteOK'
  BY <1>1 DEF RouteOK, Mounted
<1> QED BY <1>1, <1>2, ListsSame, StoreSame, BinSame, CallsSame, DeletingSame, FreshSame

LEMMA SearchKept == ASSUME FilesIInv, SetSearchQuery PROVE FilesIInv'
<1> USE DEF FilesIInv
<1>1. /\ UNCHANGED <<route, at, query, files, told, refreshDue, content, known, calls, bin>>
      /\ UNCHANGED <<entries, bins, ticked, picked, dialog, chosen, monitor, banner>>
  BY DEF SetSearchQuery, controller, trash, uploaded, choice, operation, store
<1>2. StoreOK' /\ BinOK' /\ CallsOK' /\ DeletingOK'
  BY <1>1, StoreSame, BinSame, CallsSame, DeletingSame
<1>3. CASE UNCHANGED <<search, offset, lists, loading, error>>
  BY <1>1, <1>2, <1>3, RouteSame, ListsSame, FreshSame
<1>4. CASE search' = query /\ offset' = 0
  <2>1. RouteOK'
    BY <1>1, <1>4 DEF RouteOK, Mounted, LastOffset
  <2>2. CASE at = Trash /\ UNCHANGED <<lists, loading, error>>
    <3>1. route' \notin Folders
      BY <1>1, <2>2 DEF RouteOK, Mounted, Folders, Trash, Away
    <3>2. FreshOK'
      BY <1>1, <3>1 DEF FreshOK
    <3> QED BY <1>1, <1>2, <2>1, <2>2, <3>2, ListsSame
  <2>3. CASE at # Trash /\ LoadFiles(lists, <<at, query, 0>>)
    <3>1. <<at, query, 0>> \in Wants
      BY <2>3 DEF RouteOK, Wants, LastOffset
    <3>2. route' \in Folders => <<at, query, 0>> = <<route', search', offset'>>
      BY <1>1, <1>4 DEF RouteOK, Mounted, Folders, Away
    <3>3. told' # {} => refreshDue'
      BY <1>1 DEF FreshOK
    <3>4. ListsOK' /\ FreshOK'
      BY <1>1, <2>3, <3>1, <3>2, <3>3, LoadKept
    <3> QED BY <1>2, <2>1, <3>4
  <2> QED
    <3>1. CASE query = search /\ offset = 0
      BY <1>2, <1>3, <3>1 DEF SetSearchQuery, controller
    <3> QED BY <2>2, <2>3, <3>1 DEF SetSearchQuery
<1> QED BY <1>3, <1>4 DEF SetSearchQuery, controller

LEMMA PageKept == ASSUME FilesIInv, SetPageOffset PROVE FilesIInv'
<1> USE DEF FilesIInv
<1> DEFINE o == LastOffset - files.want[3]
<1>1. /\ UNCHANGED <<route, at, search, query, files, told, refreshDue, content, known, calls>>
      /\ UNCHANGED <<bin, entries, bins, ticked, picked, dialog, chosen, monitor, banner>>
      /\ route \in Folders /\ files # NoFiles
      /\ offset' = o /\ LoadFiles(lists, <<at, search, o>>)
  BY DEF SetPageOffset, field, trash, uploaded, choice, operation, store
<1>2. o \in 0..LastOffset
  <2>1. files.want \in Wants
    BY <1>1 DEF ListsOK
  <2> QED BY <2>1 DEF Wants, LastOffset
<1> HIDE DEF o
<1>3. at = route /\ <<at, search, o>> \in Wants
  BY <1>1, <1>2 DEF RouteOK, Mounted, Folders, Away, Wants
<1>4. told' # {} => refreshDue'
  BY <1>1 DEF FreshOK
<1>5. <<at, search, o>> = <<route', search', offset'>>
  BY <1>1, <1>3
<1>6. ListsOK' /\ FreshOK'
  BY <1>1, <1>3, <1>4, <1>5, LoadKept
<1>7. RouteOK'
  BY <1>1, <1>2 DEF RouteOK, Mounted
<1> QED BY <1>1, <1>6, <1>7, StoreSame, BinSame, CallsSame, DeletingSame

LEMMA ButtonKept == ASSUME FilesIInv, Refresh PROVE FilesIInv'
<1> USE DEF FilesIInv
<1>1. /\ UNCHANGED <<route, at, search, query, files, told, refreshDue, content, known, calls>>
      /\ UNCHANGED <<bin, entries, ticked, picked, dialog, chosen, monitor, banner>>
  BY DEF Refresh, field, uploaded, choice, operation, store
<1>2. StoreOK' /\ CallsOK' /\ DeletingOK' /\ (told' # {} => refreshDue')
  BY <1>1, StoreSame, CallsSame, DeletingSame DEF FreshOK
<1>3. CASE LoadTrash(bins) /\ UNCHANGED <<offset, lists, loading, error>>
  <2>1. BinOK'
    BY <1>1, <1>3, BinAsked DEF BinOK
  <2> QED BY <1>1, <1>2, <1>3, <2>1, RouteSame, ListsSame, FreshSame
<1>4. CASE Refreshed
  <2>1. ListsOK' /\ FreshOK' /\ bins' \subseteq BinRequest /\ offset' = 0
    BY <1>1, <1>2, <1>4, RefreshKept
  <2>2. RouteOK' /\ BinOK'
    BY <1>1, <2>1 DEF RouteOK, Mounted, BinOK, LastOffset
  <2> QED BY <1>2, <2>1, <2>2
<1> QED BY <1>3, <1>4 DEF Refresh

LEMMA ContentGrows ==
  ASSUME StoreOK, CallsOK, NEW f \in Folders, UNCHANGED calls, content' = [content EXCEPT ![f] = @ + 1],
         known' \in {known, [known EXCEPT ![f] = content[f] + 1]}
  PROVE  StoreOK' /\ \A g \in Folders : g # f => known'[g] = known[g]
<1>1. \A g \in Folders : content[g] \in Nat /\ content'[g] \in Nat /\ content[g] <= content'[g]
  BY DEF StoreOK
<1>2. content' \in [Folders -> Nat] /\ known' \in [Folders -> Nat]
  BY DEF StoreOK
<1>3. \A g \in Folders : known'[g] <= content'[g] /\ (g # f => known'[g] = known[g])
  <2>1. CASE known' = known
    <3>1. \A g \in Folders : known[g] \in Nat /\ known[g] <= content[g]
      BY DEF StoreOK
    <3> QED BY <1>1, <2>1, <3>1
  <2>2. CASE known' = [known EXCEPT ![f] = content[f] + 1]
    BY <2>2 DEF StoreOK
  <2> QED BY <2>1, <2>2
<1>4. ASSUME NEW c \in calls', c.on \in Folders PROVE c.version <= content'[c.on]
  <2>1. c.version \in Nat /\ c.version <= content[c.on]
    BY <1>4 DEF StoreOK, CallsOK, CallRecord
  <2> QED BY <1>1, <1>4, <2>1
<1> QED BY <1>1, <1>2, <1>3, <1>4 DEF StoreOK

LEMMA UploadsKept == ASSUME FilesIInv, NEW f \in Folders, ObserveUploads(f) PROVE FilesIInv'
<1> USE DEF FilesIInv
<1>1. /\ UNCHANGED <<route, at, search, query, offset, files, loading, error, lists, calls, bin>>
      /\ UNCHANGED <<entries, bins, ticked, picked, dialog, chosen, monitor, banner>>
      /\ told' = told \cup {f} /\ refreshDue' = TRUE
  BY DEF ObserveUploads, controller, folderShown, field, trash, choice, operation
<1>2. RouteOK' /\ ListsOK' /\ BinOK' /\ CallsOK' /\ DeletingOK'
  BY <1>1, RouteSame, ListsSame, BinSame, CallsSame, DeletingSame
<1>3. StoreOK' /\ \A g \in Folders : g # f => known'[g] = known[g]
  <2>1. CASE UNCHANGED <<content, known>>
    BY <1>1, <2>1, StoreSame
  <2>2. CASE content' = [content EXCEPT ![f] = @ + 1] /\ known' = [known EXCEPT ![f] = content[f] + 1]
    BY <1>1, <2>2, ContentGrows
  <2> QED BY <2>1, <2>2 DEF ObserveUploads
<1>4. FreshOK'
  <2>1. ASSUME NEW v, Recent(v), route \in Folders PROVE Recent(v)'
    <3>1. CASE route = f
      BY <1>1, <3>1 DEF Recent
    <3>2. CASE route # f
      <4>1. known'[route] = known[route]
        BY <1>3, <2>1, <3>2
      <4> QED BY <1>1, <2>1, <4>1 DEF Recent
    <3> QED BY <3>1, <3>2
  <2> QED BY <1>1, <2>1 DEF FreshOK, Asked
<1> QED BY <1>2, <1>3, <1>4

(* Nothing is told of a late publication.                                      *)
LEMMA PublishLateKept == ASSUME FilesIInv, NEW f \in Folders, PublishLate(f) PROVE FilesIInv'
<1> USE DEF FilesIInv
<1>1. /\ UNCHANGED <<route, at, search, query, offset, files, loading, error, lists, calls, bin>>
      /\ UNCHANGED <<entries, bins, ticked, picked, dialog, chosen, monitor, banner>>
      /\ UNCHANGED <<told, refreshDue, known>> /\ content' = [content EXCEPT ![f] = @ + 1]
  BY DEF PublishLate, controller, folderShown, field, trash, choice, operation, uploaded
<1>2. RouteOK' /\ ListsOK' /\ BinOK' /\ CallsOK' /\ DeletingOK'
  BY <1>1, RouteSame, ListsSame, BinSame, CallsSame, DeletingSame
<1>3. StoreOK'
  BY <1>1, ContentGrows
<1>4. FreshOK'
  BY <1>1, FreshSame
<1> QED BY <1>2, <1>3, <1>4

LEMMA RefreshUploadedKept == ASSUME FilesIInv, RefreshUploaded PROVE FilesIInv'
<1> USE DEF FilesIInv
<1>1. /\ UNCHANGED <<route, at, search, query, files, content, known, calls, bin, entries, ticked>>
      /\ UNCHANGED <<picked, dialog, chosen, monitor, banner>> /\ told' = {}
  BY DEF RefreshUploaded, field, choice, operation, store
<1>2. StoreOK' /\ CallsOK' /\ DeletingOK'
  BY <1>1, StoreSame, CallsSame, DeletingSame
<1>3. CASE at \in told
  <2>1. Refreshed
    BY <1>3 DEF RefreshUploaded
  <2>2. ListsOK' /\ FreshOK' /\ bins' \subseteq BinRequest /\ offset' = 0
    BY <1>1, <2>1, RefreshKept
  <2>3. RouteOK' /\ BinOK'
    BY <1>1, <2>2 DEF RouteOK, Mounted, BinOK, LastOffset
  <2> QED BY <1>2, <2>2, <2>3
<1>4. CASE at \notin told
  <2>1. UNCHANGED <<offset, lists, loading, error, bins>>
    BY <1>4 DEF RefreshUploaded
  <2>2. RouteOK' /\ ListsOK' /\ BinOK'
    BY <1>1, <2>1, RouteSame, ListsSame, BinSame
  <2>3. FreshOK'
    <3>1. route \in Folders => route \notin told
      BY <1>4 DEF RouteOK, Mounted, Folders, Away
    <3> QED BY <1>1, <2>1, <3>1 DEF FreshOK, Asked, Recent
  <2> QED BY <1>2, <2>2, <2>3
<1> QED BY <1>3, <1>4

-----------------------------------------------------------------------------
(* The page is told of a change, and loads the list again.                     *)
LEMMA DismissalKept ==
  ASSUME FilesIInv, NEW c \in calls, Dismissal(c)
  PROVE  DeletingOK' /\ ticked' \subseteq Items /\ picked' = picked
<1>1. UNCHANGED <<picked, chosen>> /\ dialog' \in {dialog, "none"} /\ ticked' \in {{}, ticked}
  BY DEF Dismissal, choice
<1> QED BY <1>1 DEF FilesIInv, DeletingOK, BinOK

LEMMA AcceptKept == ASSUME FilesIInv, NEW c \in calls, AcceptMutation(c) PROVE FilesIInv'
<1> USE DEF FilesIInv
<1>1. /\ UNCHANGED <<route, at, search, query, files, told, refreshDue, content, bin, entries>>
      /\ Dismissal(c)
  BY DEF AcceptMutation, field, uploaded, store
<1>2. DeletingOK' /\ ticked' \subseteq Items /\ picked' = picked /\ (told' # {} => refreshDue')
  BY <1>1, DismissalKept DEF FreshOK
<1>3. c \in CallRecord
  BY DEF CallsOK
<1>4. CASE Put(c, [c EXCEPT !.pc = "over"]) /\ Told(c) /\ Refreshed /\ UNCHANGED operation
  <2> DEFINE new == [c EXCEPT !.pc = "over"]
  <2>1. new \in CallRecord /\ new.n = c.n /\ new.on = c.on /\ new.version = c.version
    BY <1>3, Moved
  <2> HIDE DEF new
  <2>2. Put(c, new)
    BY <1>4 DEF new
  <2>3. known' \in [Folders -> Nat] /\ \A f \in Folders : known'[f] <= content[f]
    BY <1>4, ToldKept
  <2>4. /\ content' \in [Folders -> Nat]
        /\ \A f \in Folders : content[f] <= content'[f] /\ known'[f] <= content'[f]
        /\ new.on \in Folders => new.version <= content'[new.on]
    BY <1>1, <2>1, <2>3 DEF StoreOK
  <2>5. CallsOK' /\ StoreOK'
    BY <1>4, <2>1, <2>2, <2>3, <2>4, PutKept
  <2>6. ListsOK' /\ FreshOK' /\ bins' \subseteq BinRequest /\ offset' = 0
    BY <1>1, <1>2, <1>4, RefreshKept
  <2>7. RouteOK' /\ BinOK'
    BY <1>1, <1>2, <2>6 DEF RouteOK, Mounted, BinOK, LastOffset
  <2> QED BY <1>2, <2>5, <2>6, <2>7
<1> DEFINE pc == IF c.pc = "early" THEN "completed" ELSE "running"
<1>5. CASE /\ Put(c, [c EXCEPT !.pc = pc]) /\ banner' = c.n /\ monitor' = c.n
           /\ UNCHANGED <<offset, lists, loading, error, bins, known>>
  <2>1. pc \in {"asked", "done", "accepted", "early", "running", "completed", "failed", "over"}
    OBVIOUS
  <2> HIDE DEF pc
  <2> DEFINE new == [c EXCEPT !.pc = pc]
  <2>2. new \in CallRecord /\ new.n = c.n /\ new.on = c.on /\ new.version = c.version
    BY <1>3, <2>1, Moved
  <2> HIDE DEF new
  <2>3. Put(c, new)
    BY <1>5 DEF new
  <2>4. CallsOK'
    BY <1>5, <2>2, <2>3, CallPut DEF CallsOK
  <2>5. StoreOK'
    BY <1>1, <1>5, <2>2, <2>3 DEF StoreOK, Put
  <2>6. RouteOK' /\ ListsOK' /\ FreshOK'
    BY <1>1, <1>5, RouteSame, ListsSame, FreshSame
  <2>7. BinOK'
    BY <1>1, <1>2, <1>5 DEF BinOK
  <2> QED BY <1>2, <2>4, <2>5, <2>6, <2>7
<1> QED BY <1>4, <1>5 DEF AcceptMutation

LEMMA MonitorKept == ASSUME FilesIInv, NEW c \in calls, MonitorOperation(c) PROVE FilesIInv'
<1> USE DEF FilesIInv
<1>1. /\ UNCHANGED <<route, at, search, query, files, told, refreshDue, content, bin, entries>>
      /\ UNCHANGED <<ticked, dialog, picked, chosen, calls>> /\ monitor' = None
      /\ Watched(c)
  BY DEF MonitorOperation, field, uploaded, choice, store
<1>2. DeletingOK' /\ (told' # {} => refreshDue')
  BY <1>1, DeletingSame DEF FreshOK
<1>3. CallsOK'
  BY <1>1 DEF CallsOK
<1>4. CASE Told(c) /\ Refreshed
  <2>1. known' \in [Folders -> Nat] /\ \A f \in Folders : known'[f] <= content[f]
    BY <1>4, ToldKept
  <2>2. StoreOK'
    BY <1>1, <2>1 DEF StoreOK
  <2>3. ListsOK' /\ FreshOK' /\ bins' \subseteq BinRequest /\ offset' = 0
    BY <1>1, <1>2, <1>4, RefreshKept
  <2>4. RouteOK' /\ BinOK'
    BY <1>1, <2>3 DEF RouteOK, Mounted, BinOK, LastOffset
  <2> QED BY <1>2, <1>3, <2>2, <2>3, <2>4
<1>5. CASE UNCHANGED <<known, offset, lists, loading, error, bins>>
  BY <1>1, <1>2, <1>3, <1>5, RouteSame, ListsSame, StoreSame, BinSame, FreshSame
<1> QED BY <1>1, <1>4, <1>5 DEF Watched

-----------------------------------------------------------------------------
LEMMA FilesStep == FilesIInv /\ [FilesNext]_fvars => FilesIInv'
<1> SUFFICES ASSUME FilesIInv, [FilesNext]_fvars PROVE FilesIInv'
  OBVIOUS
<1>1. CASE UNCHANGED fvars
  <2> USE DEF fvars, controller, folderShown, trash, field, uploaded, choice, operation, store
  <2>1. RouteOK' /\ ListsOK' /\ StoreOK' /\ BinOK'
    BY <1>1, RouteSame, ListsSame, StoreSame, BinSame DEF FilesIInv
  <2>2. CallsOK' /\ DeletingOK' /\ FreshOK'
    BY <1>1, CallsSame, DeletingSame, FreshSame DEF FilesIInv
  <2> QED BY <2>1, <2>2 DEF FilesIInv
<1>2. CASE \E f \in Folders : OpenFolder(f) \/ ObserveUploads(f) \/ PublishLate(f)
  BY <1>2, OpenFolderKept, UploadsKept, PublishLateKept
<1>3. CASE \E r \in Folders \cup {Trash, Away} : Navigate(r)
  BY <1>3, NavigateKept
<1>4. CASE Type \/ SetSearchQuery \/ SetPageOffset \/ Refresh \/ RefreshUploaded \/ StatusLoaded
  BY <1>4, TypeKept, SearchKept, PageKept, ButtonKept, RefreshUploadedKept, StatusKept
<1>5. CASE \E r \in lists : HandleFiles(r) \/ FilesLoaded(r)
  BY <1>5, HandleFilesKept, FilesLoadedKept
<1>6. CASE \E r \in bins : HandleTrash(r) \/ TrashLoaded(r)
  BY <1>6, TrashKept
<1>7. CASE \/ Select \/ SelectByKey \/ OpenEntryDialog \/ OpenRowDelete \/ OpenSelectedDelete
           \/ OpenEmpty \/ CloseDialog
  BY <1>7, SelectKept, OpenDialogKept, OpenDeleteKept, CloseDialogKept
<1>8. CASE SubmitRename \/ SubmitMove \/ Confirm \/ RunPermanentDelete \/ RunRestore
  BY <1>8, SubmitsKept, PermanentDeleteKept, RestoreKept
<1>9. CASE \E c \in calls : \/ HandleCall(c) \/ RunOperation(c) \/ AcceptMutation(c)
                            \/ FailAction(c) \/ MonitorOperation(c)
  BY <1>9, HandleCallKept, RunOperationKept, AcceptKept, FailActionKept, MonitorKept
<1> QED BY <1>1, <1>2, <1>3, <1>4, <1>5, <1>6, <1>7, <1>8, <1>9 DEF FilesNext

LEMMA FilesAlwaysIInv == BrowserSpec => []FilesIInv
<1>1. BrowserInit => FilesIInv
  BY FilesInitially DEF BrowserInit
<1>2. FilesIInv /\ [BrowserNext]_bvars => FilesIInv'
  <2>1. [BrowserNext]_bvars => [FilesNext]_fvars
    BY DEF BrowserNext, bvars
  <2> QED BY <2>1, FilesStep
<1> QED BY <1>1, <1>2, PTL DEF BrowserSpec

(* The controller, its requests and the operation it follows are of the        *)
(* program's making, and a folder on the screen for which nothing is due and   *)
(* nothing failed is the one of the route, its query and page, not older than  *)
(* anything the page was told of (files-controller.ts, files-page.tsx).        *)
THEOREM FilesAlwaysCurrent == BrowserSpec => []FilesInv
BY FilesAlwaysIInv, FilesImplies, PTL

-----------------------------------------------------------------------------
(* Only the delete dialog deletes for good, and it hands over what it holds.   *)
Chosen ==
  \A c \in calls' : c.kind = "delete" /\ (\A d \in calls : d.n # c.n) => c.ids = chosen

LEMMA PutChosen == ASSUME NEW c \in calls, NEW new, new.n = c.n, Put(c, new) PROVE Chosen
BY DEF Put, Chosen

LEMMA OtherKind == ASSUME NEW kind, NEW ids, kind # "delete", Call(kind, ids) PROVE Chosen
BY DEF Call, Chosen

LEMMA StepChosen == FilesIInv /\ [FilesNext]_fvars => Chosen \/ UNCHANGED fvars
<1> SUFFICES ASSUME FilesIInv, FilesNext PROVE Chosen
  OBVIOUS
<1> USE DEF FilesIInv
<1>1. CASE UNCHANGED calls
  BY <1>1 DEF Chosen
<1>2. CASE SubmitRename \/ SubmitMove \/ Confirm \/ RunRestore
  BY <1>2, OtherKind DEF SubmitRename, SubmitMove, Confirm, RunRestore
<1>3. CASE RunPermanentDelete
  <2>1. Doomed = chosen
    BY <1>3 DEF RunPermanentDelete, Doomed, DeletingOK
  <2> QED BY <1>3, <2>1 DEF RunPermanentDelete, Call, Chosen
<1>4. CASE \E r \in Folders \cup {Trash, Away} : Navigate(r)
  <2>1. calls' = Unmounted(calls)
    BY <1>4 DEF Navigate
  <2>2. \A c \in calls : [c EXCEPT !.mine = FALSE].n = c.n
    BY DEF CallsOK, CallRecord
  <2> QED BY <2>1, <2>2 DEF Unmounted, Chosen
<1>5. ASSUME NEW c \in calls, HandleCall(c) \/ RunOperation(c) \/ AcceptMutation(c) \/ FailAction(c)
      PROVE  Chosen
  <2>1. PICK new : new.n = c.n /\ Put(c, new)
    <3>1. c \in CallRecord
      BY DEF CallsOK
    <3>2. \A pc, v : [c EXCEPT !.pc = pc].n = c.n /\ [c EXCEPT !.pc = pc, !.version = v].n = c.n
      BY <3>1 DEF CallRecord
    <3> QED BY <1>5, <3>2 DEF HandleCall, RunOperation, AcceptMutation, FailAction
  <2> QED BY <2>1, PutChosen
<1>6. CASE \E f \in Folders : OpenFolder(f) \/ ObserveUploads(f) \/ PublishLate(f)
  BY <1>1, <1>6 DEF OpenFolder, ObserveUploads, PublishLate
<1>7. CASE Type \/ SetSearchQuery \/ SetPageOffset \/ Refresh \/ RefreshUploaded \/ StatusLoaded
  BY <1>1, <1>7 DEF Type, SetSearchQuery, SetPageOffset, Refresh, RefreshUploaded, StatusLoaded
<1>8. CASE \/ \E r \in lists : HandleFiles(r) \/ FilesLoaded(r)
           \/ \E r \in bins : HandleTrash(r) \/ TrashLoaded(r)
  BY <1>1, <1>8 DEF HandleFiles, FilesLoaded, HandleTrash, TrashLoaded
<1>9. CASE \/ Select \/ SelectByKey \/ OpenEntryDialog \/ OpenRowDelete \/ OpenSelectedDelete
           \/ OpenEmpty \/ CloseDialog
  BY <1>1, <1>9 DEF Select, SelectByKey, OpenEntryDialog, OpenRowDelete, OpenSelectedDelete,
     OpenEmpty, OpenDelete, CloseDialog, Chooses
<1>10. CASE \E c \in calls : MonitorOperation(c)
  BY <1>1, <1>10 DEF MonitorOperation
<1> QED BY <1>2, <1>3, <1>4, <1>5, <1>6, <1>7, <1>8, <1>9, <1>10 DEF FilesNext

(* What is deleted for good is what the user chose when the dialog was opened, *)
(* whatever answers arrive meanwhile (files-page.tsx, runPermanentDelete).     *)
THEOREM DeletesAlwaysChosen == BrowserSpec => DeletesChosen
<1>1. FilesIInv /\ [BrowserNext]_bvars => [Chosen]_fvars
  <2>1. [BrowserNext]_bvars => [FilesNext]_fvars
    BY DEF BrowserNext, bvars
  <2> QED BY <2>1, StepChosen
<1>2. BrowserSpec => [][Chosen]_fvars
  BY <1>1, FilesAlwaysIInv, PTL DEF BrowserSpec
<1> QED BY <1>2 DEF DeletesChosen, Chosen

-----------------------------------------------------------------------------
(* The upload dialog: lemmas about its operators *)

(* Recursion and induction, from the least element of a set of numbers.        *)
LEMMA LeastNumber ==
  ASSUME NEW S \in SUBSET Nat, S # {}
  PROVE  Min(S) \in S /\ \A m \in S : Min(S) <= m
<1>1. IsWellFoundedOn(OpToRel(<, Nat), Nat)
  BY NatLessThanWellFounded
<1>2. PICK k \in S : \A m \in S : ~(<<m, k>> \in OpToRel(<, Nat))
  BY <1>1, WFMin
<1>3. ASSUME NEW m \in S PROVE k <= m
  <2>1. ~(<<m, k>> \in OpToRel(<, Nat))
    BY <1>2
  <2> QED BY <2>1 DEF OpToRel
<1> QED BY <1>3 DEF Min

-----------------------------------------------------------------------------
(* Names: a new one is different from those used, whatever they are.           *)
LEMMA SuffixFree ==
  ASSUME NEW stem \in Name, NEW used, IsFiniteSet(used)
  PROVE  \E n \in 2..Cardinality(used) + 2 : Append(stem, n) \notin used
<1> SUFFICES ASSUME \A n \in 2..Cardinality(used) + 2 : Append(stem, n) \in used PROVE FALSE
  OBVIOUS
<1> DEFINE D == 2..Cardinality(used) + 2
           f == [n \in D |-> Append(stem, n)]
<1>1. Cardinality(used) \in Nat
  BY FS_CardinalityType
<1>2. IsFiniteSet(D) /\ Cardinality(D) = Cardinality(used) + 1
  BY <1>1, FS_Interval
<1>3. \A n, m \in D : Append(stem, n) = Append(stem, m) => n = m
  <2>1. ASSUME NEW n \in Nat PROVE Append(stem, n)[Len(stem) + 1] = n
    BY DEF Name
  <2> QED BY <1>1, <2>1
<1>4. f \in Injection(D, used)
  BY <1>3 DEF Injection, IsInjective
<1> HIDE DEF f
<1>5. Cardinality(D) <= Cardinality(used)
  BY <1>4, FS_Injection
<1> QED BY <1>1, <1>2, <1>5

LEMMA UniqueIsNew ==
  ASSUME NEW stem \in Name, NEW used, IsFiniteSet(used)
  PROVE  UniqueArchiveName(stem, used) \in Name /\ UniqueArchiveName(stem, used) \notin used
<1> DEFINE free == {n \in 2..Cardinality(used) + 2 : Append(stem, n) \notin used}
<1>1. CASE stem \notin used
  BY <1>1 DEF UniqueArchiveName
<1>2. CASE stem \in used
  <2>1. Cardinality(used) \in Nat
    BY FS_CardinalityType
  <2>2. free # {} /\ free \subseteq Nat
    BY <2>1, SuffixFree
  <2>3. Min(free) \in free
    <3> HIDE DEF free
    <3> QED BY <2>2, LeastNumber
  <2>4. UniqueArchiveName(stem, used) = Append(stem, Min(free))
    BY <1>2 DEF UniqueArchiveName
  <2>5. Min(free) \in Nat /\ Append(stem, Min(free)) \notin used
    BY <2>2, <2>3
  <2> HIDE DEF free
  <2> QED BY <2>4, <2>5 DEF Name
<1> QED BY <1>1, <1>2

(* Names given one after the other differ.                                     *)
Naming(f, groups, o, N) ==
  f = [i \in 0..N |->
         IF i = 0 THEN <<>>
         ELSE Append(f[i - 1], UniqueArchiveName(Stem(groups[i], o), ToSet(f[i - 1])))]

LEMMA NamingExists ==
  ASSUME NEW groups, NEW o, NEW N \in Nat PROVE \E f : Naming(f, groups, o, N)
<1> SUFFICES ASSUME ~ \E f : Naming(f, groups, o, N) PROVE FALSE
  OBVIOUS
<1> DEFINE S == {n \in Nat : ~ \E f : Naming(f, groups, o, n)}
<1>1. PICK k \in S : \A m \in S : k <= m
  <2>1. S \in SUBSET Nat /\ N \in S
    OBVIOUS
  <2> HIDE DEF S
  <2> QED BY <2>1, LeastNumber
<1>2. k \in Nat /\ ~ \E f : Naming(f, groups, o, k)
  OBVIOUS
<1>3. CASE k = 0
  <2> DEFINE g == [i \in 0..0 |-> <<>>]
  <2>1. Naming(g, groups, o, 0)
    BY DEF Naming
  <2> QED BY <1>2, <1>3, <2>1
<1>4. CASE k # 0
  <2>1. k - 1 \in Nat /\ k - 1 \notin S
    BY <1>1, <1>2, <1>4
  <2>2. PICK f : Naming(f, groups, o, k - 1)
    BY <2>1
  <2> DEFINE last == Append(f[k - 1], UniqueArchiveName(Stem(groups[k], o), ToSet(f[k - 1])))
             g == [i \in 0..k |-> IF i = k THEN last ELSE f[i]]
  <2>3. \A i \in 0..k : i # 0 => g[i - 1] = f[i - 1]
    BY <1>2
  <2>4. \A i \in 0..k :
          g[i] = IF i = 0 THEN <<>>
                 ELSE Append(g[i - 1], UniqueArchiveName(Stem(groups[i], o), ToSet(g[i - 1])))
    <3>1. ASSUME NEW i \in 0..k, i = k PROVE g[i] = Append(g[i - 1],
                   UniqueArchiveName(Stem(groups[i], o), ToSet(g[i - 1])))
      <4>1. g[i] = last
        BY <3>1
      <4> QED BY <1>2, <1>4, <2>3, <3>1, <4>1
    <3>2. ASSUME NEW i \in 0..k, i # k
          PROVE  g[i] = IF i = 0 THEN <<>>
                 ELSE Append(g[i - 1], UniqueArchiveName(Stem(groups[i], o), ToSet(g[i - 1])))
      <4>1. i \in 0..(k - 1) /\ g[i] = f[i]
        BY <1>2, <3>2
      <4>2. f[i] = IF i = 0 THEN <<>>
                 ELSE Append(f[i - 1], UniqueArchiveName(Stem(groups[i], o), ToSet(f[i - 1])))
        BY <2>2, <4>1 DEF Naming
      <4> QED BY <2>3, <4>1, <4>2
    <3> QED BY <1>4, <3>1, <3>2
  <2>5. Naming(g, groups, o, k)
    <3> DEFINE h == [i \in 0..k |-> IF i = 0 THEN <<>>
                 ELSE Append(g[i - 1], UniqueArchiveName(Stem(groups[i], o), ToSet(g[i - 1])))]
    <3>1. \A i \in 0..k : g[i] = h[i]
      BY <2>4
    <3>2. g = h
      BY <3>1
    <3> QED BY <3>2 DEF Naming
  <2> QED BY <1>2, <2>5
<1> QED BY <1>3, <1>4

LEMMA AppendOne ==
  ASSUME NEW T, NEW s \in Seq(T), NEW e \in T
  PROVE  /\ Append(s, e) \in Seq(T) /\ Len(Append(s, e)) = Len(s) + 1
         /\ Append(s, e)[Len(s) + 1] = e /\ \A i \in 1..Len(s) : Append(s, e)[i] = s[i]
OBVIOUS

LEMMA NamingDistinct ==
  ASSUME NEW groups, NEW o, NEW N \in Nat, NEW f, Naming(f, groups, o, N),
         \A i \in 1..N : Stem(groups[i], o) \in Name
  PROVE  /\ f[N] \in [1..N -> Name]
         /\ \A a, b \in 1..N : a < b => f[N][a] # f[N][b]
<1> DEFINE Fine(i) == /\ f[i] \in Seq(Name) /\ Len(f[i]) = i
                      /\ \A a, b \in 1..i : a < b => f[i][a] # f[i][b]
           S == {i \in 0..N : ~Fine(i)}
<1>1. S = {}
  <2> SUFFICES ASSUME S # {} PROVE FALSE
    OBVIOUS
  <2>1. PICK k \in S : \A m \in S : k <= m
    <3>1. S \in SUBSET Nat
      OBVIOUS
    <3> HIDE DEF S
    <3> QED BY <3>1, LeastNumber
  <2>2. k \in 0..N /\ ~Fine(k)
    OBVIOUS
  <2>3. CASE k = 0
    <3>1. f[0] = <<>>
      BY DEF Naming
    <3> QED BY <2>2, <2>3, <3>1
  <2>4. CASE k # 0
    <3> DEFINE p == f[k - 1]
               name == UniqueArchiveName(Stem(groups[k], o), ToSet(p))
    <3>1. k - 1 \in 0..N /\ Fine(k - 1) /\ k \in 1..N
      <4>1. k - 1 \in 0..N /\ k \in 1..N /\ ~(k <= k - 1)
        BY <2>2, <2>4
      <4>2. k - 1 \notin S
        BY <2>1, <4>1
      <4> HIDE DEF Fine
      <4> QED BY <4>1, <4>2
    <3>2. f[k] = Append(p, name)
      BY <2>2, <2>4 DEF Naming
    <3>3. p \in Seq(Name) /\ Len(p) = k - 1 /\ DOMAIN p = 1..(k - 1)
      <4>1. p \in Seq(Name) /\ Len(p) = k - 1
        BY <3>1
      <4> HIDE DEF p
      <4> QED BY <4>1
    <3>4. IsFiniteSet(ToSet(p))
      <4>1. p \in Surjection(1..(k - 1), ToSet(p))
        BY <3>3 DEF Surjection, ToSet
      <4>2. IsFiniteSet(1..(k - 1))
        BY <2>2, FS_Interval
      <4> QED BY <4>1, <4>2, FS_Surjection
    <3>5. name \in Name /\ name \notin ToSet(p)
      BY <3>1, <3>4, UniqueIsNew
    <3> HIDE DEF name
    <3> HIDE DEF p
    <3>i. k \in Nat /\ (k - 1) + 1 = k
      BY <2>2
    <3>6. /\ f[k] \in Seq(Name) /\ Len(f[k]) = k /\ f[k][k] = name
          /\ \A a \in 1..(k - 1) : f[k][a] = p[a]
      BY <3>i, <3>2, <3>3, <3>5, AppendOne
    <3>7. \A a, b \in 1..(k - 1) : a < b => p[a] # p[b]
      BY <3>1 DEF p
    <3>8. \A a \in 1..(k - 1) : p[a] # name
      BY <3>3, <3>5 DEF ToSet
    <3>9. \A a, b \in 1..k : a < b => f[k][a] # f[k][b]
      <4> SUFFICES ASSUME NEW a \in 1..k, NEW b \in 1..k, a < b PROVE f[k][a] # f[k][b]
        OBVIOUS
      <4>1. a \in 1..(k - 1)
        BY <2>2
      <4>2. CASE b = k
        BY <3>6, <3>8, <4>1, <4>2
      <4>3. CASE b # k
        <5>1. b \in 1..(k - 1)
          BY <2>2, <4>3
        <5> QED BY <3>6, <3>7, <4>1, <5>1
      <4> QED BY <4>2, <4>3
    <3> QED BY <2>2, <3>6, <3>9
  <2> QED BY <2>3, <2>4
<1>2. Fine(N)
  BY <1>1
<1> QED BY <1>2

LEMMA ArchiveNamesDistinct ==
  ASSUME NEW groups, NEW o, Len(groups) \in Nat,
         \A i \in 1..Len(groups) : Stem(groups[i], o) \in Name
  PROVE  /\ ArchiveNames(groups, o) \in [1..Len(groups) -> Name]
         /\ \A a, b \in 1..Len(groups) :
              a < b => ArchiveNames(groups, o)[a] # ArchiveNames(groups, o)[b]
<1> DEFINE n == Len(groups)
           f == CHOOSE g : Naming(g, groups, o, n)
<1>1. Naming(f, groups, o, n)
  BY NamingExists
<1>2. ArchiveNames(groups, o) = f[n]
  BY DEF ArchiveNames, Naming
<1> HIDE DEF f
<1> QED BY <1>1, <1>2, NamingDistinct

-----------------------------------------------------------------------------
(* Groups: no file is in two, and so their first fs put them in an order.   *)
Groups(G) ==
  /\ IsFiniteSet(G)
  /\ \A g \in G : g \in SUBSET Nat /\ g # {}
  /\ \A g, h \in G : g # h => g \cap h = {}
Sorts(s, G) ==
  /\ s \in [1..Cardinality(G) -> G]
  /\ \A i, j \in 1..Cardinality(G) : i < j => Min(s[i]) < Min(s[j])

LEMMA FirstsDiffer ==
  ASSUME NEW G, Groups(G), NEW g \in G
  PROVE  Min(g) \in g /\ Min(g) \in Nat /\ \A h \in G : Min(h) = Min(g) => h = g
<1>1. \A h \in G : Min(h) \in h /\ Min(h) \in Nat
  BY LeastNumber DEF Groups
<1> QED BY <1>1 DEF Groups

LEMMA SortExists == ASSUME NEW G, Groups(G) PROVE \E s : Sorts(s, G)
<1> SUFFICES ASSUME ~ \E s : Sorts(s, G) PROVE FALSE
  OBVIOUS
<1> DEFINE Bad(n) == \E H : Groups(H) /\ Cardinality(H) = n /\ ~ \E s : Sorts(s, H)
           S == {n \in Nat : Bad(n)}
<1>1. PICK k \in S : \A m \in S : k <= m
  <2>1. Cardinality(G) \in Nat
    BY FS_CardinalityType DEF Groups
  <2>2. S \in SUBSET Nat /\ S # {}
    BY <2>1
  <2> HIDE DEF S
  <2> QED BY <2>2, LeastNumber
<1>2. k \in Nat
  OBVIOUS
<1>3. PICK H : Groups(H) /\ Cardinality(H) = k /\ ~ \E s : Sorts(s, H)
  OBVIOUS
<1>4. CASE H = {}
  <2>1. k = 0
    BY <1>3, <1>4, FS_EmptySet
  <2>2. Sorts([i \in 1..0 |-> {}], H)
    BY <1>3, <1>4, <2>1 DEF Sorts
  <2> QED BY <1>3, <2>2
<1>5. CASE H # {}
  <2> DEFINE firsts == {Min(g) : g \in H}
  <2>1. firsts \in SUBSET Nat /\ firsts # {}
    BY <1>3, <1>5, FirstsDiffer
  <2>2. PICK m \in firsts : \A n \in firsts : m <= n
    <3> HIDE DEF firsts
    <3> QED BY <2>1, LeastNumber
  <2>3. PICK h \in H : Min(h) = m
    BY <2>2
  <2>4. \A g \in H \ {h} : Min(h) < Min(g)
    <3>1. \A g \in H : Min(h) <= Min(g)
      BY <2>2, <2>3
    <3> QED BY <1>3, <3>1, FirstsDiffer
  <2>5. Groups(H \ {h}) /\ Cardinality(H \ {h}) = k - 1 /\ k - 1 \in Nat
    <3>1. IsFiniteSet(H \ {h}) /\ Cardinality(H \ {h}) = k - 1
      BY <1>3, FS_RemoveElement DEF Groups
    <3>2. k - 1 \in Nat
      BY <3>1, FS_CardinalityType
    <3> QED BY <1>3, <3>1, <3>2 DEF Groups
  <2>6. k - 1 \notin S
    <3>1. ~(k <= k - 1)
      BY <1>2
    <3> HIDE DEF S
    <3> QED BY <1>1, <3>1
  <2>7. PICK t : Sorts(t, H \ {h})
    BY <2>5, <2>6
  <2> DEFINE s == [i \in 1..k |-> IF i = 1 THEN h ELSE t[i - 1]]
  <2>8. t \in [1..(k - 1) -> H \ {h}]
        /\ \A i, j \in 1..(k - 1) : i < j => Min(t[i]) < Min(t[j])
    BY <2>5, <2>7 DEF Sorts
  <2>9. \A i \in 1..k : i # 1 => i - 1 \in 1..(k - 1)
    BY <1>2
  <2>10. s \in [1..k -> H]
    BY <2>8, <2>9
  <2>11. \A i, j \in 1..k : i < j => Min(s[i]) < Min(s[j])
    <3> SUFFICES ASSUME NEW i \in 1..k, NEW j \in 1..k, i < j PROVE Min(s[i]) < Min(s[j])
      OBVIOUS
    <3>1. j # 1 /\ j - 1 \in 1..(k - 1) /\ s[j] = t[j - 1]
      BY <2>9
    <3>2. CASE i = 1
      BY <2>4, <2>8, <3>1, <3>2
    <3>3. CASE i # 1
      <4>1. i - 1 \in 1..(k - 1) /\ s[i] = t[i - 1] /\ i - 1 < j - 1
        BY <2>9, <3>3
      <4> QED BY <2>8, <3>1, <4>1
    <3> QED BY <3>2, <3>3
  <2> HIDE DEF s
  <2>12. Sorts(s, H)
    BY <1>3, <2>10, <2>11 DEF Sorts
  <2> QED BY <1>3, <2>12
<1> QED BY <1>4, <1>5

(* Ordered lists each group once.                                              *)
LEMMA OrderedLists ==
  ASSUME NEW G, Groups(G)
  PROVE  /\ Ordered(G) \in [1..Cardinality(G) -> G]
         /\ \A i, j \in 1..Cardinality(G) : i # j => Ordered(G)[i] # Ordered(G)[j]
         /\ \A g \in G : \E i \in 1..Cardinality(G) : Ordered(G)[i] = g
<1> DEFINE n == Cardinality(G)
           Fits(s) == \A i, j \in DOMAIN s : i < j => Min(s[i]) < Min(s[j])
<1>1. PICK s : Sorts(s, G)
  BY SortExists
<1>2. n \in Nat
  BY FS_CardinalityType DEF Groups
<1>3. s \in SetToSeqs(G)
  <2>1. ASSUME NEW i \in 1..n, NEW j \in 1..n, i # j PROVE s[i] # s[j]
    <3>1. i < j \/ j < i
      BY <1>2, <2>1
    <3>2. Min(s[i]) < Min(s[j]) \/ Min(s[j]) < Min(s[i])
      BY <1>1, <3>1 DEF Sorts
    <3>3. Min(s[i]) \in Nat
      BY <1>1, FirstsDiffer DEF Sorts
    <3> QED BY <3>2, <3>3
  <2> QED BY <1>1, <2>1 DEF SetToSeqs, Sorts
<1>4. Fits(s)
  BY <1>1 DEF Sorts
<1>5. Ordered(G) \in SetToSeqs(G)
  BY <1>3, <1>4 DEF Ordered
<1>6. /\ Ordered(G) \in [1..n -> G]
      /\ \A i, j \in 1..n : i # j => Ordered(G)[i] # Ordered(G)[j]
  BY <1>5 DEF SetToSeqs
<1>7. Ordered(G) \in Surjection(1..n, G)
  <2>1. Ordered(G) \in Injection(1..n, G)
    BY <1>6 DEF Injection, IsInjective
  <2>2. Cardinality(1..n) = Cardinality(G)
    BY <1>2, FS_Interval
  <2> QED BY <2>1, <2>2, FS_Injection DEF Groups
<1> QED BY <1>6, <1>7 DEF Surjection

-----------------------------------------------------------------------------
(* Plans: each file in one of them, under names that differ.                   *)
Options == [each : BOOLEAN, keep : BOOLEAN, recurse : BOOLEAN]
PlansFit(p, fs, n) ==
  /\ p \in [1..n -> [name : Name, files : (SUBSET fs) \ {{}}]]
  /\ \A f \in fs : \E i \in 1..n : f \in p[i].files
  /\ \A i, j \in 1..n : i # j => p[i].name # p[j].name /\ p[i].files \cap p[j].files = {}

LEMMA SingletonsFinite == ASSUME NEW F, IsFiniteSet(F) PROVE IsFiniteSet({{f} : f \in F})
<1> DEFINE s == [f \in F |-> {f}]
<1>1. s \in Surjection(F, {{f} : f \in F})
  BY DEF Surjection
<1> HIDE DEF s
<1> QED BY <1>1, FS_Surjection

LEMMA GroupsFit ==
  ASSUME NEW fs \in SUBSET File, fs # {}, NEW o \in Options
  PROVE  /\ Groups(Grouped(fs, o)) /\ UNION Grouped(fs, o) = fs
         /\ \A g \in Grouped(fs, o) : Stem(g, o) \in Name
<1>1. fs \in SUBSET Nat /\ IsFiniteSet(fs)
  BY DialogAssumption, FS_Subset
<1>2. CASE ~o.each
  <2>1. Grouped(fs, o) = {fs}
    BY <1>2 DEF Grouped
  <2>2. IsFiniteSet({fs})
    BY FS_Singleton
  <2>3. Groups(Grouped(fs, o)) /\ UNION Grouped(fs, o) = fs
    BY <1>1, <2>1, <2>2 DEF Groups
  <2>4. \A g \in Grouped(fs, o) : Stem(g, o) \in Name
    BY <1>2, DialogAssumption DEF Stem
  <2> QED BY <2>3, <2>4
<1>3. CASE o.each
  <2>1. ASSUME NEW g \in SUBSET fs, g # {} PROVE Stem(g, o) \in Name
    <3>1. Min(g) \in File
      BY <1>1, <2>1, LeastNumber
    <3> QED BY <1>3, <3>1, DialogAssumption DEF Stem
  <2>2. CASE o.recurse
    <3>1. Grouped(fs, o) = {{f} : f \in fs}
      BY <1>3, <2>2 DEF Grouped
    <3>2. IsFiniteSet(Grouped(fs, o))
      BY <1>1, <3>1, SingletonsFinite
    <3>3. \A g \in Grouped(fs, o) : \E f \in fs : g = {f}
      BY <3>1
    <3>4. \A g \in Grouped(fs, o) : g \in SUBSET fs /\ g # {}
      BY <3>3
    <3>5. UNION Grouped(fs, o) = fs
      BY <3>1
    <3>6. ASSUME NEW g \in Grouped(fs, o), NEW h \in Grouped(fs, o), g # h
          PROVE  g \cap h = {}
      <4>1. PICK f \in fs, e \in fs : g = {f} /\ h = {e}
        BY <3>3
      <4> QED BY <3>6, <4>1
    <3>7. Groups(Grouped(fs, o))
      BY <1>1, <3>2, <3>4, <3>6 DEF Groups
    <3> QED BY <2>1, <3>4, <3>5, <3>7
  <2>3. CASE ~o.recurse
    <3> DEFINE all == {fs \cap InFolder} \cup {{f} : f \in fs \ InFolder}
    <3>1. Grouped(fs, o) = {g \in all : g # {}}
      BY <1>3, <2>3 DEF Grouped
    <3>2. IsFiniteSet(all)
      <4>1. IsFiniteSet(fs \ InFolder)
        BY <1>1, FS_Subset
      <4> DEFINE single == {{f} : f \in fs \ InFolder}
      <4>2. IsFiniteSet(single)
        BY <4>1, SingletonsFinite
      <4>3. all = single \cup {fs \cap InFolder}
        OBVIOUS
      <4> HIDE DEF all, single
      <4> QED BY <4>2, <4>3, FS_AddElement
    <3>3. IsFiniteSet(Grouped(fs, o))
      <4> HIDE DEF all
      <4>1. Grouped(fs, o) \in SUBSET all
        BY <3>1
      <4> QED BY <3>2, <4>1, FS_Subset
    <3>4. \A g \in Grouped(fs, o) : g \in SUBSET fs /\ g # {}
      BY <3>1
    <3>5. ASSUME NEW g \in Grouped(fs, o), NEW h \in Grouped(fs, o), g # h
          PROVE  g \cap h = {}
      BY <3>1, <3>5
    <3>6. ASSUME NEW f \in fs PROVE f \in UNION Grouped(fs, o)
      <4>1. f \in InFolder \/ {f} \in Grouped(fs, o)
        BY <3>1
      <4>2. f \in InFolder => fs \cap InFolder \in Grouped(fs, o)
        BY <3>1
      <4> QED BY <4>1, <4>2
    <3>7. UNION Grouped(fs, o) = fs
      BY <3>4, <3>6
    <3>8. Groups(Grouped(fs, o))
      BY <1>1, <3>3, <3>4, <3>5 DEF Groups
    <3> QED BY <2>1, <3>4, <3>7, <3>8
  <2> QED BY <2>2, <2>3
<1> QED BY <1>2, <1>3

LEMMA PlansMade ==
  ASSUME NEW fs \in SUBSET File, NEW o \in Options
  PROVE  \E n \in Nat : PlansFit(BuildArchivePlans(fs, o), fs, n)
<1>1. CASE fs = {}
  <2>1. BuildArchivePlans(fs, o) = <<>> /\ <<>> \in [1..0 -> {}]
    BY <1>1 DEF BuildArchivePlans
  <2>2. PlansFit(BuildArchivePlans(fs, o), fs, 0)
    BY <1>1, <2>1 DEF PlansFit
  <2> QED BY <2>2
<1>2. CASE fs # {}
  <2> DEFINE G == Grouped(fs, o)
             s == Ordered(G)
             n == Cardinality(G)
             names == ArchiveNames(s, o)
             p == [i \in DOMAIN s |-> [name |-> names[i], files |-> s[i]]]
  <2>1. /\ Groups(G) /\ UNION G = fs /\ \A g \in G : Stem(g, o) \in Name
    BY <1>2, GroupsFit
  <2>2. BuildArchivePlans(fs, o) = p
    BY <1>2 DEF BuildArchivePlans
  <2> HIDE DEF G
  <2>3. n \in Nat
    BY <2>1, FS_CardinalityType DEF Groups
  <2>4. /\ s \in [1..n -> G] /\ \A i, j \in 1..n : i # j => s[i] # s[j]
        /\ \A g \in G : \E i \in 1..n : s[i] = g
    BY <2>1, OrderedLists
  <2> HIDE DEF n, s
  <2>5. Len(s) = n
    BY <2>3, <2>4
  <2>6. \A i \in 1..n : Stem(s[i], o) \in Name
    BY <2>1, <2>4
  <2>7. names \in [1..n -> Name] /\ \A i, j \in 1..n : i < j => names[i] # names[j]
    BY <2>3, <2>5, <2>6, ArchiveNamesDistinct
  <2> HIDE DEF names
  <2>8. \A i \in 1..n : s[i] \in (SUBSET fs) \ {{}}
    BY <2>1, <2>4 DEF Groups
  <2>9. p \in [1..n -> [name : Name, files : (SUBSET fs) \ {{}}]]
    BY <2>4, <2>7, <2>8
  <2>10. \A i \in 1..n : p[i].name = names[i] /\ p[i].files = s[i]
    BY <2>4
  <2>11. \A i, j \in 1..n : i # j => p[i].name # p[j].name /\ p[i].files \cap p[j].files = {}
    <3> SUFFICES ASSUME NEW i \in 1..n, NEW j \in 1..n, i # j
                 PROVE  names[i] # names[j] /\ s[i] \cap s[j] = {}
      BY <2>10
    <3>1. i < j \/ j < i
      BY <2>3
    <3> QED BY <2>1, <2>4, <2>7, <3>1 DEF Groups
  <2>12. \A f \in fs : \E i \in 1..n : f \in p[i].files
    BY <2>1, <2>4, <2>10
  <2> HIDE DEF p
  <2>13. PlansFit(BuildArchivePlans(fs, o), fs, n)
    BY <2>2, <2>9, <2>11, <2>12 DEF PlansFit
  <2> QED BY <2>3, <2>13
<1> QED BY <1>1, <1>2

(* The image of an archive is one of its own that can be decoded.              *)
Decodes(fs, image) ==
  IF fs \subseteq Corrupt THEN image = NoImage ELSE image \in fs \ Corrupt

LEMMA FirstDecodes ==
  ASSUME NEW plan, plan.files \in SUBSET File, NEW liked
  PROVE  Decodes(plan.files, FirstDecodable(plan, liked))
<1> DEFINE wanted == {f \in plan.files : <<plan, f>> \in liked} \ Corrupt
           images == plan.files \ Corrupt
<1>1. wanted \in SUBSET images /\ images \in SUBSET Nat
  BY DialogAssumption
<1>2. wanted # {} => Min(wanted) \in wanted
  <2> HIDE DEF wanted
  <2> QED BY <1>1, LeastNumber
<1>3. images # {} => Min(images) \in images
  BY <1>1, LeastNumber
<1> QED BY <1>1, <1>2, <1>3 DEF Decodes, FirstDecodable

-----------------------------------------------------------------------------
(* The invariant of the upload dialog *)

Plan == [name : Name, files : (SUBSET File) \ {{}}]
Image == File \cup {NoImage, Unknown}
Build ==
  [n : Nat \ {0}, pc : {"thumbnails", "entries", "closing", "stopped", "failed", "queued"},
   mine : BOOLEAN, plans : Seq(Plan), picks : SUBSET (Plan \X File), to : Places,
   files : SUBSET File, place : Places, thumbnails : Seq(Image), plan : Nat \ {0},
   packed : SUBSET File, aborted : BOOLEAN, early : BOOLEAN]

DialogTyped ==
  /\ shown \in {"closed", "select", "archive"} /\ list \in SUBSET File /\ options \in Options
  /\ picks \in SUBSET (Plan \X File) /\ drop \in SUBSET File /\ place \in Places

(* Builds are numbered from one on. *)
Numbered(B) ==
  /\ B \in SUBSET Build /\ IsFiniteSet(B)
  /\ \A b \in B : b.n <= Cardinality(B)
  /\ \A b, c \in B : b.n = c.n => b = c

(* A build keeps the plans of its files; it has their thumbnails, each found   *)
(* for its own plan, before it packs; and one that was cancelled early enough  *)
(* still has something to do before which it looks at the abort.               *)
PlansKept(b) ==
  /\ PlansFit(b.plans, b.files, Len(b.plans))
  /\ b.plan <= Len(b.plans) /\ b.to = b.place
ThumbnailsKept(b) ==
  /\ Len(b.thumbnails) = Len(b.plans)
  /\ \A i \in 1..Len(b.plans) :
       \/ Decodes(b.plans[i].files, b.thumbnails[i])
       \/ b.thumbnails[i] = Unknown /\ b.pc \notin {"entries", "closing", "queued"}
AbortSeen(b) ==
  /\ b.packed \subseteq PlanOf(b).files
  /\ b.pc \in {"thumbnails", "entries"} => b.packed # PlanOf(b).files
  /\ b.pc = "closing" => b.packed = PlanOf(b).files
  /\ b.early => /\ b.aborted /\ b.pc # "queued"
                /\ \/ b.pc \in {"thumbnails", "stopped", "failed"} \/ b.plan < Len(b.plans)
                   \/ b.pc = "entries" /\ Cardinality(PlanOf(b).files \ b.packed) > 1
Sound(b) == PlansKept(b) /\ ThumbnailsKept(b) /\ AbortSeen(b)

(* The dialog has one build at most, and shows it. *)
OneMine(B) == \A b, c \in B : b.mine /\ Active(b) /\ c.mine /\ Active(c) => b = c
MineShown == \A b \in builds : b.mine /\ Active(b) => shown = "archive" /\ b.files \subseteq list

(* The queue was given the archives of the builds that ended well, no others.  *)
Archives(b) ==
  {[n |-> b.n, name |-> b.plans[i].name, files |-> b.plans[i].files,
    thumbnail |-> b.thumbnails[i], to |-> b.to] : i \in DOMAIN b.plans}
Handed(B, G) ==
  /\ \A g \in G : g.n \in 0..Cardinality(B) /\ (g.n # 0 => Decodes(g.files, g.thumbnail))
  /\ \A b \in B : {g \in G : g.n = b.n} = IF b.pc = "queued" THEN Archives(b) ELSE {}

DialogIInv ==
  /\ DialogTyped /\ Numbered(builds) /\ (\A b \in builds : Sound(b))
  /\ OneMine(builds) /\ MineShown /\ Handed(builds, given)

-----------------------------------------------------------------------------
(* Builds that change keep their numbers.                                      *)
LEMMA NumberedBecomes ==
  ASSUME NEW B, Numbered(B), NEW b \in B, NEW new \in Build, new.n = b.n,
         NEW C, C = (B \ {b}) \cup {new}
  PROVE  Numbered(C) /\ Cardinality(C) = Cardinality(B)
<1>1. IsFiniteSet(B \ {b}) /\ Cardinality(B \ {b}) = Cardinality(B) - 1
  BY FS_RemoveElement DEF Numbered
<1>2. new \notin B \ {b}
  BY DEF Numbered
<1>3. IsFiniteSet(C) /\ Cardinality(C) = Cardinality(B \ {b}) + 1
  BY <1>1, <1>2, FS_AddElement
<1>4. Cardinality(B) \in Nat
  BY FS_CardinalityType DEF Numbered
<1>5. Cardinality(C) = Cardinality(B)
  BY <1>1, <1>3, <1>4
<1>6. C \in SUBSET Build
  BY DEF Numbered
<1>7. \A c \in C : c.n <= Cardinality(B)
  BY DEF Numbered
<1>8. \A c, d \in C : c.n = d.n => c = d
  BY DEF Numbered
<1> QED BY <1>3, <1>5, <1>6, <1>7, <1>8 DEF Numbered

LEMMA NumberedStarts ==
  ASSUME NEW B, Numbered(B), NEW new \in Build, new.n = Cardinality(B) + 1,
         NEW C, C = B \cup {new}
  PROVE  /\ Numbered(C) /\ Cardinality(C) = Cardinality(B) + 1
         /\ \A b \in B : b.n # new.n
<1>1. Cardinality(B) \in Nat
  BY FS_CardinalityType DEF Numbered
<1>2. \A b \in B : b.n \in Nat /\ b.n <= Cardinality(B)
  BY DEF Numbered, Build
<1>3. \A b \in B : b.n # new.n
  BY <1>1, <1>2
<1>4. IsFiniteSet(C) /\ Cardinality(C) = Cardinality(B) + 1
  BY <1>3, FS_AddElement DEF Numbered
<1>5. C \in SUBSET Build
  BY DEF Numbered
<1>6. \A c \in C : c.n <= Cardinality(C)
  BY <1>1, <1>2, <1>4
<1>7. \A c, d \in C : c.n = d.n => c = d
  BY <1>3 DEF Numbered
<1> QED BY <1>3, <1>4, <1>5, <1>6, <1>7 DEF Numbered

LEMMA DetachedBuild ==
  ASSUME NEW b \in Build, NEW d, d = [b EXCEPT !.mine = FALSE]
  PROVE  /\ d \in Build /\ ~d.mine /\ d.n = b.n /\ d.pc = b.pc
         /\ Sound(b) => Sound(d)
         /\ Archives(d) = Archives(b)
<1>1. d \in Build
  BY DEF Build
<1>2. /\ ~d.mine /\ d.n = b.n /\ d.pc = b.pc /\ d.plans = b.plans /\ d.files = b.files
      /\ d.plan = b.plan /\ d.to = b.to /\ d.place = b.place /\ d.thumbnails = b.thumbnails
      /\ d.packed = b.packed /\ d.early = b.early /\ d.aborted = b.aborted
  BY DEF Build
<1>3. Sound(b) => Sound(d)
  <2>1. PlansKept(b) => PlansKept(d)
    BY <1>2 DEF PlansKept
  <2>2. ThumbnailsKept(b) => ThumbnailsKept(d)
    BY <1>2 DEF ThumbnailsKept
  <2>3. AbortSeen(b) => AbortSeen(d)
    BY <1>2 DEF AbortSeen, PlanOf
  <2> QED BY <2>1, <2>2, <2>3 DEF Sound
<1>4. Archives(d) = Archives(b)
  BY <1>2 DEF Archives
<1> QED BY <1>1, <1>2, <1>3, <1>4

LEMMA NumberedDetached ==
  ASSUME NEW B, Numbered(B)
  PROVE  Numbered(Detached(B)) /\ Cardinality(Detached(B)) = Cardinality(B)
<1> DEFINE d(b) == [b EXCEPT !.mine = FALSE]
           f == [b \in B |-> d(b)]
<1>1. \A b \in B : d(b) \in Build /\ d(b).n = b.n
  BY DetachedBuild DEF Numbered
<1>2. Detached(B) = {d(b) : b \in B}
  BY DEF Detached
<1> HIDE DEF d
<1>3. f \in [B -> Detached(B)] /\ \A b \in B : f[b] = d(b)
  BY <1>2
<1> HIDE DEF f
<1>4. f \in Surjection(B, Detached(B))
  BY <1>2, <1>3 DEF Surjection
<1>5. f \in Injection(B, Detached(B))
  BY <1>1, <1>3 DEF Injection, IsInjective, Numbered
<1>6. IsFiniteSet(Detached(B)) /\ Cardinality(Detached(B)) = Cardinality(B)
  BY <1>4, <1>5, FS_Surjection DEF Numbered
<1>7. \A c \in Detached(B) : \E b \in B : c = d(b)
  BY <1>2
<1>8. Detached(B) \in SUBSET Build
  BY <1>1, <1>7
<1>9. \A c \in Detached(B) : c.n <= Cardinality(B)
  BY <1>1, <1>7 DEF Numbered
<1>10. \A c, e \in Detached(B) : c.n = e.n => c = e
  BY <1>1, <1>7 DEF Numbered
<1> QED BY <1>6, <1>8, <1>9, <1>10 DEF Numbered

-----------------------------------------------------------------------------
(* Actions that leave the builds alone.                                        *)
LEMMA BuildsSame ==
  ASSUME DialogIInv, UNCHANGED <<builds, given>>, DialogTyped', MineShown' PROVE DialogIInv'
<1>1. Numbered(builds)'
  BY DEF DialogIInv
<1>2. \A b \in builds' : Sound(b)
  BY DEF DialogIInv
<1>3. OneMine(builds)' /\ Handed(builds, given)'
  BY DEF DialogIInv
<1> QED BY <1>1, <1>2, <1>3 DEF DialogIInv

LEMMA ClosedTyped == ASSUME DialogTyped, Closed, place' \in Places PROVE DialogTyped'
BY DEF DialogTyped, Closed, Options, DefaultOptions

LEMMA OpenKept == ASSUME DialogIInv, Open PROVE DialogIInv'
<1>1. DialogTyped'
  BY DEF Open, form, DialogIInv, DialogTyped
<1>2. MineShown'
  BY DEF Open, form, DialogIInv, MineShown
<1> QED BY <1>1, <1>2, BuildsSame DEF Open

LEMMA HandleOpenChangeKept == ASSUME DialogIInv, HandleOpenChange PROVE DialogIInv'
<1>1. DialogTyped'
  BY ClosedTyped DEF HandleOpenChange, DialogIInv, DialogTyped
<1>2. MineShown'
  BY DEF HandleOpenChange, Building, MineShown
<1> QED BY <1>1, <1>2, BuildsSame DEF HandleOpenChange

LEMMA GoBackKept == ASSUME DialogIInv, GoBack PROVE DialogIInv'
<1>1. CASE place' \in Places \ {place} /\ UNCHANGED <<shown, list, form, alert, drop, builds>>
  <2>1. DialogTyped'
    BY <1>1 DEF form, DialogIInv, DialogTyped
  <2>2. MineShown'
    BY <1>1 DEF DialogIInv, MineShown
  <2> QED BY <1>1, <2>1, <2>2, BuildsSame DEF GoBack
<1>2. CASE Closed /\ builds' = Detached(builds) /\ place' = place
  <2>1. DialogTyped'
    BY <1>2, ClosedTyped DEF DialogIInv, DialogTyped
  <2>2. Numbered(builds') /\ Cardinality(builds') = Cardinality(builds)
    BY <1>2, NumberedDetached DEF DialogIInv
  <2>3. \A c \in builds' : \E b \in builds : b \in Build /\ c = [b EXCEPT !.mine = FALSE]
    BY <1>2 DEF Detached, DialogIInv, Numbered
  <2>4. ASSUME NEW c \in builds'
        PROVE  /\ ~c.mine /\ Sound(c)
               /\ \E b \in builds : c.n = b.n /\ c.pc = b.pc /\ Archives(c) = Archives(b)
    <3>1. PICK b \in builds : b \in Build /\ c = [b EXCEPT !.mine = FALSE]
      BY <2>3
    <3>2. Sound(b)
      BY DEF DialogIInv
    <3> QED BY <3>1, <3>2, DetachedBuild
  <2>5. OneMine(builds)' /\ MineShown'
    BY <2>4 DEF OneMine, MineShown
  <2>6. Handed(builds', given')
    BY <2>2, <2>4 DEF GoBack, DialogIInv, Handed
  <2> QED BY <2>1, <2>2, <2>4, <2>5, <2>6 DEF DialogIInv
<1> QED BY <1>1, <1>2 DEF GoBack

LEMMA AddKept ==
  ASSUME DialogIInv, NEW fs \in SUBSET File, AddCandidates(fs), drop' \in SUBSET File,
         UNCHANGED <<shown, form, builds, place, given>>
  PROVE  DialogIInv'
<1>1. DialogTyped'
  BY DEF AddCandidates, form, DialogIInv, DialogTyped
<1>2. MineShown'
  BY DEF AddCandidates, DialogIInv, MineShown
<1> QED BY <1>1, <1>2, BuildsSame

LEMMA ChooseKept == ASSUME DialogIInv, ChooseFiles PROVE DialogIInv'
BY AddKept, DialogAssumption DEF ChooseFiles, DialogIInv, DialogTyped

LEMMA DropKept == ASSUME DialogIInv, DropFiles \/ CollectDroppedFiles PROVE DialogIInv'
<1>1. CASE drop' \in SUBSET File /\ UNCHANGED <<shown, list, form, builds, place, given>>
  <2>1. DialogTyped' /\ MineShown'
    BY <1>1 DEF form, DialogIInv, DialogTyped, MineShown
  <2> QED BY <1>1, <2>1, BuildsSame
<1>2. CASE CollectDroppedFiles /\ AddCandidates(drop)
  BY <1>2, AddKept DEF CollectDroppedFiles, DialogIInv, DialogTyped
<1> QED BY <1>1, <1>2, DialogAssumption DEF DropFiles, CollectDroppedFiles

LEMMA SelectModeKept ==
  ASSUME DialogIInv, RemoveCandidate \/ UploadDirectly \/ SetMode PROVE MineShown'
BY DEF RemoveCandidate, UploadDirectly, SetMode, Building, DialogIInv, MineShown

LEMMA RemoveKept == ASSUME DialogIInv, RemoveCandidate PROVE DialogIInv'
<1>1. DialogTyped'
  BY DEF RemoveCandidate, form, DialogIInv, DialogTyped
<1> QED BY <1>1, SelectModeKept, BuildsSame DEF RemoveCandidate

LEMMA SetModeKept == ASSUME DialogIInv, SetMode PROVE DialogIInv'
<1>1. DialogTyped'
  BY DEF SetMode, form, DialogIInv, DialogTyped
<1> QED BY <1>1, SelectModeKept, BuildsSame DEF SetMode

LEMMA UploadDirectlyKept == ASSUME DialogIInv, UploadDirectly PROVE DialogIInv'
<1> DEFINE direct == [n |-> 0, name |-> <<>>, files |-> list, thumbnail |-> NoImage, to |-> place]
<1>1. given' = given \cup {direct} /\ builds' = builds
  BY DEF UploadDirectly
<1>2. direct.n = 0
  OBVIOUS
<1> HIDE DEF direct
<1>3. DialogTyped' /\ MineShown'
  BY ClosedTyped, SelectModeKept DEF UploadDirectly, DialogIInv, DialogTyped
<1>4. Cardinality(builds) \in Nat
  BY FS_CardinalityType DEF DialogIInv, Numbered
<1>5. \A b \in builds : b.n # 0
  BY DEF DialogIInv, Numbered, Build
<1>6. Handed(builds', given')
  BY <1>1, <1>2, <1>4, <1>5 DEF DialogIInv, Handed
<1>7. Numbered(builds') /\ (\A b \in builds' : Sound(b)) /\ OneMine(builds')
  BY <1>1 DEF DialogIInv
<1> QED BY <1>3, <1>6, <1>7 DEF DialogIInv

LEMMA OptionsKept == ASSUME DialogIInv, SetOptions \/ SetPassword PROVE DialogIInv'
<1>1. options' \in Options
  <2>1. options \in [each : BOOLEAN, keep : BOOLEAN, recurse : BOOLEAN]
    BY DEF DialogIInv, DialogTyped, Options
  <2>2. CASE SetPassword
    BY <2>1, <2>2 DEF SetPassword, Options
  <2>3. CASE SetOptions
    <3>1. PICK e, k, r \in BOOLEAN : options' = [each |-> e, keep |-> k, recurse |-> r]
      BY <2>1, <2>3 DEF SetOptions, DefaultOptions
    <3> QED BY <3>1 DEF Options
  <2> QED BY <2>2, <2>3
<1>2. DialogTyped' /\ MineShown'
  BY <1>1 DEF SetOptions, SetPassword, DialogIInv, DialogTyped, MineShown
<1> QED BY <1>2, BuildsSame DEF SetOptions, SetPassword

LEMMA PlansTyped ==
  ASSUME DialogTyped
  PROVE  Plans \in Seq(Plan) /\ PlansFit(Plans, list, Len(Plans)) /\ DOMAIN Plans = 1..Len(Plans)
<1>1. PICK n \in Nat : PlansFit(Plans, list, n)
  BY PlansMade DEF DialogTyped, Plans
<1>2. Plans \in [1..n -> Plan]
  BY <1>1 DEF PlansFit, Plan, DialogTyped
<1>3. Plans \in Seq(Plan) /\ Len(Plans) = n /\ DOMAIN Plans = 1..n
  BY <1>2
<1> QED BY <1>1, <1>3

LEMMA SelectThumbnailKept == ASSUME DialogIInv, SelectThumbnail PROVE DialogIInv'
<1>1. PICK i \in DOMAIN Plans : \E f \in Plans[i].files :
        picks' = {p \in picks : p[1] # Plans[i]} \cup {<<Plans[i], f>>}
  BY DEF SelectThumbnail
<1>2. Plans[i] \in Plan
  BY PlansTyped DEF DialogIInv
<1>3. picks' \in SUBSET (Plan \X File)
  BY <1>1, <1>2 DEF Plan, DialogIInv, DialogTyped
<1>4. DialogTyped' /\ MineShown'
  BY <1>3 DEF SelectThumbnail, DialogIInv, DialogTyped, MineShown
<1> QED BY <1>4, BuildsSame DEF SelectThumbnail

-----------------------------------------------------------------------------
(* The build *)

LEMMA StartSound ==
  ASSUME DialogIInv, Plans # <<>>, NEW new,
         new = [n |-> Cardinality(builds) + 1, pc |-> "thumbnails", mine |-> TRUE,
                plans |-> Plans, picks |-> picks, to |-> place, files |-> list, place |-> place,
                thumbnails |-> [i \in DOMAIN Plans |-> Unknown],
                plan |-> 1, packed |-> {}, aborted |-> FALSE, early |-> FALSE]
  PROVE  new \in Build /\ Sound(new)
<1>1. /\ Plans \in Seq(Plan) /\ PlansFit(Plans, list, Len(Plans)) /\ DOMAIN Plans = 1..Len(Plans)
      /\ Len(Plans) \in Nat /\ 1 <= Len(Plans)
  <2>1. Plans \in Seq(Plan) /\ PlansFit(Plans, list, Len(Plans)) /\ DOMAIN Plans = 1..Len(Plans)
    BY PlansTyped DEF DialogIInv
  <2> QED BY <2>1
<1> DEFINE unknown == [i \in DOMAIN Plans |-> Unknown]
<1>2. /\ unknown \in Seq(Image) /\ Len(unknown) = Len(Plans)
      /\ \A i \in 1..Len(Plans) : unknown[i] = Unknown
  BY <1>1 DEF Image
<1>3. Cardinality(builds) + 1 \in Nat \ {0}
  BY FS_CardinalityType DEF DialogIInv, Numbered
<1> HIDE DEF unknown
<1>4. /\ list \in SUBSET File /\ picks \in SUBSET (Plan \X File) /\ place \in Places
  BY DEF DialogIInv, DialogTyped
<1>5. new \in Build
  BY <1>1, <1>2, <1>3, <1>4 DEF Build, unknown
<1>6. /\ new.plans = Plans /\ new.files = list /\ new.plan = 1 /\ new.to = new.place
      /\ new.thumbnails = unknown /\ new.pc = "thumbnails" /\ ~new.early
  BY DEF unknown
<1>7. PlansKept(new)
  BY <1>1, <1>6 DEF PlansKept
<1>8. ThumbnailsKept(new)
  BY <1>2, <1>6 DEF ThumbnailsKept
<1>9. AbortSeen(new)
  <2>1. Plans[1] \in Plan
    BY <1>1
  <2>2. PlanOf(new).files # {} /\ new.packed = {}
    BY <1>6, <2>1 DEF PlanOf, Plan
  <2> QED BY <1>6, <2>2 DEF AbortSeen
<1> QED BY <1>5, <1>7, <1>8, <1>9 DEF Sound

LEMMA BuildAndQueueKept == ASSUME DialogIInv, BuildAndQueue PROVE DialogIInv'
<1> DEFINE new == [n |-> Cardinality(builds) + 1, pc |-> "thumbnails", mine |-> TRUE,
                   plans |-> Plans, picks |-> picks, to |-> place, files |-> list,
                   place |-> place, thumbnails |-> [i \in DOMAIN Plans |-> Unknown],
                   plan |-> 1, packed |-> {}, aborted |-> FALSE, early |-> FALSE]
<1>1. builds' = builds \cup {new} /\ given' = given
  BY DEF BuildAndQueue
<1>2. new.n = Cardinality(builds) + 1 /\ new.pc = "thumbnails" /\ new.files = list
  OBVIOUS
<1>3. new \in Build /\ Sound(new)
  BY StartSound DEF BuildAndQueue
<1> HIDE DEF new
<1>4. /\ Numbered(builds') /\ Cardinality(builds') = Cardinality(builds) + 1
      /\ \A b \in builds : b.n # new.n
  BY <1>1, <1>2, <1>3, NumberedStarts DEF DialogIInv
<1>5. Cardinality(builds) \in Nat
  BY FS_CardinalityType DEF DialogIInv, Numbered
<1>6. DialogTyped'
  BY DEF BuildAndQueue, form, DialogIInv, DialogTyped
<1>7. \A b \in builds : ~(b.mine /\ Active(b))
  BY DEF BuildAndQueue, Building
<1>8. OneMine(builds')
  BY <1>1, <1>7 DEF OneMine
<1>9. MineShown'
  BY <1>1, <1>2, <1>7 DEF BuildAndQueue, MineShown
<1>10. Handed(builds', given')
  <2>1. \A g \in given' :
          g.n \in 0..Cardinality(builds') /\ (g.n # 0 => Decodes(g.files, g.thumbnail))
    BY <1>1, <1>4, <1>5 DEF DialogIInv, Handed
  <2>2. \A g \in given : g.n # new.n
    BY <1>2, <1>5 DEF DialogIInv, Handed
  <2> HIDE DEF Decodes
  <2>3. \A b \in builds' : {g \in given' : g.n = b.n} = IF b.pc = "queued" THEN Archives(b) ELSE {}
    BY <1>1, <1>2, <2>2 DEF DialogIInv, Handed
  <2> QED BY <2>1, <2>3 DEF Handed
<1>11. \A b \in builds' : Sound(b)
  BY <1>1, <1>3 DEF DialogIInv
<1> QED BY <1>4, <1>6, <1>8, <1>9, <1>10, <1>11 DEF DialogIInv

(* A step of a build that does not end well.                                   *)
LEMMA BuildStep ==
  ASSUME DialogIInv, NEW b \in builds, NEW new \in Build, Becomes(b, new), Sound(new),
         new.n = b.n, new.mine = b.mine, new.files = b.files, Active(b),
         new.pc # "queued", UNCHANGED <<shown, list, form, drop, place, given>>
  PROVE  DialogIInv'
<1>1. builds' = (builds \ {b}) \cup {new}
  BY DEF Becomes
<1>2. Numbered(builds') /\ Cardinality(builds') = Cardinality(builds)
  BY <1>1, NumberedBecomes DEF DialogIInv
<1>3. DialogTyped'
  BY DEF form, DialogIInv, DialogTyped
<1>4. OneMine(builds')
  BY <1>1 DEF OneMine, DialogIInv
<1>5. MineShown'
  BY <1>1 DEF MineShown, DialogIInv
<1>6. Handed(builds', given')
  <2>1. b.pc # "queued"
    BY DEF Active
  <2> QED BY <1>1, <1>2, <2>1 DEF DialogIInv, Handed
<1>7. \A c \in builds' : Sound(c)
  BY <1>1 DEF DialogIInv
<1> QED BY <1>2, <1>3, <1>4, <1>5, <1>6, <1>7 DEF DialogIInv

LEMMA BuildTyped ==
  ASSUME DialogIInv, NEW b \in builds
  PROVE  /\ b \in Build /\ Sound(b)
         /\ Len(b.plans) \in Nat /\ DOMAIN b.plans = 1..Len(b.plans)
         /\ DOMAIN b.thumbnails = DOMAIN b.plans
         /\ b.plan \in 1..Len(b.plans) /\ PlanOf(b).files \in SUBSET File
<1>1. b \in Build /\ Sound(b)
  BY DEF DialogIInv, Numbered
<1>2. b.plans \in Seq(Plan) /\ b.thumbnails \in Seq(Image) /\ b.plan \in Nat \ {0}
  BY <1>1 DEF Build
<1>3. Len(b.thumbnails) = Len(b.plans) /\ b.plan <= Len(b.plans)
  BY <1>1 DEF Sound, PlansKept, ThumbnailsKept
<1>4. b.plan \in 1..Len(b.plans)
  BY <1>2, <1>3
<1>5. PlanOf(b) \in Plan
  BY <1>2, <1>4 DEF PlanOf
<1> QED BY <1>1, <1>2, <1>3, <1>4, <1>5 DEF Plan

LEMMA ThumbnailKept ==
  ASSUME DialogIInv, NEW b \in builds, NEW i \in DOMAIN b.plans, FirstDecodableThumbnail(b, i)
  PROVE  DialogIInv'
<1> DEFINE image == FirstDecodable(b.plans[i], b.picks)
           found == [b.thumbnails EXCEPT ![i] = image]
           pc == IF \E j \in DOMAIN found : found[j] = Unknown THEN b.pc ELSE "entries"
           new == [b EXCEPT !.thumbnails = found, !.pc = pc]
<1>1. Becomes(b, new) /\ b.pc = "thumbnails" /\ ~b.aborted
  BY DEF FirstDecodableThumbnail
<1>2. /\ b \in Build /\ Sound(b)
      /\ Len(b.plans) \in Nat /\ DOMAIN b.plans = 1..Len(b.plans)
      /\ DOMAIN b.thumbnails = DOMAIN b.plans
  BY BuildTyped
<1>3. Decodes(b.plans[i].files, image) /\ image \in Image
  <2>1. b.plans[i].files \in SUBSET File
    <3>1. b.plans \in Seq(Plan)
      BY <1>2 DEF Build
    <3>2. b.plans[i] \in Plan
      BY <3>1
    <3> QED BY <3>2 DEF Plan
  <2>2. Decodes(b.plans[i].files, image)
    BY <2>1, FirstDecodes
  <2> QED BY <2>1, <2>2 DEF Decodes, Image
<1> HIDE DEF image
<1>4. /\ found \in Seq(Image) /\ Len(found) = Len(b.plans) /\ DOMAIN found = 1..Len(b.plans)
      /\ found[i] = image /\ \A j \in 1..Len(b.plans) : j # i => found[j] = b.thumbnails[j]
  <2>1. b.thumbnails \in Seq(Image) /\ Len(b.thumbnails) = Len(b.plans)
    BY <1>2 DEF Build, Sound, ThumbnailsKept
  <2> QED BY <1>2, <1>3, <2>1
<1> HIDE DEF found
<1>5. /\ pc \in {"thumbnails", "entries"}
      /\ pc = "entries" => \A j \in DOMAIN found : found[j] # Unknown
  BY <1>1
<1> HIDE DEF pc
<1>6. new \in Build
  BY <1>2, <1>4, <1>5 DEF Build
<1>7. /\ new.n = b.n /\ new.mine = b.mine /\ new.files = b.files /\ new.plans = b.plans
      /\ new.plan = b.plan /\ new.to = b.to /\ new.place = b.place /\ new.early = b.early
      /\ new.thumbnails = found /\ new.pc = pc /\ new.packed = b.packed
  BY <1>2 DEF Build
<1> HIDE DEF new
<1>8. PlansKept(new)
  BY <1>2, <1>7 DEF Sound, PlansKept
<1>9. ThumbnailsKept(new)
  <2>1. \A j \in 1..Len(b.plans) : Decodes(b.plans[j].files, found[j]) \/ found[j] = Unknown
    BY <1>2, <1>3, <1>4 DEF Sound, ThumbnailsKept
  <2> QED BY <1>4, <1>5, <1>7, <2>1 DEF ThumbnailsKept
<1>10. AbortSeen(new)
  BY <1>1, <1>2, <1>5, <1>7 DEF Sound, AbortSeen, PlanOf
<1>11. Sound(new) /\ Active(b) /\ new.pc # "queued"
  BY <1>1, <1>5, <1>7, <1>8, <1>9, <1>10 DEF Sound, Active
<1> QED BY <1>1, <1>6, <1>7, <1>11, BuildStep DEF FirstDecodableThumbnail

LEMMA AbortKept == ASSUME DialogIInv, NEW b \in builds, Abort(b) PROVE DialogIInv'
<1> DEFINE early == \/ b.pc = "thumbnails" \/ b.plan < Len(b.plans)
                    \/ Cardinality(PlanOf(b).files \ b.packed) > 1
           new == [b EXCEPT !.aborted = TRUE, !.early = early]
<1>1. Becomes(b, new) /\ Active(b)
  BY DEF Abort
<1>2. b \in Build /\ Sound(b)
  BY BuildTyped
<1>3. early \in BOOLEAN
  OBVIOUS
<1>4. b.pc = "closing" /\ early => b.plan < Len(b.plans)
  <2>1. b.pc = "closing" => PlanOf(b).files \ b.packed = {}
    BY <1>2 DEF Sound, AbortSeen
  <2>2. Cardinality({}) = 0
    BY FS_EmptySet
  <2> SUFFICES ASSUME b.pc = "closing", early PROVE b.plan < Len(b.plans)
    OBVIOUS
  <2>3. Cardinality(PlanOf(b).files \ b.packed) = 0
    BY <2>1, <2>2
  <2>4. ~(Cardinality(PlanOf(b).files \ b.packed) > 1)
    BY <2>3
  <2> QED BY <2>4
<1>5. early => \/ b.pc = "thumbnails" \/ b.plan < Len(b.plans)
               \/ b.pc = "entries" /\ Cardinality(PlanOf(b).files \ b.packed) > 1
  BY <1>1, <1>4 DEF Active
<1> HIDE DEF early
<1>6. new \in Build
  BY <1>2, <1>3 DEF Build
<1>7. /\ new.n = b.n /\ new.mine = b.mine /\ new.files = b.files /\ new.plans = b.plans
      /\ new.plan = b.plan /\ new.to = b.to /\ new.place = b.place /\ new.pc = b.pc
      /\ new.thumbnails = b.thumbnails /\ new.packed = b.packed /\ new.aborted /\ new.early = early
  BY <1>2 DEF Build
<1> HIDE DEF new
<1>8. PlansKept(new) /\ ThumbnailsKept(new)
  BY <1>2, <1>7 DEF Sound, PlansKept, ThumbnailsKept
<1>9. AbortSeen(new)
  BY <1>1, <1>2, <1>5, <1>7 DEF Sound, AbortSeen, PlanOf, Active
<1>10. Sound(new) /\ new.pc # "queued"
  BY <1>1, <1>7, <1>8, <1>9 DEF Sound, Active
<1> QED BY <1>1, <1>6, <1>7, <1>10, BuildStep DEF Abort

LEMMA StopKept ==
  ASSUME DialogIInv, NEW b \in builds, StopBuild(b) \/ EntryFails(b) PROVE DialogIInv'
<1>1. PICK pc \in {"stopped", "failed"} : Becomes(b, [b EXCEPT !.pc = pc])
  BY DEF StopBuild, EntryFails
<1> DEFINE new == [b EXCEPT !.pc = pc]
<1>2. b \in Build /\ Sound(b)
  BY BuildTyped
<1>3. new \in Build
  BY <1>2 DEF Build
<1>4. /\ new.n = b.n /\ new.mine = b.mine /\ new.files = b.files /\ new.plans = b.plans
      /\ new.plan = b.plan /\ new.to = b.to /\ new.place = b.place /\ new.pc = pc
      /\ new.thumbnails = b.thumbnails /\ new.packed = b.packed /\ new.aborted = b.aborted
      /\ new.early = b.early
  BY <1>2 DEF Build
<1>5. Becomes(b, new)
  BY <1>1
<1> HIDE DEF new
<1>6. PlansKept(new)
  BY <1>2, <1>4 DEF Sound, PlansKept
<1>7. ThumbnailsKept(new)
  BY <1>2, <1>4 DEF Sound, ThumbnailsKept
<1>8. AbortSeen(new)
  BY <1>2, <1>4 DEF Sound, AbortSeen, PlanOf
<1>9. Sound(new) /\ new.pc # "queued" /\ Active(b)
  BY <1>4, <1>6, <1>7, <1>8 DEF Sound, Active, StopBuild, EntryFails
<1>10. UNCHANGED <<shown, list, form, drop, place, given>>
  BY DEF StopBuild, EntryFails
<1> QED BY <1>3, <1>4, <1>5, <1>9, <1>10, BuildStep

LEMMA AddEntryKept == ASSUME DialogIInv, NEW b \in builds, AddEntry(b) PROVE DialogIInv'
<1> DEFINE S == PlanOf(b).files
           left == S \ b.packed
           packed == b.packed \cup {Min(left)}
           pc == IF packed = S THEN "closing" ELSE IF b.aborted THEN "stopped" ELSE "entries"
           new == [b EXCEPT !.packed = packed, !.pc = pc]
<1>1. Becomes(b, new) /\ b.pc = "entries"
  BY DEF AddEntry
<1>2. b \in Build /\ Sound(b) /\ S \in SUBSET File
  BY BuildTyped
<1>3. b.packed \subseteq S /\ left # {} /\ left \in SUBSET Nat
  BY <1>1, <1>2, DialogAssumption DEF Sound, AbortSeen
<1>4. Min(left) \in left
  <2> HIDE DEF left
  <2> QED BY <1>3, LeastNumber
<1>5. packed \subseteq S /\ packed \in SUBSET File
  BY <1>2, <1>3, <1>4
<1>6. packed = S => ~(Cardinality(left) > 1)
  <2> SUFFICES ASSUME packed = S PROVE ~(Cardinality(left) > 1)
    OBVIOUS
  <2>1. left = {Min(left)}
    BY <1>4
  <2>2. Cardinality(left) = 1
    BY <2>1, FS_Singleton
  <2> QED BY <2>2
<1> HIDE DEF packed
<1>7. /\ pc \in {"closing", "stopped", "entries"} /\ (pc = "closing" <=> packed = S)
      /\ (b.aborted => pc # "entries")
  OBVIOUS
<1> HIDE DEF pc
<1>8. new \in Build
  BY <1>2, <1>5, <1>7 DEF Build
<1>9. /\ new.n = b.n /\ new.mine = b.mine /\ new.files = b.files /\ new.plans = b.plans
      /\ new.plan = b.plan /\ new.to = b.to /\ new.place = b.place /\ new.pc = pc
      /\ new.thumbnails = b.thumbnails /\ new.packed = packed /\ new.aborted = b.aborted
      /\ new.early = b.early
  BY <1>2 DEF Build
<1> HIDE DEF new
<1>10. PlansKept(new)
  BY <1>2, <1>9 DEF Sound, PlansKept
<1>11. ThumbnailsKept(new)
  BY <1>1, <1>2, <1>9 DEF Sound, ThumbnailsKept
<1>12. AbortSeen(new)
  <2>1. PlanOf(new).files = S
    BY <1>9 DEF PlanOf
  <2>2. new.early => new.aborted /\ (b.plan < Len(b.plans) \/ Cardinality(left) > 1)
    BY <1>1, <1>2, <1>9 DEF Sound, AbortSeen
  <2>3. new.early => new.pc = "stopped" \/ b.plan < Len(b.plans)
    BY <1>6, <1>7, <1>9, <2>2
  <2> QED BY <1>5, <1>7, <1>9, <2>1, <2>2, <2>3 DEF AbortSeen
<1>13. Sound(new) /\ new.pc # "queued" /\ Active(b)
  BY <1>1, <1>7, <1>9, <1>10, <1>11, <1>12 DEF Sound, Active
<1> QED BY <1>1, <1>8, <1>9, <1>13, BuildStep DEF AddEntry

LEMMA NextArchiveKept ==
  ASSUME DialogIInv, NEW b \in builds, CloseArchive(b), b.plan < Len(b.plans) PROVE DialogIInv'
<1> DEFINE pc == IF b.aborted THEN "stopped" ELSE "entries"
           new == [b EXCEPT !.plan = b.plan + 1, !.packed = {}, !.pc = pc]
<1>1. Becomes(b, new) /\ b.pc = "closing" /\ UNCHANGED <<shown, list, form, drop, place, given>>
  BY DEF CloseArchive
<1>2. /\ b \in Build /\ Sound(b) /\ b.plans \in Seq(Plan)
      /\ Len(b.plans) \in Nat /\ b.plan \in 1..Len(b.plans)
  BY BuildTyped DEF Build
<1>3. pc \in {"stopped", "entries"} /\ (b.aborted => pc = "stopped")
  OBVIOUS
<1> HIDE DEF pc
<1>4. b.plan + 1 \in Nat \ {0} /\ b.plan + 1 \in 1..Len(b.plans)
  BY <1>2
<1>5. new \in Build
  BY <1>2, <1>3, <1>4 DEF Build
<1>6. /\ new.n = b.n /\ new.mine = b.mine /\ new.files = b.files /\ new.plans = b.plans
      /\ new.plan = b.plan + 1 /\ new.to = b.to /\ new.place = b.place /\ new.pc = pc
      /\ new.thumbnails = b.thumbnails /\ new.packed = {} /\ new.aborted = b.aborted
      /\ new.early = b.early
  BY <1>2 DEF Build
<1> HIDE DEF new
<1>7. PlansKept(new)
  BY <1>2, <1>4, <1>6 DEF Sound, PlansKept
<1>8. ThumbnailsKept(new)
  BY <1>1, <1>2, <1>6 DEF Sound, ThumbnailsKept
<1>9. AbortSeen(new)
  <2>1. PlanOf(new) \in Plan
    BY <1>2, <1>4, <1>6 DEF PlanOf
  <2>2. PlanOf(new).files # {}
    BY <2>1 DEF Plan
  <2> QED BY <1>2, <1>3, <1>6, <2>2 DEF Sound, AbortSeen
<1>10. Sound(new) /\ new.pc # "queued" /\ Active(b)
  BY <1>1, <1>3, <1>6, <1>7, <1>8, <1>9 DEF Sound, Active
<1> QED BY <1>1, <1>5, <1>6, <1>10, BuildStep

LEMMA LastArchiveKept ==
  ASSUME DialogIInv, NEW b \in builds, CloseArchive(b), ~(b.plan < Len(b.plans)) PROVE DialogIInv'
<1> DEFINE new == [b EXCEPT !.pc = "queued"]
<1>1. Becomes(b, new) /\ b.pc = "closing" /\ given' = given \cup Archives(b)
  BY DEF CloseArchive, BuiltPlans, Archives
<1>2. b \in Build /\ Sound(b) /\ DOMAIN b.plans = 1..Len(b.plans)
  BY BuildTyped
<1>3. new \in Build
  BY <1>2 DEF Build
<1>4. /\ new.n = b.n /\ new.mine = b.mine /\ new.files = b.files /\ new.plans = b.plans
      /\ new.plan = b.plan /\ new.to = b.to /\ new.place = b.place /\ new.pc = "queued"
      /\ new.thumbnails = b.thumbnails /\ new.packed = b.packed /\ new.aborted = b.aborted
      /\ new.early = b.early
  BY <1>2 DEF Build
<1> HIDE DEF new
<1>5. builds' = (builds \ {b}) \cup {new}
  BY <1>1 DEF Becomes
<1>6. Numbered(builds') /\ Cardinality(builds') = Cardinality(builds)
  BY <1>3, <1>4, <1>5, NumberedBecomes DEF DialogIInv
<1>7. Sound(new)
  <2>1. PlansKept(new)
    BY <1>2, <1>4 DEF Sound, PlansKept
  <2>2. ThumbnailsKept(new)
    BY <1>1, <1>2, <1>4 DEF Sound, ThumbnailsKept
  <2>3. AbortSeen(new)
    BY <1>1, <1>2, <1>4 DEF Sound, AbortSeen, PlanOf
  <2> QED BY <2>1, <2>2, <2>3 DEF Sound
<1>8. \A c \in builds' : Sound(c)
  BY <1>5, <1>7 DEF DialogIInv
<1>9. OneMine(builds')
  BY <1>4, <1>5 DEF OneMine, Active, DialogIInv
<1>10. DialogTyped' /\ MineShown'
  <2>1. \A c \in builds' : c.mine /\ Active(c) => c \in builds \ {b}
    BY <1>4, <1>5 DEF Active
  <2>2. CASE b.mine
    <3>1. \A c \in builds' : ~(c.mine /\ Active(c))
      BY <1>1, <2>1, <2>2 DEF OneMine, DialogIInv, Active
    <3>2. Closed /\ place' \in Places
      BY <2>2 DEF CloseArchive, DialogIInv, DialogTyped
    <3> QED BY <3>1, <3>2, ClosedTyped DEF MineShown, DialogIInv
  <2>3. CASE ~b.mine
    <3>1. UNCHANGED <<shown, list, form, drop, place>>
      BY <2>3 DEF CloseArchive
    <3> QED BY <2>1, <3>1 DEF form, MineShown, DialogIInv, DialogTyped
  <2> QED BY <2>2, <2>3
<1>11. Handed(builds', given')
  <2>1. \A g \in Archives(b) : g.n = b.n /\ Decodes(g.files, g.thumbnail)
    <3>1. \A i \in DOMAIN b.plans : Decodes(b.plans[i].files, b.thumbnails[i])
      BY <1>1, <1>2 DEF Sound, ThumbnailsKept
    <3> HIDE DEF Decodes
    <3> QED BY <3>1 DEF Archives
  <2>2. b.n \in 0..Cardinality(builds)
    <3>1. Cardinality(builds) \in Nat /\ b.n <= Cardinality(builds) /\ b.n \in Nat
      BY <1>2, FS_CardinalityType DEF DialogIInv, Numbered, Build
    <3> QED BY <3>1
  <2>3. \A g \in given' :
          g.n \in 0..Cardinality(builds') /\ (g.n # 0 => Decodes(g.files, g.thumbnail))
    BY <1>1, <1>6, <2>1, <2>2 DEF DialogIInv, Handed
  <2>4. Archives(new) = Archives(b)
    BY <1>4 DEF Archives
  <2>5. {g \in given' : g.n = new.n} = Archives(new)
    <3>1. {g \in given : g.n = b.n} = {}
      BY <1>1 DEF DialogIInv, Handed
    <3> QED BY <1>1, <1>4, <2>1, <2>4, <3>1
  <2>6. \A c \in builds \ {b} : c.n # b.n
    BY DEF DialogIInv, Numbered
  <2>7. \A c \in builds \ {b} :
          {g \in given' : g.n = c.n} = IF c.pc = "queued" THEN Archives(c) ELSE {}
    <3>1. ASSUME NEW c \in builds \ {b} PROVE {g \in given' : g.n = c.n} = {g \in given : g.n = c.n}
      BY <1>1, <2>1, <2>6
    <3> QED BY <3>1 DEF DialogIInv, Handed
  <2>8. ASSUME NEW c \in builds'
        PROVE  {g \in given' : g.n = c.n} = IF c.pc = "queued" THEN Archives(c) ELSE {}
    <3>1. CASE c = new
      BY <1>4, <2>5, <3>1
    <3>2. CASE c \in builds \ {b}
      BY <2>7, <3>2
    <3> QED BY <1>5, <3>1, <3>2
  <2> HIDE DEF Decodes
  <2> QED BY <2>3, <2>8 DEF Handed
<1> QED BY <1>6, <1>8, <1>9, <1>10, <1>11 DEF DialogIInv

-----------------------------------------------------------------------------
LEMMA DialogInitially == DialogInit => DialogIInv
<1> SUFFICES ASSUME DialogInit PROVE DialogIInv
  OBVIOUS
<1>1. DialogTyped
  BY DEF DialogInit, DialogTyped, Options, DefaultOptions
<1>2. builds = {} /\ given = {}
  BY DEF DialogInit
<1>3. Numbered(builds)
  BY <1>2, FS_EmptySet DEF Numbered
<1> QED BY <1>1, <1>2, <1>3 DEF DialogIInv, OneMine, MineShown, Handed

LEMMA DialogStep == DialogIInv /\ [DialogNext]_dialogVars => DialogIInv'
<1> SUFFICES ASSUME DialogIInv, [DialogNext]_dialogVars PROVE DialogIInv'
  OBVIOUS
<1>1. CASE UNCHANGED dialogVars
  <2>1. DialogTyped' /\ MineShown'
    BY <1>1 DEF dialogVars, form, DialogIInv, DialogTyped, MineShown
  <2> QED BY <1>1, <2>1, BuildsSame DEF dialogVars
<1>2. CASE \/ Open \/ HandleOpenChange \/ GoBack \/ ChooseFiles \/ DropFiles \/ CollectDroppedFiles
           \/ RemoveCandidate \/ UploadDirectly \/ SetMode \/ SetOptions \/ SetPassword
           \/ SelectThumbnail \/ BuildAndQueue
  BY <1>2, OpenKept, HandleOpenChangeKept, GoBackKept, ChooseKept, DropKept, RemoveKept,
     UploadDirectlyKept, SetModeKept, OptionsKept, SelectThumbnailKept, BuildAndQueueKept
<1>3. ASSUME NEW b \in builds, NEW i \in DOMAIN b.plans, FirstDecodableThumbnail(b, i)
      PROVE  DialogIInv'
  BY <1>3, ThumbnailKept
<1>4. ASSUME NEW b \in builds,
             Abort(b) \/ StopBuild(b) \/ AddEntry(b) \/ EntryFails(b) \/ CloseArchive(b)
      PROVE  DialogIInv'
  BY <1>4, AbortKept, StopKept, AddEntryKept, NextArchiveKept, LastArchiveKept
<1> QED BY <1>1, <1>2, <1>3, <1>4 DEF DialogNext

LEMMA DialogImplies == DialogIInv => DialogInv
<1> SUFFICES ASSUME DialogIInv PROVE DialogInv
  OBVIOUS
<1>1. ASSUME NEW b \in builds, b.pc = "queued"
      PROVE  /\ UNION {g.files : g \in Queued(b)} = b.files
             /\ \A g, h \in Queued(b) : g # h => g.files \cap h.files = {} /\ g.name # h.name
             /\ \A g \in Queued(b) : g.to = b.place
  <2>1. Queued(b) = Archives(b)
    BY <1>1 DEF Queued, DialogIInv, Handed
  <2>2. /\ DOMAIN b.plans = 1..Len(b.plans) /\ Len(b.plans) \in Nat
        /\ PlansFit(b.plans, b.files, Len(b.plans)) /\ b.to = b.place
    BY BuildTyped DEF Sound, PlansKept
  <2>3. \A g \in Queued(b) : \E i \in 1..Len(b.plans) :
          g = [n |-> b.n, name |-> b.plans[i].name, files |-> b.plans[i].files,
               thumbnail |-> b.thumbnails[i], to |-> b.to]
    BY <2>1, <2>2 DEF Archives
  <2>4. ASSUME NEW g \in Queued(b), NEW h \in Queued(b), g # h
        PROVE  g.files \cap h.files = {} /\ g.name # h.name
    <3>1. PICK i \in 1..Len(b.plans), j \in 1..Len(b.plans) :
            /\ g = [n |-> b.n, name |-> b.plans[i].name, files |-> b.plans[i].files,
                    thumbnail |-> b.thumbnails[i], to |-> b.to]
            /\ h = [n |-> b.n, name |-> b.plans[j].name, files |-> b.plans[j].files,
                    thumbnail |-> b.thumbnails[j], to |-> b.to]
      BY <2>3
    <3>2. i # j
      BY <2>4, <3>1
    <3> QED BY <2>2, <3>1, <3>2 DEF PlansFit
  <2>5. \A g \in Queued(b) : g.to = b.place /\ \E i \in 1..Len(b.plans) : g.files = b.plans[i].files
    BY <2>2, <2>3
  <2>6. \A i \in 1..Len(b.plans) : \E g \in Queued(b) : g.files = b.plans[i].files
    <3>1. ASSUME NEW i \in 1..Len(b.plans)
          PROVE  [n |-> b.n, name |-> b.plans[i].name, files |-> b.plans[i].files,
                  thumbnail |-> b.thumbnails[i], to |-> b.to] \in Queued(b)
      BY <2>1, <2>2 DEF Archives
    <3> QED BY <3>1
  <2>7. /\ \A i \in 1..Len(b.plans) : b.plans[i].files \subseteq b.files
        /\ \A f \in b.files : \E i \in 1..Len(b.plans) : f \in b.plans[i].files
    BY <2>2 DEF PlansFit
  <2>8. UNION {g.files : g \in Queued(b)} = b.files
    <3>1. ASSUME NEW f \in b.files PROVE f \in UNION {g.files : g \in Queued(b)}
      BY <2>6, <2>7
    <3>2. ASSUME NEW g \in Queued(b) PROVE g.files \subseteq b.files
      BY <2>5, <2>7
    <3> QED BY <3>1, <3>2
  <2> QED BY <2>4, <2>5, <2>8
<1>2. PackedOnce
  BY <1>1 DEF PackedOnce
<1>3. ThumbnailInside
  BY DEF ThumbnailInside, DialogIInv, Handed, Decodes
<1>4. CancelledKeeps
  <2>1. \A b \in builds : b.early => b.pc # "queued"
    BY DEF DialogIInv, Sound, AbortSeen
  <2>2. \A b \in builds : b.pc # "queued" => Queued(b) = {}
    BY DEF DialogIInv, Handed, Queued
  <2> QED BY <2>1, <2>2 DEF CancelledKeeps
<1> QED BY <1>2, <1>3, <1>4 DEF DialogInv

(* The archives of a build hold the files that were shown when it was started, *)
(* each once, under names that differ, with thumbnails of their own, in the    *)
(* folder of that moment, and a build that is cancelled in time or fails gives *)
(* the queue nothing (upload-dialog.tsx, buildAndQueue).                       *)
THEOREM ArchivesAlwaysRight == BrowserSpec => []DialogInv
<1>1. BrowserInit => DialogIInv
  BY DialogInitially DEF BrowserInit
<1>2. DialogIInv /\ [BrowserNext]_bvars => DialogIInv'
  <2>1. [BrowserNext]_bvars => [DialogNext]_dialogVars
    BY DEF BrowserNext, bvars
  <2> QED BY <2>1, DialogStep
<1> QED BY <1>1, <1>2, DialogImplies, PTL DEF BrowserSpec

-----------------------------------------------------------------------------
(* The list of the dialog under a build.                                       *)
Listed ==
  \A b \in builds, c \in builds' :
    c.n = b.n /\ b.mine /\ Active(b) /\ c.mine /\ c.pc # "queued" => b.files \subseteq list'

LEMMA ListGrows == ASSUME DialogIInv, list \subseteq list' PROVE Listed
BY DEF Listed, DialogIInv, MineShown

LEMMA DialogStepListed == DialogIInv /\ [DialogNext]_dialogVars => Listed
<1> SUFFICES ASSUME DialogIInv, [DialogNext]_dialogVars PROVE Listed
  OBVIOUS
<1>1. CASE UNCHANGED dialogVars
  BY <1>1, ListGrows DEF dialogVars
<1>2. CASE \/ Open \/ ChooseFiles \/ DropFiles \/ CollectDroppedFiles \/ SetMode \/ SetOptions
           \/ SetPassword \/ SelectThumbnail \/ BuildAndQueue
  <2>1. list \subseteq list'
    BY <1>2 DEF Open, ChooseFiles, DropFiles, CollectDroppedFiles, SetMode, SetOptions,
       SetPassword, SelectThumbnail, BuildAndQueue, AddCandidates
  <2> QED BY <2>1, ListGrows
<1>3. CASE HandleOpenChange
  BY <1>3 DEF HandleOpenChange, Building, Listed
<1>4. CASE RemoveCandidate \/ UploadDirectly
  BY <1>4 DEF RemoveCandidate, UploadDirectly, DialogIInv, MineShown, Listed
<1>5. CASE GoBack
  <2>1. CASE list' = list
    BY <2>1, ListGrows
  <2>2. CASE builds' = Detached(builds)
    <3>1. ASSUME NEW c \in builds' PROVE ~c.mine
      <4>1. PICK b \in builds : c = [b EXCEPT !.mine = FALSE]
        BY <2>2 DEF Detached
      <4> QED BY <4>1, BuildTyped, DetachedBuild
    <3> QED BY <3>1 DEF Listed
  <2> QED BY <1>5, <2>1, <2>2 DEF GoBack
<1>6. ASSUME NEW b \in builds, NEW i \in DOMAIN b.plans, FirstDecodableThumbnail(b, i) PROVE Listed
  BY <1>6, ListGrows DEF FirstDecodableThumbnail
<1>7. ASSUME NEW b \in builds, Abort(b) \/ StopBuild(b) \/ AddEntry(b) \/ EntryFails(b) PROVE Listed
  BY <1>7, ListGrows DEF Abort, StopBuild, AddEntry, EntryFails
<1>8. ASSUME NEW b \in builds, CloseArchive(b) PROVE Listed
  <2>1. CASE b.plan < Len(b.plans) \/ ~b.mine
    BY <1>8, <2>1, ListGrows DEF CloseArchive
  <2>2. CASE ~(b.plan < Len(b.plans)) /\ b.mine
    <3> DEFINE new == [b EXCEPT !.pc = "queued"]
    <3>1. builds' = (builds \ {b}) \cup {new} /\ Active(b)
      BY <1>8, <2>2 DEF CloseArchive, Becomes, Active
    <3>2. b \in Build
      BY BuildTyped
    <3>3. new.pc = "queued" /\ new.n = b.n
      BY <3>2 DEF Build
    <3> HIDE DEF new
    <3>4. \A d \in builds : d.mine /\ Active(d) => d = b
      BY <2>2, <3>1 DEF DialogIInv, OneMine
    <3>5. \A c \in builds' : c.n = b.n => c = new
      BY <3>1 DEF DialogIInv, Numbered
    <3> QED BY <3>3, <3>4, <3>5 DEF Listed
  <2> QED BY <2>1, <2>2
<1> QED BY <1>1, <1>2, <1>3, <1>4, <1>5, <1>6, <1>7, <1>8 DEF DialogNext

(* A build that runs, is cancelled or fails leaves its files in the list of    *)
(* the dialog it was started from (upload-dialog.tsx, buildAndQueue).          *)
THEOREM FilesAlwaysStayListed == BrowserSpec => FilesStayListed
<1>1. DialogIInv /\ [BrowserNext]_bvars => [Listed]_dialogVars
  <2>1. [BrowserNext]_bvars => [DialogNext]_dialogVars
    BY DEF BrowserNext, bvars
  <2> QED BY <2>1, DialogStepListed
<1>2. BrowserInit => DialogIInv
  BY DialogInitially DEF BrowserInit
<1>3. DialogIInv /\ [BrowserNext]_bvars => DialogIInv'
  <2>1. [BrowserNext]_bvars => [DialogNext]_dialogVars
    BY DEF BrowserNext, bvars
  <2> QED BY <2>1, DialogStep
<1>4. BrowserSpec => [][Listed]_dialogVars
  BY <1>1, <1>2, <1>3, PTL DEF BrowserSpec
<1> QED BY <1>4 DEF FilesStayListed, Listed
=============================================================================
