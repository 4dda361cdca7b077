---------------------------- MODULE UploadDialog ----------------------------
(* The upload dialog of the file browser (apps/web/app/features/upload/        *)
(* presentation/upload-dialog.tsx) up to the queue it hands files to: the list *)
(* of chosen and dropped files, how they are grouped into archives, and the    *)
(* build of the archives, which works on what the page showed when the button  *)
(* was pressed while drops, the browser's Back and the Cancel button go on.    *)
EXTENDS Integers, Sequences, FiniteSetsExt, SequencesExt

CONSTANTS File,        \* the files at hand, numbered in the order of their paths
          InFolder,    \* those in a folder, which is chosen as a whole
          Corrupt,     \* those no browser can decode
          FileStem,    \* their names without an extension,
          FileName,    \* and with it
          FolderName,
          ArchiveName, \* what the user calls a single archive
          Selections,  \* what is chosen or dropped at once
          MaxSteps,    \* bound: things the user does
          MaxBuilds,   \* bound: builds
          BuildTrouble \* bound: failed drops and entries

(* A name is a sequence of words, a word a number; the suffix (n) is n.        *)
Name == Seq(Nat)

ASSUME DialogAssumption ==
  /\ File \subseteq Nat \ {0} /\ IsFiniteSet(File)
  /\ InFolder \subseteq File /\ Corrupt \subseteq File /\ Selections \subseteq SUBSET File
  /\ FileStem \in [File -> Name] /\ FileName \in [File -> Name]
  /\ FolderName \in Name /\ ArchiveName \in Name
  /\ MaxSteps \in Nat /\ MaxBuilds \in Nat /\ BuildTrouble \in Nat

NoImage == 0
Unknown == -1
Places == {"/", "/d"}

VARIABLES
  shown,      \* "closed", or the mode of the dialog
  list,       \* the files of the dialog
  options,    \* how to group them
  matching,   \* the passwords are the same
  picks,      \* thumbnails chosen by plan: <<plan, file>>
  alert,      \* the dialog shows an error
  drop,       \* files dropped whose folders are still read
  builds,     \* the builds started
  place,      \* the folder the page shows
  given,      \* what the upload queue was given
  steps, faults

form == <<options, matching, picks>>
bounds == <<steps, faults>>
dialogVars == <<shown, list, form, alert, drop, builds, place, given, bounds>>

DefaultOptions == [each |-> FALSE, keep |-> FALSE, recurse |-> FALSE]

DialogInit ==
  /\ shown = "closed" /\ list = {} /\ options = DefaultOptions /\ matching = TRUE
  /\ picks = {} /\ alert = FALSE /\ drop = {} /\ builds = {}
  /\ place \in Places /\ given = {} /\ steps = 0 /\ faults = 0

UserStep == steps < MaxSteps /\ steps' = steps + 1 /\ UNCHANGED faults
Fault == faults < BuildTrouble /\ faults' = faults + 1 /\ UNCHANGED steps
NoStep == UNCHANGED bounds

-----------------------------------------------------------------------------
(* From files to archives *)

Grouped(files, o) ==
  IF ~o.each THEN {files}
  ELSE IF o.recurse THEN {{f} : f \in files}
  ELSE {g \in {files \cap InFolder} \cup {{f} : f \in files \ InFolder} : g # {}}

Stem(group, o) ==
  IF ~o.each THEN ArchiveName
  ELSE IF ~o.recurse /\ group \subseteq InFolder THEN FolderName
  ELSE LET f == Min(group) IN IF o.keep THEN FileName[f] ELSE FileStem[f]
UniqueArchiveName(stem, used) ==
  IF stem \notin used THEN stem
  ELSE Append(stem, Min({n \in 2..Cardinality(used) + 2 : Append(stem, n) \notin used}))

(* The groups in the order of their first files, each under a name not used    *)
(* before.                                                                     *)
Ordered(groups) ==
  CHOOSE s \in SetToSeqs(groups) : \A i, j \in DOMAIN s : i < j => Min(s[i]) < Min(s[j])
ArchiveNames(groups, o) ==
  LET names[i \in 0..Len(groups)] ==
        IF i = 0 THEN <<>>
        ELSE Append(names[i - 1], UniqueArchiveName(Stem(groups[i], o), ToSet(names[i - 1])))
  IN names[Len(groups)]
BuildArchivePlans(files, o) ==
  IF files = {} THEN <<>>
  ELSE LET groups == Ordered(Grouped(files, o))
           names == ArchiveNames(groups, o)
       IN [i \in DOMAIN groups |-> [name |-> names[i], files |-> groups[i]]]
Plans == BuildArchivePlans(list, options)

(* The image picked for the plan comes first, the others in their order.       *)
FirstDecodable(plan, chosen) ==
  LET wanted == {f \in plan.files : <<plan, f>> \in chosen} \ Corrupt
      images == plan.files \ Corrupt
  IN IF wanted # {} THEN Min(wanted) ELSE IF images = {} THEN NoImage ELSE Min(images)

-----------------------------------------------------------------------------
(* The dialog *)

Active(b) == b.pc \in {"thumbnails", "entries", "closing"}
Building == \E b \in builds : b.mine /\ Active(b)
Detached(B) == {[b EXCEPT !.mine = FALSE] : b \in B}

(* Closing unmounts the dialog: its state is gone, and with it drops that are  *)
(* still read.  A build goes on.                                               *)
Closed ==
  /\ shown' = "closed" /\ list' = {} /\ options' = DefaultOptions /\ matching' = TRUE
  /\ picks' = {} /\ alert' = FALSE /\ drop' = {}

Open ==
  /\ UserStep
  /\ shown = "closed" /\ shown' = "select"
  /\ UNCHANGED <<list, form, alert, drop, builds, place, given>>
HandleOpenChange ==
  /\ UserStep
  /\ shown # "closed" /\ ~Building
  /\ Closed
  /\ UNCHANGED <<builds, place, given>>
(* The browser's Back: to another folder the dialog stays, elsewhere the page  *)
(* is unmounted.                                                               *)
GoBack ==
  /\ UserStep
  /\ \/ place' \in Places \ {place} /\ UNCHANGED <<shown, list, form, alert, drop, builds>>
     \/ shown # "closed" /\ Closed /\ builds' = Detached(builds) /\ place' = place
  /\ UNCHANGED given

AddCandidates(files) == list' = list \cup files /\ alert' = (files = {})
ChooseFiles ==
  /\ UserStep
  /\ shown = "select"
  /\ \E files \in Selections : AddCandidates(files)
  /\ UNCHANGED <<shown, form, drop, builds, place, given>>
DropFiles ==
  /\ UserStep
  /\ shown = "select" /\ drop = {}
  /\ drop' \in Selections \ {{}}
  /\ UNCHANGED <<shown, list, form, alert, builds, place, given>>
(* The folders of a drop are read whatever the dialog does meanwhile.          *)
CollectDroppedFiles ==
  /\ drop # {}
  /\ drop' = {}
  /\ \/ AddCandidates(drop) /\ NoStep
     \/ list' = list /\ alert' = TRUE /\ Fault
  /\ UNCHANGED <<shown, form, builds, place, given>>
RemoveCandidate ==
  /\ UserStep
  /\ shown = "select"
  /\ \E f \in list : list' = list \ {f}
  /\ UNCHANGED <<shown, form, alert, drop, builds, place, given>>
UploadDirectly ==
  /\ UserStep
  /\ shown = "select" /\ list # {}
  /\ given' = given \cup
       {[n |-> 0, name |-> <<>>, files |-> list, thumbnail |-> NoImage, to |-> place]}
  /\ Closed
  /\ UNCHANGED <<builds, place>>
SetMode ==
  /\ UserStep
  /\ \/ shown = "select" /\ list # {} /\ shown' = "archive"
     \/ shown = "archive" /\ ~Building /\ shown' = "select"
  /\ UNCHANGED <<list, form, alert, drop, builds, place, given>>
(* keep and recurse are for one archive per item only.                         *)
SetOptions ==
  /\ UserStep
  /\ shown = "archive" /\ ~Building
  /\ \/ options' = IF options.each THEN DefaultOptions ELSE [options EXCEPT !.each = TRUE]
     \/ options.each /\ options' = [options EXCEPT !.keep = ~@]
     \/ options.each /\ options' = [options EXCEPT !.recurse = ~@]
  /\ UNCHANGED <<shown, list, matching, picks, alert, drop, builds, place, given>>
SetPassword ==
  /\ UserStep
  /\ shown = "archive" /\ ~Building
  /\ matching' = ~matching
  /\ UNCHANGED <<shown, list, options, picks, alert, drop, builds, place, given>>
SelectThumbnail ==
  /\ UserStep
  /\ shown = "archive" /\ ~Building
  /\ \E i \in DOMAIN Plans : \E f \in Plans[i].files :
       picks' = {p \in picks : p[1] # Plans[i]} \cup {<<Plans[i], f>>}
  /\ UNCHANGED <<shown, list, options, matching, alert, drop, builds, place, given>>

-----------------------------------------------------------------------------
(* The build *)

(* buildAndQueue keeps the plans, the picks and the destination of the moment; *)
(* files is what the list showed then.                                         *)
BuildAndQueue ==
  /\ UserStep
  /\ Cardinality(builds) < MaxBuilds
  /\ shown = "archive" /\ ~Building /\ matching /\ Plans # <<>>
  /\ builds' = builds \cup
       {[n |-> Cardinality(builds) + 1, pc |-> "thumbnails", mine |-> TRUE,
         plans |-> Plans, picks |-> picks, to |-> place, files |-> list, place |-> place,
         thumbnails |-> [i \in DOMAIN Plans |-> Unknown],
         plan |-> 1, packed |-> {}, aborted |-> FALSE, early |-> FALSE]}
  /\ alert' = FALSE
  /\ UNCHANGED <<shown, list, form, drop, place, given>>

Becomes(b, new) == builds' = (builds \ {b}) \cup {new}
PlanOf(b) == b.plans[b.plan]

(* mapWithConcurrency: the plans' thumbnails in any order, each in its place.  *)
FirstDecodableThumbnail(b, i) ==
  /\ b.pc = "thumbnails" /\ b.thumbnails[i] = Unknown /\ ~b.aborted
  /\ LET found == [b.thumbnails EXCEPT ![i] = FirstDecodable(b.plans[i], b.picks)]
     IN Becomes(b, [b EXCEPT !.thumbnails = found,
                             !.pc = IF \E j \in DOMAIN found : found[j] = Unknown
                                    THEN @ ELSE "entries"])
  /\ NoStep
  /\ UNCHANGED <<shown, list, form, alert, drop, place, given>>

(* An abort ends the wait for thumbnails at once; it is noticed before an      *)
(* archive, before an entry and while an entry is read.                        *)
Abort(b) ==
  /\ UserStep
  /\ b.mine /\ Active(b) /\ ~b.aborted
  /\ Becomes(b, [b EXCEPT !.aborted = TRUE,
                          !.early = b.pc = "thumbnails" \/ b.plan < Len(b.plans)
                                      \/ Cardinality(PlanOf(b).files \ b.packed) > 1])
  /\ UNCHANGED <<shown, list, form, alert, drop, place, given>>
StopBuildClosing(b) ==
  /\ b.aborted /\ b.pc \in {"thumbnails", "entries"}
  /\ Becomes(b, [b EXCEPT !.pc = "stopped"])
  /\ IF b.mine THEN Closed ELSE UNCHANGED <<shown, list, form, alert, drop>>
  /\ NoStep /\ UNCHANGED <<place, given>>
StopBuild(b) ==
  /\ b.aborted /\ b.pc \in {"thumbnails", "entries"}
  /\ Becomes(b, [b EXCEPT !.pc = "stopped"])
  /\ NoStep
  /\ UNCHANGED <<shown, list, form, alert, drop, place, given>>
AddEntry(b) ==
  /\ b.pc = "entries"
  /\ LET packed == b.packed \cup {Min(PlanOf(b).files \ b.packed)}
     IN Becomes(b, [b EXCEPT !.packed = packed,
                             !.pc = IF packed = PlanOf(b).files THEN "closing"
                                    ELSE IF b.aborted THEN "stopped" ELSE "entries"])
  /\ NoStep
  /\ UNCHANGED <<shown, list, form, alert, drop, place, given>>
EntryFails(b) ==
  /\ b.pc = "entries"
  /\ Fault
  /\ Becomes(b, [b EXCEPT !.pc = "failed"])
  /\ alert' = (alert \/ b.mine)
  /\ UNCHANGED <<shown, list, form, drop, place, given>>

(* The last archive is closed without a look at the abort: all are queued, and *)
(* the dialog closes.                                                          *)
BuiltPlansNow(b) == IF b.mine THEN Plans ELSE b.plans
BuiltPlans(b) == b.plans
CloseArchive(b) ==
  /\ b.pc = "closing"
  /\ IF b.plan < Len(b.plans)
     THEN /\ Becomes(b, [b EXCEPT !.plan = @ + 1, !.packed = {},
                                  !.pc = IF b.aborted THEN "stopped" ELSE "entries"])
          /\ UNCHANGED <<shown, list, form, alert, drop, given>>
     ELSE /\ Becomes(b, [b EXCEPT !.pc = "queued"])
          /\ given' = given \cup
               {[n |-> b.n, name |-> BuiltPlans(b)[i].name, files |-> BuiltPlans(b)[i].files,
                 thumbnail |-> b.thumbnails[i], to |-> b.to] : i \in DOMAIN BuiltPlans(b)}
          /\ IF b.mine THEN Closed ELSE UNCHANGED <<shown, list, form, alert, drop>>
  /\ NoStep
  /\ UNCHANGED place

DialogNext ==
  \/ Open \/ HandleOpenChange \/ GoBack \/ ChooseFiles \/ DropFiles \/ CollectDroppedFiles
  \/ RemoveCandidate \/ UploadDirectly \/ SetMode \/ SetOptions \/ SetPassword
  \/ SelectThumbnail \/ BuildAndQueue
  \/ \E b \in builds : \/ \E i \in DOMAIN b.plans : FirstDecodableThumbnail(b, i)
                       \/ Abort(b) \/ StopBuild(b) \/ AddEntry(b) \/ EntryFails(b)
                       \/ CloseArchive(b)

-----------------------------------------------------------------------------
Queued(b) == {g \in given : g.n = b.n}

(* The archives a build queued hold the files the list showed when it was      *)
(* started, each file in one of them, under names that differ, and go to the   *)
(* folder shown then, whatever was dropped or opened while they were built.    *)
PackedOnce ==
  \A b \in builds : b.pc = "queued" =>
    /\ UNION {g.files : g \in Queued(b)} = b.files
    /\ \A g, h \in Queued(b) : g # h => g.files \cap h.files = {} /\ g.name # h.name
    /\ \A g \in Queued(b) : g.to = b.place

(* The thumbnail of an archive is an image in it that can be decoded, if there *)
(* is one, although thumbnails are made in any order.                          *)
ThumbnailInside ==
  \A g \in given : g.n # 0 =>
    IF g.files \subseteq Corrupt THEN g.thumbnail = NoImage ELSE g.thumbnail \in g.files \ Corrupt

(* A build cancelled before its last entry was begun queues nothing, nor does  *)
(* one that failed or is not over.                                             *)
CancelledKeeps ==
  \A b \in builds : (b.early \/ b.pc # "queued") => b.pc # "queued" /\ Queued(b) = {}
DialogInv == PackedOnce /\ ThumbnailInside /\ CancelledKeeps

(* While a build runs and when it ends without queueing, cancelled or failed,  *)
(* its files stay in the list of the dialog it was started from, whatever else *)
(* is dropped, closed or opened meanwhile; only its success clears the list.   *)
FilesStayListed ==
  [][\A b \in builds, c \in builds' :
       c.n = b.n /\ b.mine /\ Active(b) /\ c.mine /\ c.pc # "queued"
         => b.files \subseteq list']_dialogVars
=============================================================================
