----------------------------- MODULE UploadQueue -----------------------------
(* The background upload queue of the web application (apps/web/app/features/  *)
(* upload): the rows of the queue, the runners that upload at most Slots of    *)
(* them at a time, the preflight checks, the archive batches and their          *)
(* thumbnails, and every button of the activity panel.  The server is a small  *)
(* environment: Upload models it in detail.                                    *)
(*                                                                             *)
(* Keys are numbered in the order in which they are added, so the order of the *)
(* array of items is the order of the keys.  A file has at most one chunk.     *)
(* What a synchronous handler and the promise continuations it triggers do is  *)
(* one step: no other event can come between them.                             *)
EXTENDS Naturals, FiniteSets

CONSTANTS Keys,        \* number of rows ever added
          Path,        \* destination paths
          Empty,       \* the keys whose file has no bytes
          Slots,       \* MAX_CONCURRENT_UPLOADS
          Lingering,   \* bound: the abandoned requests that may still arrive
          MaxRetries,  \* MAX_AUTOMATIC_RETRIES
          MaxTrouble   \* bound: failed requests, expired sessions, other writers

Key == 1..Keys

ASSUME QueueAssumption ==
  /\ Keys \in Nat /\ Slots \in Nat \ {0} /\ MaxRetries \in Nat /\ MaxTrouble \in Nat
  /\ Empty \subseteq Key /\ Lingering \subseteq Key \X {"put", "complete", "cancel"}

VARIABLES
  item,            \* item[k]: the row of key k
  runner,          \* runner[k]: startUpload of key k and its cancellation
  checks,          \* the sets of keys whose preflight request is in flight
  globallyPaused,
  held,            \* the keys whose source is registered
  batches,         \* the archive batches that wait for their thumbnail
  approved,        \* approved[k]: the file the user last agreed to replace by k
  asked,           \* the keys whose session was asked to be cancelled
  file,            \* file[p]: what is at path p of the server
  srv,             \* srv[k]: the upload session of key k
  stray,           \* requests nobody waits for, on their way
  trouble

client == <<checks, held, batches, approved, asked>>
rows == <<item, runner, globallyPaused>>
server == <<file, srv, stray>>
vars == <<rows, client, server, trouble>>

Busy == {"checking", "queued", "uploading", "retrying"}
Finished == {"skipped", "complete", "failed"}
(* What can be at a path: nothing, the file of a key, a file of somebody else in *)
(* one of two versions, a folder.                                              *)
Absent == 0
Other == Keys + 1
Newer == Keys + 2
Folder == Keys + 3
Content == 0..Folder

Blank(state) ==
  [st |-> state, path |-> "none", batch |-> {}, dup |-> FALSE,
   target |-> "none", seen |-> Absent, overwrite |-> FALSE, session |-> "none",
   retries |-> 0, eligible |-> FALSE]
Idle == [pc |-> "idle", aborted |-> FALSE]
(* A session the server has opened is known once the client got its answer.   *)
Unopened == [st |-> "none", path |-> "none", want |-> Absent, known |-> FALSE]

Init ==
  /\ item = [k \in Key |-> Blank("new")]
  /\ runner = [k \in Key |-> Idle]
  /\ checks = {} /\ globallyPaused = FALSE
  /\ held = {} /\ batches = {} /\ asked = {}
  /\ approved = [k \in Key |-> Absent]
  /\ file \in [Path -> {Absent, Other}]
  /\ srv = [k \in Key |-> Unopened]
  /\ stray = {} /\ trouble = 0

Trouble == trouble < MaxTrouble /\ trouble' = trouble + 1
Fine == trouble' = trouble

Present(k) == item[k].st \notin {"new", "gone"}
Live(rn, k) == rn[k].pc # "idle"
In(states) == {k \in Key : item[k].st \in states}

-----------------------------------------------------------------------------
(* The rows *)

Paused(r) == IF r.st \in {"queued", "uploading", "retrying"}
             THEN [r EXCEPT !.st = "paused"] ELSE r
Resumed(r) == IF r.st = "paused" THEN [r EXCEPT !.st = "queued"] ELSE r
Released(r, paused) == [r EXCEPT !.st = IF paused THEN "paused" ELSE "queued"]

StatusOf(p) == CASE file[p] = Absent -> "available"
                 [] file[p] = Folder    -> "directory"
                 [] OTHER              -> "conflict"

NeedsDecision(r, status) == r.dup \/ status # "available"
(* applyPreflight: the row of a checked upload.                                *)
Checked(r, status, seen) ==
  LET told == [r EXCEPT !.target = status, !.seen = seen, !.overwrite = FALSE,
                        !.retries = 0, !.eligible = FALSE]
  IN IF NeedsDecision(r, status)
     THEN [told EXCEPT !.st = "needs-decision"]
     ELSE Released(told, globallyPaused)

(* replaceOne and replaceAll: the row the user chose to upload.                *)
Chosen(r) == Released([r EXCEPT !.overwrite = r.target = "conflict",
                                !.eligible = FALSE], globallyPaused)
Skipped(r) == [r EXCEPT !.st = "skipped", !.eligible = FALSE]

(* retry: a row that was never checked and has no session is checked again.    *)
Retried(r) ==
  IF r.st = "failed" /\ r.eligible
  THEN IF r.target # "none" \/ r.session # "none"
       THEN Released([r EXCEPT !.eligible = FALSE], globallyPaused)
       ELSE [r EXCEPT !.st = "checking", !.eligible = FALSE]
  ELSE r

Failed(r, eligible) == [r EXCEPT !.st = "failed", !.retries = 0, !.eligible = eligible]
TargetChanged(r) ==
  [r EXCEPT !.st = "checking", !.overwrite = FALSE, !.target = "none",
            !.seen = Absent, !.retries = 0, !.eligible = FALSE]
Complete(r) == [r EXCEPT !.st = "complete", !.session = "complete", !.retries = 0,
                         !.eligible = FALSE]

-----------------------------------------------------------------------------
(* The runners *)

FirstRequest(r) == [pc |-> IF r.session = "none" THEN "create" ELSE "status", aborted |-> FALSE]

(* nextRunnableUploadKeys: the first queued rows without a runner.             *)
NextRunnable(it, rn, paused) ==
  LET running == {k \in Key : Live(rn, k)}
      waiting == {k \in Key : it[k].st = "queued" /\ k \notin running}
  IN IF paused THEN {}
     ELSE {k \in waiting :
             Cardinality(running) + Cardinality({j \in waiting : j < k}) < Slots}

(* schedule(), at the end of a handler that left these rows and runners.       *)
Schedule(it, rn, paused) ==
  LET started == NextRunnable(it, rn, paused)
  IN /\ item' = [k \in Key |-> IF k \in started
                               THEN [it[k] EXCEPT !.st = "uploading"] ELSE it[k]]
     /\ runner' = [k \in Key |-> IF k \in started THEN FirstRequest(it[k]) ELSE rn[k]]
     /\ globallyPaused' = paused
Unscheduled(it, rn) == item' = it /\ runner' = rn /\ UNCHANGED globallyPaused

With(k, r) == [item EXCEPT ![k] = r]
At(k, pc) == [runner EXCEPT ![k].pc = pc]

EndsUnscheduled(it, k) == Unscheduled(it, [runner EXCEPT ![k] = Idle])
(* startUpload returns: its finally block frees the slot and schedules.        *)
Ends(it, k) == Schedule(it, [runner EXCEPT ![k] = Idle], globallyPaused)

AbortedNot(K) == runner
(* abort() of a cancellation: a request that takes the signal settles at once  *)
(* and its runner returns; create and preflight are not told.                  *)
Deaf == {"create", "recheck"}
Aborted(K) ==
  [k \in Key |-> IF k \notin K \/ ~Live(runner, k) THEN runner[k]
                 ELSE IF runner[k].pc \in Deaf THEN [runner[k] EXCEPT !.aborted = TRUE]
                 ELSE Idle]
(* The requests it leaves on their way; and cancelUpload, which nobody awaits. *)
Left(K) == {<<k, runner[k].pc>> : k \in K} \cap Lingering
CancelSent(S) == (S \X {"cancel"}) \cap Lingering

(* How an attempt of runner k goes on: catch block of startUpload, by the      *)
(* class of the error.                                                         *)
Stopped(k) == runner[k].aborted
Continue(k, it, pc) == IF Stopped(k) THEN Ends(it, k) ELSE Unscheduled(it, At(k, pc))
Transient(k) ==
  IF Stopped(k) THEN Ends(item, k)
  ELSE IF item[k].retries < MaxRetries
  THEN Unscheduled(With(k, [item[k] EXCEPT !.st = "retrying", !.retries = @ + 1]), At(k, "sleep"))
  ELSE Ends(With(k, Failed(item[k], TRUE)), k)
Permanent(k) == Ends(IF Stopped(k) THEN item ELSE With(k, Failed(item[k], FALSE)), k)
Changed(k) == Continue(k, IF Stopped(k) THEN item ELSE With(k, TargetChanged(item[k])),
                       "recheck")

(* sources.release and abandonArchiveBatch.                                    *)
Kept(K) == held \ K
AbandonedNot(K) == batches
Abandoned(K) == {B \in batches : B \cap K = {}}

(* markComplete, the release of the source and finishArchiveItem.              *)
Completes(k) ==
  LET it == With(k, Complete(item[k]))
  IN /\ Ends(it, k)
     /\ held' = Kept({k})
     /\ batches' = {B \in batches : \E j \in B : it[j].st # "complete"}


AnswerStatus(k) ==
  /\ runner[k].pc = "status"
  /\ LET known == With(k, [item[k] EXCEPT
                     !.session = IF srv[k].st = "complete" THEN "complete" ELSE "open"])
         sent == IF k \in Empty THEN srv[k].st = "uploaded" ELSE srv[k].st # "open"
     IN IF srv[k].st = "expired" THEN Permanent(k)
        ELSE Continue(k, known, IF sent THEN "complete" ELSE "put")
  /\ Fine /\ UNCHANGED <<client, server>>

WantAny(r) == IF r.overwrite THEN file[r.path] ELSE Absent
(* The server refuses to create a session for a target that is not the one the *)
(* client was told of.                                                         *)
Want(r) == IF r.overwrite THEN r.seen ELSE Absent

(* No answer: the request was lost, or its answer after the server handled it. *)
(* A session whose id is lost with the answer stays open at the server, and the *)
(* next attempt creates another one.                                           *)
MayCreate(k) == Present(k) => file[item[k].path] = Want(item[k])
NetworkFails(k) ==
  /\ runner[k].pc \in {"status", "create", "put", "reconcile", "complete", "deciding"}
  /\ Trouble
  /\ Transient(k)
  /\ stray' = stray \cup Left({k})
  /\ \/ UNCHANGED srv
     \/ /\ runner[k].pc = "create" /\ MayCreate(k)
        /\ srv' = [srv EXCEPT ![k] = [Unopened EXCEPT !.st = "open"]]
  /\ UNCHANGED <<client, file>>

CreatedUnseen(k) ==
  /\ Ends(item, k)
  /\ srv' = [srv EXCEPT ![k].st = "open", ![k].known = TRUE]
  /\ UNCHANGED <<client, file, stray>>
(* The row was cancelled meanwhile: a session that was created is cancelled.   *)
CreatedTooLate(k) ==
  /\ Ends(item, k)
  /\ \/ UNCHANGED <<client, server>>
     \/ /\ srv' = [srv EXCEPT ![k].st = "open", ![k].known = TRUE]
        /\ stray' = stray \cup CancelSent({k}) /\ asked' = asked \cup {k}
        /\ UNCHANGED <<checks, held, batches, approved, file>>

AnswerCreate(k) ==
  /\ runner[k].pc = "create"
  /\ \/ /\ Present(k) /\ file[item[k].path] # Want(item[k])
        /\ Changed(k)
        /\ UNCHANGED <<client, server>>
     \/ /\ Present(k) /\ file[item[k].path] = Want(item[k])
        /\ Continue(k, With(k, [item[k] EXCEPT !.session = "open"]), "put")
        /\ srv' = [srv EXCEPT ![k] = [st |-> "open", path |-> item[k].path,
                                      want |-> Want(item[k]), known |-> TRUE]]
        /\ UNCHANGED <<client, file, stray>>
     \/ ~Present(k) /\ CreatedTooLate(k)
  /\ Fine

(* A chunk the server does not expect is answered 409, which makes the client  *)
(* ask where the session stands; the request of an empty file has no such path.*)
AnswerPut(k) ==
  /\ runner[k].pc = "put"
  /\ IF srv[k].st = "open"
     THEN Continue(k, item, "complete") /\ srv' = [srv EXCEPT ![k].st = "uploaded"]
     ELSE /\ IF srv[k].st = "expired" \/ k \in Empty
             THEN Permanent(k) ELSE Continue(k, item, "reconcile")
          /\ UNCHANGED srv
  /\ Fine /\ UNCHANGED <<client, file, stray>>

AnswerReconcile(k) ==
  /\ runner[k].pc = "reconcile"
  /\ Continue(k, item, IF srv[k].st \in {"open", "expired"} THEN "put" ELSE "complete")
  /\ Fine /\ UNCHANGED <<client, server>>

(* The server takes a completed upload once; a second request is told at once  *)
(* that it is under way, and the client takes any such answer for success.     *)
AnswerComplete(k) ==
  /\ runner[k].pc = "complete"
  /\ CASE srv[k].st = "uploaded" ->
            /\ Continue(k, item, "deciding")
            /\ srv' = [srv EXCEPT ![k].st = "finalizing"]
            /\ UNCHANGED <<held, batches>>
       [] srv[k].st \in {"finalizing", "complete"} -> Completes(k) /\ UNCHANGED srv
       [] OTHER -> Permanent(k) /\ UNCHANGED <<held, batches, srv>>
  /\ Fine /\ UNCHANGED <<checks, approved, asked, file, stray>>

AnswerDecided(k) ==
  /\ runner[k].pc = "deciding" /\ srv[k].st # "finalizing"
  /\ IF srv[k].st = "complete" THEN Completes(k)
     ELSE Permanent(k) /\ UNCHANGED <<held, batches>>
  /\ Fine /\ UNCHANGED <<checks, approved, asked, server>>

(* The delay of a retry is over.                                               *)
Wake(k) ==
  /\ runner[k].pc = "sleep"
  /\ Unscheduled(With(k, [item[k] EXCEPT !.st = "uploading"]),
                 [runner EXCEPT ![k] = FirstRequest(item[k])])
  /\ Fine /\ UNCHANGED <<client, server>>

-----------------------------------------------------------------------------
(* Preflight *)

Answered(K) == [k \in Key |-> IF k \in K /\ item[k].st = "checking"
                              THEN Checked(item[k], StatusOf(item[k].path),
                                           file[item[k].path])
                              ELSE item[k]]
Unanswered(K, eligible) == [k \in Key |-> IF k \in K /\ item[k].st = "checking"
                                          THEN Failed(item[k], eligible) ELSE item[k]]

CheckAnswered(K) ==
  /\ K \in checks
  /\ Schedule(Answered(K), runner, globallyPaused)
  /\ checks' = checks \ {K}
  /\ Fine /\ UNCHANGED <<held, batches, approved, asked, server>>
CheckFails(K) ==
  /\ K \in checks
  /\ Trouble
  /\ \E eligible \in BOOLEAN : Unscheduled(Unanswered(K, eligible), runner)
  /\ checks' = checks \ {K}
  /\ UNCHANGED <<held, batches, approved, asked, server>>

(* The check a runner makes after its target changed.                          *)
Recheck(k) ==
  /\ runner[k].pc = "recheck"
  /\ \/ Ends(Answered({k}), k) /\ Fine
     \/ /\ Trouble
        /\ \E eligible \in BOOLEAN : Ends(Unanswered({k}, eligible), k)
  /\ UNCHANGED <<client, server>>

-----------------------------------------------------------------------------
(* The user: what the panel offers, and what the controller does.              *)

Added == Cardinality({k \in Key : item[k].st # "new"})
Fresh(K, path) ==
  [k \in Key |->
    IF k \notin K THEN item[k]
    ELSE [Blank("checking") EXCEPT
            !.path = path[k], !.batch = K,
            !.dup = \E j \in K \ {k} : path[j] = path[k]]]
(* add and addArchives: the parts of an archive have paths of their own.       *)
Add ==
  \E n \in 1..(Keys - Added), archive \in BOOLEAN :
    LET K == (Added + 1)..(Added + n)
    IN \E path \in [K -> Path] :
         /\ archive => \A j, k \in K : path[j] = path[k] => j = k
         /\ Unscheduled(Fresh(K, path), runner)
         /\ checks' = checks \cup {K}
         /\ held' = held \cup K
         /\ batches' = IF archive THEN batches \cup {K} ELSE batches
         /\ Fine /\ UNCHANGED <<approved, asked, server>>

MayPause(k) == item[k].st \in {"queued", "uploading", "retrying"}
MayCancel(k) == MayPause(k) \/ item[k].st = "paused"
MayRetry(k) == item[k].st = "failed" /\ item[k].eligible
MayDismiss(k) == item[k].st \in Finished
MayReplace(k) == item[k].st = "needs-decision" /\ item[k].target # "directory"
Pending == In(Busy) # {}

PauseRows(K, paused) ==
  /\ Schedule([k \in Key |-> IF k \in K THEN Paused(item[k]) ELSE item[k]],
              Aborted(K), paused)
  /\ stray' = stray \cup Left(K)
  /\ Fine /\ UNCHANGED <<client, file, srv>>
ResumeRows(K, paused) ==
  /\ Schedule([k \in Key |-> IF k \in K THEN Resumed(item[k]) ELSE item[k]],
              runner, paused)
  /\ Fine /\ UNCHANGED <<client, server>>

Pause(k) == MayPause(k) /\ PauseRows({k}, globallyPaused)
Resume(k) == item[k].st = "paused" /\ ResumeRows({k}, globallyPaused)
MayPauseAll == Pending \/ In({"paused"}) # {}
PauseAll == /\ MayPauseAll /\ ~globallyPaused
            /\ PauseRows({k \in Key : MayPause(k)}, TRUE)
ResumeAll == MayPauseAll /\ globallyPaused /\ ResumeRows(Key, FALSE)

(* Rows leave the queue: sources are released, archive batches abandoned, and  *)
(* the sessions of the rows in S asked to be cancelled.                        *)
Remove(K, S) ==
  /\ held' = Kept(K)
  /\ batches' = Abandoned(K)
  /\ asked' = asked \cup S
  /\ stray' = stray \cup Left(K) \cup CancelSent(S)
  /\ Schedule([k \in Key |-> IF k \in K THEN Blank("gone") ELSE item[k]],
              Aborted(K), globallyPaused)
  /\ Fine /\ UNCHANGED <<checks, approved, file, srv>>
WithSession(K) == {k \in K : item[k].session # "none"}

Cancel(k) == MayCancel(k) /\ Remove({k}, WithSession({k}))
(* Both dialogs may stay open while the rows they were opened for go on.       *)
CancelAll ==
  LET K == {k \in Key : Present(k) /\ item[k].st \notin {"complete", "skipped"}}
  IN K # {} /\ Remove(K, WithSession(K))
Dismiss(k) ==
  MayDismiss(k) /\ Remove({k}, {j \in WithSession({k}) : item[j].st # "complete"})
ClearFinished ==
  LET K == In(Finished)
  IN K # {} /\ Remove(K, {k \in K : item[k].st = "failed" /\ item[k].session = "open"})

RetryRows(K) ==
  LET it == [k \in Key |-> IF k \in K THEN Retried(item[k]) ELSE item[k]]
      again == {k \in K : it[k].st = "checking"}
  IN /\ Schedule(it, runner, globallyPaused)
     /\ checks' = IF again = {} THEN checks ELSE checks \cup {again}
     /\ Fine /\ UNCHANGED <<held, batches, approved, asked, server>>
Retry(k) == MayRetry(k) /\ RetryRows({k})
RetryAll == LET K == {k \in Key : MayRetry(k)} IN K # {} /\ RetryRows(K)

(* Rows of C are chosen, rows of S skipped.                                    *)
Decide(C, S) ==
  /\ Schedule([k \in Key |-> IF k \in C THEN Chosen(item[k])
                             ELSE IF k \in S THEN Skipped(item[k]) ELSE item[k]],
              runner, globallyPaused)
  /\ held' = Kept(S)
  /\ batches' = Abandoned(S)
  /\ approved' = [k \in Key |-> IF k \in C THEN item[k].seen ELSE approved[k]]
  /\ Fine /\ UNCHANGED <<checks, asked, server>>

Rivals(k) == {j \in item[k].batch \ {k} : /\ item[j].st = "needs-decision"
                                          /\ item[j].path = item[k].path}
ReplaceOne(k) ==
  MayReplace(k) /\ Decide({k}, IF item[k].dup THEN Rivals(k) ELSE {})
SkipOne(k) == item[k].st = "needs-decision" /\ Decide({}, {k})
Undecided(B) == {k \in B : item[k].st = "needs-decision"}
ReplaceAll(B) ==
  LET C == {k \in Undecided(B) : MayReplace(k) /\ ~item[k].dup}
  IN C # {} /\ Decide(C, {})
SkipAll(B) == Undecided(B) # {} /\ Decide({}, Undecided(B))

-----------------------------------------------------------------------------
(* The server *)

Finalise(k) ==
  /\ srv[k].st = "finalizing"
  /\ IF file[srv[k].path] = srv[k].want
     THEN file' = [file EXCEPT ![srv[k].path] = k] /\ srv' = [srv EXCEPT ![k].st = "complete"]
     ELSE file' = file /\ srv' = [srv EXCEPT ![k].st = "conflict"]
  /\ Fine /\ UNCHANGED <<rows, client, stray>>

(* A request nobody waits for is handled, or was lost.                         *)
Handled(k, kind) ==
  CASE kind = "put" /\ srv[k].st = "open"          -> "uploaded"
    [] kind = "complete" /\ srv[k].st = "uploaded" -> "finalizing"
    [] kind = "cancel" /\ srv[k].st \in {"open", "uploaded", "expired"} -> "cancelled"
    [] OTHER -> srv[k].st
HandleStray(k, kind) ==
  /\ <<k, kind>> \in stray
  /\ stray' = stray \ {<<k, kind>>}
  /\ \E lost \in BOOLEAN :
       srv' = IF lost THEN srv ELSE [srv EXCEPT ![k].st = Handled(k, kind)]
  /\ Fine /\ UNCHANGED <<rows, client, file>>

Expire(k) ==
  /\ srv[k].st = "open" /\ Trouble
  /\ srv' = [srv EXCEPT ![k].st = "expired"]
  /\ UNCHANGED <<rows, client, file, stray>>
OtherWrites(p) ==
  /\ Trouble
  /\ \E c \in {Newer} \cup (IF file[p] = Absent THEN {Folder} ELSE {}) :
       file' = [file EXCEPT ![p] = c]
  /\ UNCHANGED <<rows, client, srv, stray>>

Runs(k) ==
  \/ AnswerStatus(k) \/ AnswerCreate(k) \/ AnswerPut(k) \/ AnswerReconcile(k)
  \/ AnswerComplete(k) \/ AnswerDecided(k) \/ NetworkFails(k) \/ Wake(k) \/ Recheck(k)
Row(k) ==
  \/ Pause(k) \/ Resume(k) \/ Cancel(k) \/ Dismiss(k) \/ Retry(k)
  \/ ReplaceOne(k) \/ SkipOne(k)
Next ==
  \/ \E k \in Key : Runs(k) \/ Row(k) \/ Finalise(k) \/ Expire(k)
  \/ \E K \in checks : CheckAnswered(K) \/ CheckFails(K)
  \/ \E B \in {item[k].batch : k \in Key} : ReplaceAll(B) \/ SkipAll(B)
  \/ Add \/ PauseAll \/ ResumeAll \/ CancelAll \/ ClearFinished \/ RetryAll
  \/ \E m \in stray : HandleStray(m[1], m[2])
  \/ \E p \in Path : OtherWrites(p)

(* Every request ends: it is answered, refused or fails.                       *)
Fairness ==
  /\ \A k \in Key : WF_vars(Runs(k)) /\ WF_vars(Finalise(k))
  /\ \A K \in SUBSET Key : WF_vars(CheckAnswered(K) \/ CheckFails(K))

Spec == Init /\ [][Next]_vars
FairSpec == Spec /\ Fairness

-----------------------------------------------------------------------------
(* Types, and rows and runners that agree: a row shows an upload exactly while *)
(* a runner works on it, a row is checked exactly while a check is on its way, *)
(* no more than Slots runners are live, and the source of a row is kept as     *)
(* long as the row can still be uploaded, and no longer.                       *)
TypeOK ==
  /\ \A k \in Key : /\ item[k].st \in Busy \cup Finished \cup
                                    {"new", "gone", "paused", "needs-decision"}
                    /\ item[k].seen \in Content /\ item[k].retries \in 0..MaxRetries
  /\ file \in [Path -> Content] /\ held \subseteq Key /\ asked \subseteq Key
SourcesHeld ==
  held = {k \in Key : item[k].st \notin {"new", "gone", "complete", "skipped"}}
QueueInv ==
  /\ TypeOK /\ SourcesHeld
  /\ \A k \in Key :
       LET works == Live(runner, k) /\ ~runner[k].aborted
       IN /\ item[k].st = "uploading" <=> works /\ runner[k].pc \notin {"sleep", "recheck"}
          /\ item[k].st = "retrying" <=> works /\ runner[k].pc = "sleep"
          /\ item[k].st = "checking" <=> \/ works /\ runner[k].pc = "recheck"
                                         \/ Present(k) /\ \E K \in checks : k \in K
  /\ Cardinality({k \in Key : Live(runner, k)}) <= Slots

(* A slot is never left free while a row waits for it, whatever sequence of    *)
(* pauses, cancellations, failures and answers led there.                      *)
NoIdleSlot == NextRunnable(item, runner, globallyPaused) = {}

(* A batch that waits for its thumbnail can still be completed: none of its    *)
(* parts was removed or skipped, and some part is not complete yet.            *)
BatchesWait ==
  \A B \in batches : /\ \A k \in B : item[k].st \notin {"gone", "skipped"}
                     /\ \E k \in B : item[k].st # "complete"

(* A file is replaced only in the version the user agreed to replace, however  *)
(* long the row waited, was retried, paused or checked again since.            *)
NoBlindReplace ==
  [][\A p \in Path : file'[p] \in Key /\ file'[p] # file[p] /\ file[p] # Absent
                       => approved[file'[p]] = file[p]]_file

(* The session of a row that left the queue is done or was asked to be         *)
(* cancelled, also when the row left before the answer that names the session  *)
(* came.  A session whose answer was lost has a name the client never learns:  *)
(* nobody can cancel it, and it is left to expire.                             *)
NoForgottenSession ==
  \A k \in Key :
    /\ item[k].st = "gone" /\ ~Live(runner, k)
    /\ srv[k].known /\ srv[k].st \in {"open", "uploaded"}
    => k \in asked

(* Once the user stops pausing rows, a row is not busy for ever, unless the    *)
(* whole queue is paused: no check is forgotten, no retry repeats for ever, no *)
(* row is passed over by the rows that start again before it.                  *)
PausesNoRow == \A k \in Key : item'[k].st = "paused" => item[k].st = "paused"
RowsSettle ==
  <>[][PausesNoRow]_item =>
    \A k \in Key : item[k].st \in Busy ~> item[k].st \notin Busy \/ globallyPaused
=============================================================================
