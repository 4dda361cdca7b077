------------------------------- MODULE Upload -------------------------------
(* Upload sessions (internal/upload, and their records in                      *)
(* internal/db/tree_entities.go).  A session's record is one object, changed   *)
(* by compare-and-write; its bytes go to staging (local) or to a resumable     *)
(* session that the browser writes to directly (gcs).  Completion is a saga    *)
(* that any process may run while it holds the session's completion lease and  *)
(* that is resumed from the last checkpoint in the record: finalise the        *)
(* object, publish the mapping, complete, clean up what it replaced.           *)
(* All sessions here upload to the same path.  Every record update by          *)
(* updateUploadIf is one step: it retries until its compare-and-write works.   *)
EXTENDS Integers

CONSTANTS
  Id,         \* upload sessions; each has an object key of its own
  Process,    \* request handlers and recovery loops
  Serves,     \* Serves[p]: the requests <<operation, id>> p may get
  Size,       \* declared size of every upload, in chunks
  None, Old,  \* no object or process; the object at the path before any upload
  Gone,       \* a completion owner that has stopped: owners are fresh uuids
  Drivers,    \* storage drivers, one of which is in use
  Faults,     \* "lost_reply", "stall", "vacate", "oversize": see the actions
  MaxTrouble  \* bound on crashes and errors in one behaviour

Operations == {"write", "complete", "cancel", "status", "recover"}

ASSUME UploadAssumption ==
  /\ Size \in Nat \ {0} /\ MaxTrouble \in Nat
  /\ Drivers \subseteq {"local", "gcs"}
  /\ Faults \subseteq {"lost_reply", "stall", "vacate", "oversize"}
  /\ {None, Old, Gone} \cap (Id \cup Process) = {}
  /\ None # Old /\ None # Gone /\ Old # Gone
  /\ \A p \in Process : Serves[p] \subseteq Operations \X Id

VARIABLES
  rec,     \* rec[u]: the stored session
  off,     \* off[u]: bytes in staging or in the resumable session, -1 without one
  obj,     \* stored objects, by the upload that made them
  at,      \* the object the path maps to
  trash,   \* objects referenced from the trash
  shown,   \* history: uploads that have been published
  old,     \* sessions past ExpiresAt
  driver,  \* the storage driver
  task,    \* task[p]: the request p works on
  sess,    \* sess[p]: what p will write back to the session, and whether the
           \* revision it read is still the current one
  pc,      \* pc[p]: position of p
  trouble  \* crashes and errors left

stored == <<off, obj, at, trash, shown>>
vars == <<rec, stored, old, driver, task, sess, pc, trouble>>

NoTask == <<"none", None>>
Blank == [status |-> "none", completion |-> "none", owner |-> None, live |-> FALSE,
          uploaded |-> 0, expect |-> None, cleanup |-> "none"]
NoCopy == [status |-> "none", uploaded |-> 0, current |-> FALSE]

CanReconcile(s) == s.status \in {"pending", "uploading"}
CanExpire(s) == s.status \in {"pending", "uploading"}
InTransition(s) == s.status \in {"complete", "conflict", "cancelling", "cancelled",
                                 "expired", "finalizing"}

(* IsObjectReferenced, without the path itself when it is excluded.            *)
Referenced(o, excluded) == o \in trash \/ (at = o /\ ~excluded)

Init ==
  /\ rec = [u \in Id |-> Blank]
  /\ off = [u \in Id |-> -1]
  /\ obj = {Old} /\ at \in {None, Old} /\ trash = {} /\ shown = {} /\ old = {}
  /\ driver \in Drivers
  /\ task = [p \in Process |-> NoTask]
  /\ sess = [p \in Process |-> NoCopy]
  /\ pc = [p \in Process |-> "idle"]
  /\ trouble = MaxTrouble

-----------------------------------------------------------------------------
(* Steps of a process.                                                         *)

Job(p) == task[p][2]
At(p, place) == pc[p] = place
Same == UNCHANGED <<old, driver, trouble>>

Move(p, place) ==
  /\ pc' = [pc EXCEPT ![p] = place]
  /\ task' = IF place = "idle" THEN [task EXCEPT ![p] = NoTask] ELSE task
  /\ Same

Keep(p, copy, place) ==
  /\ sess' = [sess EXCEPT ![p] = copy]
  /\ Move(p, place)
  /\ UNCHANGED rec

Step(p, place) == Keep(p, NoCopy, place)

(* Process p stores r, which draws a new revision: what other processes have   *)
(* read is no longer current.                                                  *)
Save(p, r, copy, place) ==
  /\ rec' = [rec EXCEPT ![Job(p)] = r]
  /\ sess' = [q \in Process |-> IF q = p THEN copy
                                ELSE IF Job(q) = Job(p) THEN [sess[q] EXCEPT !.current = FALSE]
                                ELSE sess[q]]
  /\ Move(p, place)

(* updateUploadIf: when the condition holds the record is replaced, and the    *)
(* process goes to one place, otherwise to another.                            *)
UpdateIf(p, cond, r, yes, no) ==
  /\ IF cond THEN Save(p, r, NoCopy, yes) ELSE Step(p, no)
  /\ UNCHANGED stored

(* Create: the target's snapshot is taken before the session is stored.        *)
Create(u) ==
  /\ rec[u].status = "none"
  /\ rec' = [rec EXCEPT ![u] = [Blank EXCEPT !.status = "pending", !.expect = at]]
  /\ off' = [off EXCEPT ![u] = IF driver = "gcs" THEN 0 ELSE -1]
  /\ UNCHANGED <<obj, at, trash, shown, task, sess, pc>> /\ Same

(* Fault: sessions in state "finalizing" are left to whoever claimed them.     *)
CompletionDueUploaded(r) ==
  r.status = "uploaded" /\ r.completion \in {"pending", "object_ready", "published"}

(* ListDueUploadRecoveries.                                                    *)
CompletionDue(r) == /\ r.status \in {"uploaded", "finalizing"} /\ ~r.live
                    /\ r.completion \in {"pending", "object_ready", "published"}
CleanupDue(r) == r.status = "complete" /\ r.cleanup = "pending"

(* Where a request goes once it has the session r.                             *)
First(op, r) ==
  CASE op = "write" /\ CanReconcile(r) /\ r.uploaded < Size -> "beginning"
    [] op = "cancel" /\ r.status \notin {"complete", "cancelled", "conflict"} -> "cancelling"
    [] /\ op \in {"complete", "recover"}
       /\ r.status \in {"uploaded", "finalizing"} /\ r.uploaded = Size -> "asking"
    [] op \in {"complete", "recover"} /\ r.status = "complete" -> "cleaning"
    [] OTHER -> "idle"

Bytes(u) == IF off[u] < 0 THEN 0 ELSE off[u]

(* What is kept of a session that may be written back at the same revision.    *)
Copy(place, r) ==
  IF place \in {"reconciling", "expiring", "beginning"}
    THEN [status |-> r.status, uploaded |-> r.uploaded, current |-> TRUE] ELSE NoCopy

WriteBack(p) == [rec[Job(p)] EXCEPT !.status = sess[p].status, !.uploaded = sess[p].uploaded]

(* Find: the session is read and, while bytes may still come, compared with    *)
(* what the storage has.  The two are read in one step: whatever is stored     *)
(* afterwards is conditional on the record of that moment.                     *)
Look(p, t) ==
  LET u == t[2] r == rec[u]
      lost == driver = "gcs" /\ off[u] < 0 /\ CanReconcile(r)
      s == IF ~CanReconcile(r) \/ lost THEN r
           ELSE [r EXCEPT !.uploaded = Bytes(u),
                          !.status = IF Bytes(u) = Size THEN "uploaded"
                                     ELSE IF Bytes(u) > 0 THEN "uploading" ELSE @]
      place == IF t[1] = "recover" /\ CleanupDue(r) THEN "cleaning"
               ELSE IF s # r THEN "reconciling"
               ELSE IF CanExpire(r) /\ u \in old THEN "expiring"
               ELSE IF lost THEN "idle" ELSE First(t[1], s) IN
  /\ At(p, "idle") /\ t \in Serves[p] /\ r.status # "none" /\ place # "idle"
  /\ t[1] = "recover" => CompletionDue(r) \/ CleanupDue(r)
  /\ task' = [task EXCEPT ![p] = t]
  /\ sess' = [sess EXCEPT ![p] = Copy(place, s)]
  /\ pc' = [pc EXCEPT ![p] = place]
  /\ UNCHANGED <<rec, stored>> /\ Same

(* UpdateUploadConditional: only at the revision that was read.                *)
Unchanged(p) == /\ sess[p].current /\ rec[Job(p)].completion = "none"
                /\ ~InTransition(rec[Job(p)])

Reconcile(p) ==
  LET op == task[p][1]
      written == WriteBack(p)
      next == IF CanExpire(written) /\ Job(p) \in old THEN "expiring" ELSE First(op, written)
      again == First(op, rec[Job(p)]) IN
  /\ At(p, "reconciling")
  /\ IF Unchanged(p) THEN Save(p, written, Copy(next, written), next)
                     ELSE Keep(p, Copy(again, rec[Job(p)]), again)
  /\ UNCHANGED stored

(* ExpireUpload.                                                               *)
Expire(p) ==
  LET r == rec[Job(p)] op == task[p][1]
      expired == [r EXCEPT !.status = "expired"] IN
  /\ At(p, "expiring")
  /\ IF /\ sess[p].current /\ r.completion = "none"
        /\ r.status \in {"pending", "uploading", "uploaded"}
       THEN Save(p, expired, NoCopy, First(op, expired))
       ELSE Keep(p, Copy(First(op, r), r), First(op, r))
  /\ UNCHANGED stored

-----------------------------------------------------------------------------
(* WriteChunk: one chunk at the offset the session has, through the server.    *)
(* With gcs the record is touched before the storage refuses.                  *)

BeginChunk(p) ==
  LET r == [WriteBack(p) EXCEPT !.status = "uploading"] IN
  /\ At(p, "beginning")
  /\ IF Unchanged(p) THEN Save(p, r, Copy("beginning", r), "chunk") ELSE Step(p, "idle")
  /\ UNCHANGED stored

(* The staging file is locked while a chunk is written, must end where the     *)
(* chunk starts, and may get less than the chunk.  It is created if missing.   *)
StoreChunk(p) ==
  LET u == Job(p) from == sess[p].uploaded
      Committed(size, place) ==
        /\ off' = IF driver = "local" THEN [off EXCEPT ![u] = size] ELSE off
        /\ sess' = [sess EXCEPT ![p].uploaded = IF place = "oversize" THEN from ELSE size,
                                ![p].status = IF place = "chunked" /\ size > from /\ size = Size
                                                THEN "uploaded" ELSE @]
        /\ pc' = [pc EXCEPT ![p] = place] IN
  /\ At(p, "chunk")
  /\ IF driver = "gcs" THEN Committed(0, "short")
     ELSE IF Bytes(u) # from THEN Committed(Bytes(u), "short")
     ELSE \/ Committed(from, "short") \/ Committed(from + 1, "chunked")
          \/ "oversize" \in Faults /\ Committed(from + 1, "oversize")
  /\ UNCHANGED <<rec, obj, at, trash, shown, task>> /\ Same

(* A body that is longer than its range is cut off again.                      *)
RollbackChunk(p) ==
  LET u == Job(p) from == sess[p].uploaded IN
  /\ At(p, "oversize")
  /\ off' = IF off[u] >= from THEN [off EXCEPT ![u] = from] ELSE off
  /\ sess' = [sess EXCEPT ![p].uploaded = IF off[u] >= from THEN from ELSE from + 1]
  /\ pc' = [pc EXCEPT ![p] = "chunked"]
  /\ UNCHANGED <<rec, obj, at, trash, shown, task>> /\ Same

EndChunk(p) ==
  /\ pc[p] \in {"chunked", "short"}
  /\ UpdateIf(p, Unchanged(p), WriteBack(p), "idle", "idle")

-----------------------------------------------------------------------------
(* Complete and runCompletion.                                                 *)

RequestCompletion(p) ==
  LET r == rec[Job(p)] IN
  /\ At(p, "asking")
  /\ UpdateIf(p, r.status = "uploaded" /\ r.completion = "none",
              [r EXCEPT !.completion = "pending"], "claiming",
              IF r.status \in {"complete", "conflict", "cancelled"} THEN "idle" ELSE "claiming")

Checkpoint(completion) == CASE completion = "pending" -> "finalizing"
                            [] completion = "object_ready" -> "publishing"
                            [] completion = "published" -> "published"
                            [] OTHER -> "idle"

ClaimCompletion(p) ==
  LET r == rec[Job(p)] IN
  /\ At(p, "claiming")
  /\ UpdateIf(p, CompletionDue(r), [r EXCEPT !.status = "finalizing", !.owner = p, !.live = TRUE],
              Checkpoint(r.completion), "idle")

(* Finalize: a local staging file becomes the object, by a rename that must    *)
(* not find one; a direct upload has made the object already.                  *)
Finalize(p) ==
  LET u == Job(p)
      staged == driver = "local" /\ off[u] >= 0
      renames == staged /\ off[u] = Size /\ u \notin obj
      ready == renames \/ (~staged /\ u \in obj) IN
  /\ At(p, "finalizing")
  /\ obj' = IF renames THEN obj \cup {u} ELSE obj
  /\ off' = IF renames THEN [off EXCEPT ![u] = -1] ELSE off
  /\ Step(p, IF ready THEN "finalized" ELSE "retrying")
  /\ UNCHANGED <<at, trash, shown>>

OwnedAt(p, checkpoints) ==
  LET r == rec[Job(p)]
  IN r.status = "finalizing" /\ r.owner = p /\ r.completion \in checkpoints

MarkObjectReady(p) ==
  /\ At(p, "finalized")
  /\ UpdateIf(p, OwnedAt(p, {"pending", "object_ready"}),
              [rec[Job(p)] EXCEPT !.completion = "object_ready"], "publishing", "idle")

(* Fault: the snapshot is not compared.                                        *)
PublishAnyway(p) ==
  /\ At(p, "publishing")
  /\ at' = Job(p) /\ shown' = shown \cup {Job(p)}
  /\ Step(p, "visible")
  /\ UNCHANGED <<off, obj, trash>>

(* PublishUploaded: one namespace transaction, conditional on the snapshot.    *)
(* Its error may come after it took effect ("lost_reply").                     *)
Publish(p) ==
  LET matched == at = rec[Job(p)].expect IN
  /\ At(p, "publishing")
  /\ at' = IF matched THEN Job(p) ELSE at
  /\ shown' = IF matched THEN shown \cup {Job(p)} ELSE shown
  /\ \/ Step(p, IF matched THEN "visible" ELSE "mismatch")
     \/ matched /\ "lost_reply" \in Faults /\ Step(p, "retrying")
  /\ UNCHANGED <<off, obj, trash>>

(* Fault: a mismatch is a conflict, whatever the path shows.                   *)
RecheckNothing(p) ==
  /\ At(p, "mismatch")
  /\ Step(p, "contested")
  /\ UNCHANGED stored

(* After a mismatch: an earlier run may have published this very object.       *)
Recheck(p) ==
  /\ At(p, "mismatch")
  /\ Step(p, IF at = Job(p) THEN "visible" ELSE "contested")
  /\ UNCHANGED stored

(* Fault: the generation is discarded whatever refers to it.                   *)
CheckNoReferences(p) ==
  /\ At(p, "contested")
  /\ Step(p, "discarding")
  /\ UNCHANGED stored

(* A generation that lost is deleted unless something refers to it.            *)
CheckReferences(p) ==
  /\ At(p, "contested")
  /\ Step(p, IF Referenced(Job(p), FALSE) THEN "refusing" ELSE "discarding")
  /\ UNCHANGED stored

Discard(p) ==
  /\ At(p, "discarding")
  /\ obj' = obj \ {Job(p)}
  /\ \/ Step(p, "refusing")
     \/ "lost_reply" \in Faults /\ Step(p, "retrying")
  /\ UNCHANGED <<off, at, trash, shown>>

(* Fault: only the lease is given up.                                          *)
ReleasedLease(r) == [r EXCEPT !.live = FALSE]

Released(r) == [r EXCEPT !.owner = None, !.live = FALSE]

MarkConflict(p) ==
  /\ At(p, "refusing")
  /\ UpdateIf(p, OwnedAt(p, {"pending", "object_ready", "published"}),
              [Released(rec[Job(p)]) EXCEPT !.status = "conflict", !.completion = "conflict"],
              "idle", "idle")

MarkPublished(p) ==
  /\ At(p, "visible")
  /\ UpdateIf(p, OwnedAt(p, {"object_ready", "published"}),
              [rec[Job(p)] EXCEPT !.completion = "published", !.cleanup = "pending"],
              "published", "idle")

MarkComplete(p) ==
  /\ At(p, "published")
  /\ UpdateIf(p, OwnedAt(p, {"published"}),
              [Released(rec[Job(p)]) EXCEPT !.status = "complete", !.completion = "complete"],
              "cleaning", "idle")

(* retryCompletion: the saga goes back to its start and its lease is free.     *)
Retry(p) ==
  LET r == rec[Job(p)] IN
  /\ At(p, "retrying")
  /\ UpdateIf(p, r.status = "finalizing" /\ r.owner = p,
              [Released(r) EXCEPT !.status = "uploaded", !.completion = "pending"], "idle", "idle")

-----------------------------------------------------------------------------
(* RetryCleanup: the replaced object goes once the publication is still there  *)
(* and nothing else refers to the old one.                                     *)
InspectCleanup(p) ==
  LET r == rec[Job(p)]
      due == CleanupDue(r) /\ at = Job(p)
      nothing == r.expect = None IN
  /\ At(p, "cleaning")
  /\ Step(p, IF due /\ nothing THEN "cleaned"
             ELSE IF due /\ ~Referenced(r.expect, TRUE) THEN "unlinking" ELSE "idle")
  /\ UNCHANGED stored

Unlink(p) ==
  /\ At(p, "unlinking")
  /\ obj' = obj \ {rec[Job(p)].expect}
  /\ Step(p, "cleaned")
  /\ UNCHANGED <<off, at, trash, shown>>

MarkCleaned(p) ==
  /\ At(p, "cleaned")
  /\ UpdateIf(p, CleanupDue(rec[Job(p)]), [rec[Job(p)] EXCEPT !.cleanup = "complete"],
              "idle", "idle")

-----------------------------------------------------------------------------
(* Fault: a completion under way can be cancelled.                             *)
MayCancelAny(r) == r.status \in {"pending", "uploading", "uploaded", "expired", "finalizing"}

(* Cancel: refused while the completion has an owner.                          *)
MayCancel(r) == /\ r.status \in {"pending", "uploading", "uploaded", "expired"}
                /\ r.completion \in {"none", "pending"} /\ r.owner = None

RequestCancel(p) ==
  LET r == rec[Job(p)] IN
  /\ At(p, "cancelling")
  /\ UpdateIf(p, MayCancel(r),
              [r EXCEPT !.status = "cancelling", !.completion = "cancel_requested"],
              "withdrawing", IF r.status = "cancelling" THEN "withdrawing" ELSE "idle")

(* Fault: the object of a complete upload stays.                               *)
WithdrawBytes(p) ==
  /\ At(p, "withdrawing")
  /\ off' = [off EXCEPT ![Job(p)] = -1]
  /\ Step(p, "withdrawn")
  /\ UNCHANGED <<obj, at, trash, shown>>

(* The staging file or the resumable session goes, then the object that a      *)
(* complete upload may have become.                                            *)
Withdraw(p) ==
  /\ At(p, "withdrawing")
  /\ off' = [off EXCEPT ![Job(p)] = -1]
  /\ Step(p, IF rec[Job(p)].uploaded = Size THEN "erasing" ELSE "withdrawn")
  /\ UNCHANGED <<obj, at, trash, shown>>

EraseUpload(p) ==
  /\ At(p, "erasing")
  /\ obj' = obj \ {Job(p)}
  /\ Step(p, "withdrawn")
  /\ UNCHANGED <<off, at, trash, shown>>

MarkCancelled(p) ==
  LET r == rec[Job(p)] IN
  /\ At(p, "withdrawn")
  /\ UpdateIf(p, r.status = "cancelling",
              [r EXCEPT !.status = "cancelled", !.completion = "cancelled"], "idle", "idle")

-----------------------------------------------------------------------------
(* What else happens.                                                          *)

Quiet == UNCHANGED <<rec, task, sess, pc, old, driver, trouble>>

(* A process stops, or a record update fails, and the request is over.  The    *)
(* record keeps an owner that nobody is any more.                              *)
Crash(p) ==
  /\ pc[p] # "idle" /\ trouble > 0
  /\ trouble' = trouble - 1
  /\ rec' = [rec EXCEPT ![Job(p)].owner = IF @ = p THEN Gone ELSE @]
  /\ pc' = [pc EXCEPT ![p] = "idle"]
  /\ task' = [task EXCEPT ![p] = NoTask]
  /\ sess' = [sess EXCEPT ![p] = NoCopy]
  /\ UNCHANGED <<stored, old, driver>>

(* A storage or namespace call fails before it takes effect.  Without          *)
(* "lost_reply" the completion of an upload has no effect that its record does *)
(* not show: the retry it falls back to would not know of it either.           *)
Error(p) ==
  LET u == Job(p)
      known == u \notin shown /\ (rec[u].completion = "pending" \/ u \in obj) IN
  /\ pc[p] \in {"finalizing", "publishing", "contested", "discarding"} /\ trouble > 0
  /\ known \/ "lost_reply" \in Faults
  /\ trouble' = trouble - 1
  /\ pc' = [pc EXCEPT ![p] = "retrying"]
  /\ UNCHANGED <<rec, stored, old, driver, task, sess>>

(* The browser writes straight to the resumable session.                       *)
DirectWrite(u) ==
  /\ driver = "gcs" /\ off[u] \in 0..Size - 1
  /\ off' = [off EXCEPT ![u] = @ + 1]
  /\ obj' = IF off[u] + 1 = Size THEN obj \cup {u} ELSE obj
  /\ UNCHANGED <<at, trash, shown>> /\ Quiet

(* The session is past ExpiresAt; an unfinished resumable session may be gone. *)
Age(u) ==
  /\ u \notin old /\ CanExpire(rec[u])
  /\ old' = old \cup {u}
  /\ \/ off' = off
     \/ driver = "gcs" /\ off[u] < Size /\ off' = [off EXCEPT ![u] = -1]
  /\ UNCHANGED <<rec, obj, at, trash, shown, task, sess, pc, driver, trouble>>

(* Without "stall" only the lease of an owner that has stopped runs out.       *)
LeaseExpires(u) ==
  /\ rec[u].live /\ ("stall" \in Faults \/ rec[u].owner = Gone)
  /\ rec' = [rec EXCEPT ![u].live = FALSE]
  /\ UNCHANGED <<stored, old, driver, task, sess, pc, trouble>>

(* The file at the path is put into the trash.  Without "vacate" nobody does   *)
(* so while a completion is under way that waits for a path without a file.    *)
Vacate ==
  /\ at # None
  /\ "vacate" \in Faults \/ \A u \in Id : rec[u].status = "finalizing" => rec[u].expect # None
  /\ at' = None
  /\ trash' = trash \cup {at}
  /\ UNCHANGED <<off, obj, shown>> /\ Quiet

-----------------------------------------------------------------------------
Continue(p) ==
  \/ Reconcile(p) \/ Expire(p) \/ BeginChunk(p) \/ StoreChunk(p)
  \/ RollbackChunk(p) \/ EndChunk(p) \/ RequestCompletion(p) \/ ClaimCompletion(p)
  \/ Finalize(p) \/ MarkObjectReady(p) \/ Publish(p) \/ Recheck(p)
  \/ CheckReferences(p) \/ Discard(p) \/ MarkConflict(p) \/ MarkPublished(p)
  \/ MarkComplete(p) \/ Retry(p) \/ InspectCleanup(p) \/ Unlink(p) \/ MarkCleaned(p)
  \/ RequestCancel(p) \/ Withdraw(p) \/ EraseUpload(p) \/ MarkCancelled(p)

Next ==
  \/ \E p \in Process : Continue(p) \/ Crash(p) \/ Error(p)
                        \/ \E t \in Serves[p] : Look(p, t)
  \/ \E u \in Id : Create(u) \/ DirectWrite(u) \/ Age(u) \/ LeaseExpires(u)
  \/ Vacate

Spec == Init /\ [][Next]_vars

(* Requests go on, a dead owner's lease runs out, and every scan of the        *)
(* recovery loop takes up the sessions that are due, the oldest first.         *)
FairSpec ==
  /\ Spec
  /\ \A p \in Process : WF_vars(Continue(p))
  /\ \A u \in Id : WF_vars(LeaseExpires(u))
  /\ \A u \in Id : SF_vars(\E p \in Process : <<"recover", u>> \in Serves[p]
                                              /\ Look(p, <<"recover", u>>))

-----------------------------------------------------------------------------
(* Properties.                                                                 *)

Places == {"idle", "reconciling", "expiring", "beginning", "chunk", "oversize", "chunked", "short",
           "asking", "claiming", "finalizing", "finalized", "publishing", "mismatch",
           "contested", "discarding", "refusing", "visible", "published", "retrying",
           "cleaning", "unlinking", "cleaned", "cancelling", "withdrawing", "erasing", "withdrawn"}
Stages == {"none", "pending", "object_ready", "published", "complete", "conflict",
           "cancel_requested", "cancelled"}

(* Every variable has its type, and the two columns of a record that tell how  *)
(* far a completion is (Status and CompletionStatus) agree.                    *)
TypeOK ==
  /\ rec \in [Id -> [status : {"none", "pending", "uploading", "uploaded", "finalizing",
                               "complete", "conflict", "cancelling", "cancelled", "expired"},
                     completion : Stages, owner : Process \cup {None, Gone}, live : BOOLEAN,
                     uploaded : 0..Size, expect : Id \cup {None, Old},
                     cleanup : {"none", "pending", "complete"}]]
  /\ \A u \in Id : LET r == rec[u] IN
       /\ r.completion \in {"object_ready", "published"} => r.status = "finalizing"
       /\ r.completion \in {"complete", "conflict", "cancelled"} => r.status = r.completion
       /\ r.status = "finalizing" <=> r.owner # None
       /\ r.status \in {"uploaded", "finalizing"} => r.uploaded = Size
  /\ off \in [Id -> -1..Size] /\ obj \subseteq Id \cup {Old} /\ at \in Id \cup {None, Old}
  /\ trash \subseteq Id \cup {Old} /\ shown \subseteq Id /\ old \subseteq Id
  /\ driver \in Drivers /\ trouble \in 0..MaxTrouble
  /\ pc \in [Process -> Places] /\ task \in [Process -> {NoTask} \cup (Operations \X Id)]
  /\ sess \in [Process -> [status : {"none", "pending", "uploading", "uploaded"},
                          uploaded : 0..Size, current : BOOLEAN]]

Visible(o) == at = o \/ o \in trash

(* A file that can be seen, or restored from the trash, has its object: no     *)
(* discarded generation, cancelled upload or cleanup removes it.               *)
VisibleStored == {at} \cup trash \subseteq obj \cup {None}

(* What Cancel relies on when it deletes the object: an upload that is being   *)
(* cancelled is not published, and never is afterwards.                        *)
CancelledHidden ==
  \A u \in Id : rec[u].status \in {"cancelling", "cancelled"} => ~Visible(u)

(* A refused upload leaves no object behind that nothing refers to, nor does a *)
(* cancelled or expired one that went through the server.                      *)
LosersLeaveNothing ==
  \A u \in Id :
    (rec[u].status = "conflict" \/ (rec[u].status \in {"cancelled", "expired"} /\ driver = "local"))
       => (u \in obj => u \in trash)

(* What the client is told is so: a complete upload has been visible, and a    *)
(* refused one is not what the path shows.                                     *)
OutcomeTrue ==
  \A u \in Id : /\ rec[u].status = "complete" => u \in shown
                /\ rec[u].status = "conflict" => at # u

(* However often its completion is run again, an upload is published once.     *)
PublishedOnce ==
  [][\A u \in Id : at' = u /\ at # u => u \notin shown]_vars

Asked(u) == rec[u].completion \in {"pending", "object_ready", "published"}
Settled(u) == rec[u].status \in {"complete", "conflict", "cancelling", "cancelled"}

(* A chunk that came late has made a new staging file beside the object, or a  *)
(* rollback has cut what another request had added.                            *)
Spoilt(u) == /\ driver = "local" /\ rec[u].completion = "pending"
             /\ IF u \in obj THEN off[u] >= 0 ELSE off[u] # Size

(* A completion that was asked for ends, whoever stopped on the way, unless a  *)
(* late chunk has spoilt the staging file.                                     *)
CompletionSettles == \A u \in Id : Asked(u) ~> Settled(u) \/ Spoilt(u)

(* The same without that exception: a completion can be run again safely       *)
(* whatever else the clients have sent.                                        *)
RetrySafe == \A u \in Id : Asked(u) ~> Settled(u)

=============================================================================
