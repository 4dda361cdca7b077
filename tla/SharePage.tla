------------------------------ MODULE SharePage ------------------------------
(* The share page of the web application (apps/web/app/features/share) and the *)
(* share record it follows: one browser tab opens the page of one share, polls *)
(* it, refreshes it and confirms the upload, while the workers of the server   *)
(* claim, upload and notify (internal/share, internal/db/tree_entities.go).    *)
(*                                                                             *)
(* A request of the page lives in a slot from the moment it is sent until its  *)
(* promise settles.  The coordinator compares generations only with the newest *)
(* one, so a request carries the flag `latest` instead of a number.  Cancelled *)
(* requests settle in a step of their own.                                     *)
EXTENDS Naturals, FiniteSets

CONSTANTS Slot,        \* requests of the page that may be unsettled at once
          Worker,      \* processes that take share jobs
          None,        \* no slot, no worker
          MaxTrouble   \* bound: lost, failed and slow requests, failed and stopped jobs

ASSUME ShareAssumption == None \notin Slot \cup Worker /\ MaxTrouble \in Nat

VARIABLES
  rec,        \* the share record: status, whether CompletedAt is set, ProcessingBy,
              \* DispatchStatus, and a version that counts what a reader can tell apart
  job,        \* job[w]: what worker w is doing
  stray,      \* a start request the page gave up is still on its way
  trouble,    \* how often something went wrong
  page,       \* the controller: "new", "open" or "left"
  req,        \* req[s]: the request in slot s
  active,     \* the slot of the coordinator's active request
  terminal,   \* the coordinator's latch: polls are skipped
  shown, loading, starting   \* what the page shows

serverVars == <<rec, job, stray>>
viewVars == <<shown, loading, starting>>
vars == <<rec, job, stray, trouble, page, req, active, terminal, viewVars>>

(* domain/share.ts *)
Status == {"draft", "uploading", "completed", "notified", "notification_failed",
           "failed"}
IsTerminalBusy(status) == status # "draft"
IsTerminal(status) == status \in Status \ {"draft", "uploading"}
CanStart(status) == status \in {"draft", "failed", "notification_failed"}

(* A record as the gateway hands it to the page, no record, a failed request.  *)
Record == [status |-> rec.status, version |-> rec.version]
Nothing == [status |-> "none", version |-> 0]
Failure == [status |-> "error", version |-> 0]
Replied(r) == r.reply # Nothing
Succeeded(r) == Replied(r) /\ r.reply # Failure

Begun(kind, latest) ==
  [kind |-> kind, reply |-> Nothing, lost |-> FALSE, cancelled |-> FALSE,
   late |-> FALSE, latest |-> latest, orphan |-> FALSE]
Free == Begun("free", FALSE)
Unsettled(s) == req[s].kind # "free"

Init ==
  /\ rec = [status |-> "draft", completed |-> FALSE, by |-> None,
            dispatch |-> "none", version |-> 1]
  /\ job = [w \in Worker |-> "idle"]
  /\ stray = FALSE /\ trouble = 0
  /\ page = "new"
  /\ req = [s \in Slot |-> Free]
  /\ active = None /\ terminal = FALSE
  /\ shown = Nothing /\ loading = TRUE /\ starting = FALSE

Trouble == trouble < MaxTrouble /\ trouble' = trouble + 1
Fine == trouble' = trouble

-----------------------------------------------------------------------------
(* The coordinator *)

(* cancel() of a cancellation source: only the active request can be one the   *)
(* page still waits for.                                                       *)
Cancelled(r) == IF r.kind = "free" THEN r ELSE [r EXCEPT !.cancelled = TRUE]
Outdated(r) == [r EXCEPT !.latest = FALSE]

SupersededNot(s) == req[s]
(* Every request but the new one, after run() has begun it.                    *)
Superseded(s) == IF s = active THEN Outdated(Cancelled(req[s])) ELSE Outdated(req[s])

Run(kind) ==
  \E s \in Slot :
    /\ ~Unsettled(s)
    /\ req' = [q \in Slot |->
                 IF q = s THEN Begun(kind, TRUE) ELSE Superseded(q)]
    /\ active' = s

(* Polling is skipped after a terminal status and joins a request under way.   *)
PollDue == page = "open" /\ ~terminal /\ active = None
Poll == /\ PollDue
        /\ Run("load")
        /\ Fine
        /\ UNCHANGED <<serverVars, page, terminal, viewVars>>

(* The Refresh button is off only until the first answer.                      *)
MayRefresh == page = "open" /\ ~loading
Refresh == /\ MayRefresh
           /\ Run("load")
           /\ Fine
           /\ UNCHANGED <<serverVars, page, terminal, viewVars>>

(* What the page makes of a status: shareViewState.                            *)
Busy == shown.status = "uploading" \/ starting
MayConfirm == page = "open" /\ CanStart(shown.status) /\ ~Busy

(* Confirm upload: startShare of the controller, start of the coordinator.     *)
StartShare == /\ MayConfirm
              /\ starting' = TRUE
              /\ terminal' = FALSE
              /\ Run("start")
              /\ Fine
              /\ UNCHANGED <<serverVars, page, shown, loading>>

ExpireNever(s) == FALSE
(* The deadline cancels the request; a lost one can end in no other way.       *)
Expire(s) == /\ Unsettled(s) /\ ~req[s].cancelled
             /\ req[s].lost \/ trouble < MaxTrouble
             /\ trouble' = IF req[s].lost THEN trouble ELSE trouble + 1
             /\ req' = [req EXCEPT ![s].late = TRUE, ![s].cancelled = TRUE]
             /\ UNCHANGED <<serverVars, page, active, terminal, viewVars>>

(* What an answer does to the page: onSuccess, onError or nothing.             *)
Applies(r) == r.latest /\ ~r.orphan /\ ~r.cancelled /\ Succeeded(r)
Reports(r) == r.latest /\ ~r.orphan /\ (r.late \/ (~r.cancelled /\ r.reply = Failure))

Settle(s) ==
  LET r == req[s] IN
  /\ Unsettled(s) /\ (Replied(r) \/ r.cancelled)
  /\ shown' = IF Applies(r) THEN r.reply ELSE shown
  /\ terminal' = IF Applies(r) THEN IsTerminal(r.reply.status) ELSE terminal
  /\ loading' = (loading /\ ~Applies(r) /\ ~Reports(r))
  /\ starting' = (starting /\ (r.kind # "start" \/ r.orphan))
  /\ active' = IF active = s THEN None ELSE active
  /\ stray' = (stray \/ (r.kind = "start" /\ ~Replied(r) /\ ~r.lost))
  /\ req' = [req EXCEPT ![s] = Free]
  /\ Fine
  /\ UNCHANGED <<rec, job, page>>

-----------------------------------------------------------------------------
(* The controller's life: the page is mounted, left and opened again.          *)

Open == /\ page # "open"
        /\ page' = "open"
        /\ shown' = Nothing /\ loading' = TRUE /\ starting' = FALSE
        /\ terminal' = FALSE
        /\ Run("load")
        /\ Fine
        /\ UNCHANGED serverVars

(* dispose: nothing that settles later reaches the page.                       *)
Leave == /\ page = "open"
         /\ page' = "left"
         /\ req' = [s \in Slot |-> IF Unsettled(s)
                      THEN [Outdated(req[s]) EXCEPT !.cancelled = TRUE, !.orphan = TRUE]
                      ELSE Free]
         /\ active' = None
         /\ Fine
         /\ UNCHANGED <<serverVars, terminal, viewVars>>

-----------------------------------------------------------------------------
(* The network and the API *)

(* RequestShareJob: it asks for a dispatch and leaves the status alone.        *)
Requested == IF rec.status # "notified" /\ rec.by = None
             THEN [rec EXCEPT !.dispatch = "pending"] ELSE rec

Handle(s) == /\ Unsettled(s) /\ ~Replied(req[s]) /\ ~req[s].lost
             /\ rec' = IF req[s].kind = "start" THEN Requested ELSE rec
             /\ req' = [req EXCEPT ![s].reply = Record]
             /\ Fine
             /\ UNCHANGED <<job, stray, page, active, terminal, viewVars>>

HandleStray == /\ stray
               /\ stray' = FALSE
               /\ rec' = Requested
               /\ Fine
               /\ UNCHANGED <<job, page, req, active, terminal, viewVars>>

(* A dispatch that fails at once makes Start read the record again.            *)
Reload(s) == /\ req[s].kind = "start" /\ Succeeded(req[s])
             /\ req' = [req EXCEPT ![s].reply = Record]
             /\ Fine
             /\ UNCHANGED <<serverVars, page, active, terminal, viewVars>>

(* A request or its answer is lost, or answered with an error.                 *)
Lose(s) == /\ Unsettled(s) /\ ~req[s].lost /\ req[s].reply # Failure
           /\ \E lost \in BOOLEAN :
                req' = [req EXCEPT ![s].lost = lost,
                                   ![s].reply = IF lost THEN Nothing ELSE Failure]
           /\ Trouble
           /\ UNCHANGED <<serverVars, page, active, terminal, viewVars>>

-----------------------------------------------------------------------------
(* The worker of the server *)

Changed(r) == IF r.status # rec.status THEN [r EXCEPT !.version = rec.version + 1] ELSE r
Goto(w, pc) == job' = [job EXCEPT ![w] = pc]
WorkerStep == UNCHANGED <<stray, page, req, active, terminal, viewVars>>

(* A job is delivered at least once; ClaimShareJob refuses it while another    *)
(* worker holds the lease and when the share was notified.                     *)
MayClaim == rec.status # "notified" /\ rec.by = None
ClaimedAnew(w) == [rec EXCEPT !.by = w, !.status = "uploading"]
Claimed(w) == IF rec.completed THEN [rec EXCEPT !.by = w]
              ELSE [rec EXCEPT !.by = w, !.status = "uploading"]

Deliver(w) == /\ job[w] = "idle" /\ rec.dispatch # "none"
              /\ MayClaim
              /\ rec' = Changed(Claimed(w))
              /\ Goto(w, IF rec.completed THEN "notify" ELSE "upload")
              /\ Fine /\ WorkerStep

(* MarkShareUploadedBy, MarkShareNotifiedBy, MarkShareFailedBy: the owner only. *)
Uploaded(w) == /\ job[w] = "upload"
               /\ IF rec.by = w /\ rec.status = "uploading"
                  THEN /\ rec' = Changed([rec EXCEPT !.status = "completed", !.completed = TRUE])
                       /\ Goto(w, "notify")
                  ELSE UNCHANGED rec /\ Goto(w, "release")
               /\ Fine /\ WorkerStep

Notified(w) == /\ job[w] = "notify"
               /\ rec' = IF rec.by = w /\ rec.completed /\ rec.status # "notified"
                         THEN Changed([rec EXCEPT !.status = "notified"]) ELSE rec
               /\ Goto(w, "release")
               /\ Fine /\ WorkerStep

(* A permanent error also stops the redelivery.                                *)
JobFails(w) ==
  /\ job[w] \in {"upload", "notify"}
  /\ \E dispatch \in {rec.dispatch, "paused"} :
       rec' = IF rec.by = w /\ rec.status # "notified"
              THEN Changed([rec EXCEPT !.dispatch = dispatch,
                     !.status = IF job[w] = "upload" THEN "failed" ELSE "notification_failed"])
              ELSE rec
  /\ Goto(w, "release")
  /\ Trouble /\ WorkerStep

Release(w) == /\ job[w] = "release"
              /\ rec' = IF rec.by = w THEN [rec EXCEPT !.by = None] ELSE rec
              /\ Goto(w, "idle")
              /\ Fine /\ WorkerStep

(* The process stops; its lease outlives every job, and runs out afterwards.   *)
Stop(w) == /\ job[w] # "idle"
           /\ Goto(w, "idle")
           /\ Trouble /\ WorkerStep /\ UNCHANGED rec

LeaseEnds == /\ rec.by # None /\ job[rec.by] = "idle"
             /\ rec' = [rec EXCEPT !.by = None]
             /\ Fine /\ WorkerStep /\ UNCHANGED job

-----------------------------------------------------------------------------
Work(w) == Uploaded(w) \/ Notified(w) \/ Release(w)

Next == \/ Open \/ Leave \/ Poll \/ Refresh \/ StartShare
        \/ \E s \in Slot : Expire(s) \/ Settle(s) \/ Handle(s) \/ Reload(s) \/ Lose(s)
        \/ HandleStray
        \/ \E w \in Worker : Deliver(w) \/ Work(w) \/ JobFails(w) \/ Stop(w)
        \/ LeaseEnds

Spec == Init /\ [][Next]_vars

(* Timers fire, promises settle, the server answers what reached it, and the   *)
(* relay delivers what is due: pending jobs, and dispatched ones once more.    *)
(* Strong fairness of answers: the user does not press Refresh for ever just   *)
(* before each of them.                                                        *)
Fairness ==
  /\ WF_vars(Poll) /\ WF_vars(HandleStray) /\ WF_vars(LeaseEnds)
  /\ \A s \in Slot : WF_vars(Expire(s)) /\ WF_vars(Settle(s)) /\ WF_vars(Handle(s))
  /\ SF_vars(\E s \in Slot : req[s].latest /\ Handle(s))
  /\ SF_vars(\E s \in Slot : Applies(req[s]) /\ Settle(s))
  /\ \A w \in Worker : WF_vars(Work(w)) /\ WF_vars(rec.dispatch # "paused" /\ Deliver(w))

FairSpec == Spec /\ Fairness

-----------------------------------------------------------------------------
Snapshot == [status : Status, version : Nat]
TypeOK ==
  /\ rec \in [status : Status, completed : BOOLEAN, by : Worker \cup {None},
              dispatch : {"none", "pending", "paused"}, version : Nat]
  /\ job \in [Worker -> {"idle", "upload", "notify", "release"}]
  /\ stray \in BOOLEAN /\ trouble \in 0..MaxTrouble
  /\ page \in {"new", "open", "left"}
  /\ req \in [Slot -> [kind : {"free", "load", "start"},
                       reply : Snapshot \cup {Nothing, Failure}, lost : BOOLEAN,
                       cancelled : BOOLEAN, late : BOOLEAN, latest : BOOLEAN,
                       orphan : BOOLEAN]]
  /\ active \in Slot \cup {None}
  /\ terminal \in BOOLEAN
  /\ shown \in Snapshot \cup {Nothing}
  /\ loading \in BOOLEAN /\ starting \in BOOLEAN

(* The page never goes back to an older record, whatever requests overtake     *)
(* each other: run() cancels and outdates the request before it.               *)
ViewsForward == INSTANCE FreshView WITH truth <- rec.version, view <- shown.version
ShownIsFresh == ViewsForward!Spec

(* An upload is done once and a notified share stays so, though jobs are       *)
(* delivered again, fail, and change hands when a worker stops.                *)
OutcomeKept == [][ /\ rec.completed => rec'.completed /\ rec'.status # "uploading"
                   /\ rec.status = "notified" => rec'.status = "notified" ]_rec

(* The Confirm button comes back: a start whose answer never arrives ends at   *)
(* its deadline, one that a refresh or a poll superseded ends with it.         *)
StartingEnds == (page = "open" /\ starting) ~> ~(page = "open" /\ starting)

(* While the page says "uploading" it keeps asking, until it can say more.     *)
BusyIsWatched == (page = "open" /\ shown.status = "uploading")
                   ~> (page # "open" \/ shown.status # "uploading")

(* The steps of the upload that the page ticks off.                           *)
UploadDone == shown.status \in {"completed", "notified", "notification_failed"}
NotifyDone == shown.status = "notified"

(* A ticked step is never taken back while the page stays open: jobs do not    *)
(* undo what was done, and no answer overtakes a newer one.                    *)
StepsForward == [][ page = "open" /\ page' = "open"
                      => /\ UploadDone => UploadDone'
                         /\ NotifyDone => NotifyDone' ]_vars

(* Only the newest request may change the page, and what it was answered is no *)
(* older than what the page shows.                                             *)
OneLatest == \A s, q \in Slot : req[s].latest /\ req[q].latest => s = q
RepliesFresh ==
  /\ shown.version <= rec.version
  /\ \A s \in Slot : req[s].reply.version <= rec.version
  /\ \A s \in Slot : req[s].latest /\ Succeeded(req[s])
                       => shown.version <= req[s].reply.version
PageInv == TypeOK /\ OneLatest /\ RepliesFresh

(* Confirming a share is watched: unless its answer is newer than what the     *)
(* page shows, polling goes on.                                                *)
ConfirmIsWatched ==
  [][ \A s \in Slot : req[s].kind = "start" /\ Applies(req[s]) /\ ~Unsettled(s)'
        => ~terminal' \/ shown'.version > shown.version ]_vars
=============================================================================
