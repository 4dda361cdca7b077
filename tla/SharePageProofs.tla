-------------------------- MODULE SharePageProofs --------------------------
(* Theorems about SharePage, for every number of requests, workers and         *)
(* failures: the page follows the share record forwards.                       *)
EXTENDS SharePage, TLAPS

Request == [kind : {"free", "load", "start"}, reply : Snapshot \cup {Nothing, Failure},
            lost : BOOLEAN, cancelled : BOOLEAN, late : BOOLEAN, latest : BOOLEAN,
            orphan : BOOLEAN]
ShareRecord == [status : Status, completed : BOOLEAN, by : Worker \cup {None},
                dispatch : {"none", "pending", "paused"}, version : Nat]

(* The part of the page that a step of the server leaves alone, and what such  *)
(* a step may do to the record.                                                *)
ServerOnly == /\ UNCHANGED <<page, req, active, terminal, viewVars>>
              /\ rec' \in ShareRecord /\ rec'.version \in {rec.version, rec.version + 1}
              /\ job' \in [Worker -> {"idle", "upload", "notify", "release"}]
              /\ stray' \in BOOLEAN /\ trouble' \in 0..MaxTrouble

LEMMA FreeType == Free \in Request
  BY DEF Begun, Free, Request, Nothing

LEMMA ServerKeepsInv == ASSUME PageInv, ServerOnly PROVE PageInv'
  <1>1. TypeOK'
    BY DEF PageInv, TypeOK, ServerOnly, ShareRecord, viewVars
  <1>2. OneLatest'
    BY DEF PageInv, OneLatest, ServerOnly
  <1>3. RepliesFresh'
    <2>1. rec.version \in Nat /\ rec'.version \in Nat /\ shown.version \in Nat
      BY DEF PageInv, TypeOK, ServerOnly, ShareRecord, Snapshot, Nothing
    <2>2. \A s \in Slot : req[s].reply.version \in Nat
      BY DEF PageInv, TypeOK, Snapshot, Nothing, Failure
    <2> QED
      BY <2>1, <2>2 DEF PageInv, RepliesFresh, ServerOnly, viewVars, Succeeded, Replied
  <1> QED
    BY <1>1, <1>2, <1>3 DEF PageInv

LEMMA TroubleType == ASSUME PageInv, Trouble \/ Fine PROVE trouble' \in 0..MaxTrouble
  BY ShareAssumption DEF PageInv, TypeOK, Trouble, Fine

(* What a worker writes is a record, and not an older one.                     *)
LEMMA ChangedType == ASSUME PageInv, NEW r \in ShareRecord, r.version = rec.version
                     PROVE  /\ Changed(r) \in ShareRecord
                            /\ Changed(r).version \in {rec.version, rec.version + 1}
  <1>1. rec.version \in Nat
    BY DEF PageInv, TypeOK
  <1> QED
    BY <1>1 DEF Changed, ShareRecord

LEMMA RequestedType == ASSUME PageInv
                       PROVE  Requested \in ShareRecord /\ Requested.version = rec.version
  BY DEF PageInv, TypeOK, Requested, ShareRecord

LEMMA GotoType == ASSUME PageInv, NEW w \in Worker,
                         NEW pc \in {"idle", "upload", "notify", "release"}, Goto(w, pc)
                  PROVE  job' \in [Worker -> {"idle", "upload", "notify", "release"}]
  BY DEF PageInv, TypeOK, Goto

LEMMA WorkerIsServerOnly ==
  ASSUME PageInv, NEW w \in Worker,
         Deliver(w) \/ Work(w) \/ JobFails(w) \/ Stop(w) \/ LeaseEnds
  PROVE  ServerOnly
  <1>r. rec \in ShareRecord /\ rec.version \in Nat
    BY DEF PageInv, TypeOK, ShareRecord
  <1>k. job \in [Worker -> {"idle", "upload", "notify", "release"}] /\ stray \in BOOLEAN
    BY DEF PageInv, TypeOK
  <1>1. CASE Deliver(w)
    <2>1. Claimed(w) \in ShareRecord /\ Claimed(w).version = rec.version
      BY <1>r DEF Claimed, ShareRecord, Status
    <2>2. rec' \in ShareRecord /\ rec'.version \in {rec.version, rec.version + 1}
      BY <1>1, <2>1, ChangedType DEF Deliver
    <2>3. job' \in [Worker -> {"idle", "upload", "notify", "release"}]
      BY <1>1, GotoType DEF Deliver
    <2> QED
      BY <1>1, <1>k, <2>2, <2>3, TroubleType DEF Deliver, WorkerStep, ServerOnly
  <1>2. CASE Uploaded(w)
    <2> DEFINE done == [rec EXCEPT !.status = "completed", !.completed = TRUE]
    <2>1. done \in ShareRecord /\ done.version = rec.version
      BY <1>r DEF ShareRecord, Status
    <2>2. /\ Changed(done) \in ShareRecord
          /\ Changed(done).version \in {rec.version, rec.version + 1}
      BY <2>1, ChangedType
    <2>3. rec' \in ShareRecord /\ rec'.version \in {rec.version, rec.version + 1}
      BY <1>2, <1>r, <2>2 DEF Uploaded
    <2>4. job' \in [Worker -> {"idle", "upload", "notify", "release"}]
      BY <1>2, GotoType DEF Uploaded
    <2> QED
      BY <1>2, <1>k, <2>3, <2>4, TroubleType DEF Uploaded, WorkerStep, ServerOnly
  <1>3. CASE Notified(w)
    <2> DEFINE done == [rec EXCEPT !.status = "notified"]
    <2>1. done \in ShareRecord /\ done.version = rec.version
      BY <1>r DEF ShareRecord, Status
    <2>2. /\ Changed(done) \in ShareRecord
          /\ Changed(done).version \in {rec.version, rec.version + 1}
      BY <2>1, ChangedType
    <2>3. rec' \in ShareRecord /\ rec'.version \in {rec.version, rec.version + 1}
      BY <1>3, <1>r, <2>2 DEF Notified
    <2>4. job' \in [Worker -> {"idle", "upload", "notify", "release"}]
      BY <1>3, GotoType DEF Notified
    <2> QED
      BY <1>3, <1>k, <2>3, <2>4, TroubleType DEF Notified, WorkerStep, ServerOnly
  <1>4. CASE JobFails(w)
    <2>1. PICK d \in {rec.dispatch, "paused"} :
             rec' = IF rec.by = w /\ rec.status # "notified"
                    THEN Changed([rec EXCEPT !.dispatch = d,
                           !.status = IF job[w] = "upload" THEN "failed"
                                                           ELSE "notification_failed"])
                    ELSE rec
      BY <1>4 DEF JobFails
    <2> DEFINE done == [rec EXCEPT !.dispatch = d,
                          !.status = IF job[w] = "upload" THEN "failed"
                                                          ELSE "notification_failed"]
    <2>2. done \in ShareRecord /\ done.version = rec.version
      BY <1>r DEF ShareRecord, Status
    <2>3. /\ Changed(done) \in ShareRecord
          /\ Changed(done).version \in {rec.version, rec.version + 1}
      BY <2>2, ChangedType
    <2>4. rec' \in ShareRecord /\ rec'.version \in {rec.version, rec.version + 1}
      BY <1>r, <2>1, <2>3
    <2>5. job' \in [Worker -> {"idle", "upload", "notify", "release"}]
      BY <1>4, GotoType DEF JobFails
    <2> QED
      BY <1>4, <1>k, <2>4, <2>5, TroubleType DEF JobFails, WorkerStep, ServerOnly
  <1>5. CASE Release(w)
    <2>1. rec' \in ShareRecord /\ rec'.version \in {rec.version, rec.version + 1}
      BY <1>5, <1>r DEF Release, ShareRecord
    <2>2. job' \in [Worker -> {"idle", "upload", "notify", "release"}]
      BY <1>5, GotoType DEF Release
    <2> QED
      BY <1>5, <1>k, <2>1, <2>2, TroubleType DEF Release, WorkerStep, ServerOnly
  <1>6. CASE Stop(w)
    <2>1. job' \in [Worker -> {"idle", "upload", "notify", "release"}]
      BY <1>6, GotoType DEF Stop
    <2> QED
      BY <1>6, <1>k, <1>r, <2>1, TroubleType DEF Stop, WorkerStep, ServerOnly
  <1>7. CASE LeaseEnds
    <2>1. rec' \in ShareRecord /\ rec'.version \in {rec.version, rec.version + 1}
      BY <1>7, <1>r DEF LeaseEnds, ShareRecord
    <2> QED
      BY <1>7, <1>k, <2>1, TroubleType DEF LeaseEnds, WorkerStep, ServerOnly
  <1> QED
    BY <1>1, <1>2, <1>3, <1>4, <1>5, <1>6, <1>7 DEF Work

-----------------------------------------------------------------------------
(* The steps of the page leave the record alone.                               *)
PageOnly == /\ UNCHANGED <<rec, job>>
            /\ stray' \in BOOLEAN /\ trouble' \in 0..MaxTrouble

(* run(): the request it starts is the only one that counts from then on.      *)
LEMMA RunKeepsInv ==
  ASSUME PageInv, NEW kind \in {"load", "start"}, Run(kind), PageOnly,
         page' \in {"new", "open", "left"}, terminal' \in BOOLEAN,
         loading' \in BOOLEAN, starting' \in BOOLEAN,
         shown' = shown \/ shown' = Nothing
  PROVE  PageInv'
  <1>1. PICK s \in Slot :
          /\ ~Unsettled(s)
          /\ req' = [q \in Slot |->
                       IF q = s THEN Begun(kind, TRUE) ELSE Superseded(q)]
          /\ active' = s
    BY DEF Run
  <1> DEFINE begun == Begun(kind, TRUE)
  <1>2. begun \in Request /\ begun.latest /\ begun.reply = Nothing
    BY DEF Begun, Free, Request, Nothing
  <1>3. \A q \in Slot : /\ Superseded(q) \in Request /\ ~Superseded(q).latest
                        /\ Superseded(q).reply = req[q].reply
    BY DEF PageInv, TypeOK, Superseded, Outdated, Cancelled, Request
  <1>4. \A q \in Slot : req'[q] = IF q = s THEN begun ELSE Superseded(q)
    BY <1>1
  <1> HIDE DEF begun
  <1>5. req' \in [Slot -> Request]
    BY <1>1, <1>2, <1>3 DEF begun
  <1>6. TypeOK'
    BY <1>1, <1>5 DEF PageInv, TypeOK, PageOnly, Request
  <1>7. OneLatest'
    BY <1>2, <1>3, <1>4 DEF OneLatest
  <1>8. RepliesFresh'
    <2>1. rec.version \in Nat /\ shown'.version \in Nat /\ shown'.version <= rec.version
      BY DEF PageInv, TypeOK, RepliesFresh, Snapshot, Nothing
    <2>2. \A q \in Slot : req'[q].reply.version <= rec.version
      BY <1>2, <1>3, <1>4, <2>1 DEF PageInv, RepliesFresh, Nothing
    <2>3. \A q \in Slot : ~(req'[q].latest /\ Succeeded(req'[q]))
      BY <1>2, <1>3, <1>4 DEF Succeeded, Replied
    <2> QED
      BY <2>1, <2>2, <2>3 DEF RepliesFresh, PageOnly
  <1> QED
    BY <1>6, <1>7, <1>8 DEF PageInv

(* Nothing that a single request goes through can make an older answer count.  *)
LEMMA RequestKeepsInv ==
  ASSUME PageInv, NEW s \in Slot, NEW r \in Request,
         req' = [req EXCEPT ![s] = r],
         r.latest => req[s].latest,
         r.reply.version <= rec.version,
         r.latest /\ Succeeded(r) => shown.version <= r.reply.version,
         UNCHANGED <<page, active, terminal, viewVars>>,
         rec' \in ShareRecord, rec'.version = rec.version, UNCHANGED job,
         stray' \in BOOLEAN, trouble' \in 0..MaxTrouble
  PROVE  PageInv'
  <1>1. \A q \in Slot : req'[q] = IF q = s THEN r ELSE req[q]
    BY DEF PageInv, TypeOK
  <1>2. TypeOK'
    BY DEF PageInv, TypeOK, Request, ShareRecord, viewVars
  <1>3. OneLatest'
    BY <1>1 DEF PageInv, OneLatest
  <1>4. RepliesFresh'
    BY <1>1 DEF PageInv, RepliesFresh, viewVars
  <1> QED
    BY <1>2, <1>3, <1>4 DEF PageInv

LEMMA RecordType == ASSUME PageInv
                    PROVE  /\ Record \in Snapshot /\ Record.version = rec.version
                           /\ rec \in ShareRecord /\ rec.version \in Nat
  BY DEF PageInv, TypeOK, Record, Snapshot, ShareRecord

LEMMA RequestStepKeepsInv ==
  ASSUME PageInv, NEW s \in Slot, Expire(s) \/ Handle(s) \/ Reload(s) \/ Lose(s)
  PROVE  PageInv'
  <1>r. /\ req[s] \in Request /\ req \in [Slot -> Request] /\ stray \in BOOLEAN
        /\ req[s].reply.version <= rec.version /\ shown.version <= rec.version
        /\ (req[s].latest /\ Succeeded(req[s]) => shown.version <= req[s].reply.version)
    BY DEF PageInv, TypeOK, Request, RepliesFresh
  <1>t. rec \in ShareRecord /\ rec.version \in Nat /\ rec.version <= rec.version
    BY RecordType
  <1>1. CASE Expire(s)
    <2> DEFINE r == [req[s] EXCEPT !.late = TRUE, !.cancelled = TRUE]
    <2>1. /\ r \in Request /\ r.latest = req[s].latest /\ r.reply = req[s].reply
      BY <1>r DEF Request
    <2>2. req' = [req EXCEPT ![s] = r]
      BY <1>1 DEF Expire
    <2>3. trouble' \in 0..MaxTrouble
      BY <1>1, ShareAssumption DEF Expire, PageInv, TypeOK
    <2>4. r.latest /\ Succeeded(r) => shown.version <= r.reply.version
      BY <2>1, <1>r DEF Succeeded, Replied
    <2> HIDE DEF r
    <2> QED
      BY <1>1, <1>r, <1>t, <2>1, <2>2, <2>3, <2>4, RequestKeepsInv DEF Expire, serverVars
  <1>2. CASE Handle(s) \/ Reload(s)
    <2> DEFINE r == [req[s] EXCEPT !.reply = Record]
    <2>1. r \in Request /\ r.latest = req[s].latest /\ r.reply.version = rec.version
      BY <1>r, RecordType DEF Request
    <2>2. req' = [req EXCEPT ![s] = r]
      BY <1>2 DEF Handle, Reload
    <2>3. /\ rec' \in ShareRecord /\ rec'.version = rec.version /\ UNCHANGED job
          /\ stray' \in BOOLEAN /\ trouble' \in 0..MaxTrouble
          /\ UNCHANGED <<page, active, terminal, viewVars>>
      BY <1>2, <1>r, <1>t, RequestedType, TroubleType DEF Handle, Reload, serverVars
    <2>4. r.latest /\ Succeeded(r) => shown.version <= r.reply.version
      BY <2>1, <1>r
    <2> HIDE DEF r
    <2> QED
      BY <1>r, <1>t, <2>1, <2>2, <2>3, <2>4, RequestKeepsInv
  <1>3. CASE Lose(s)
    <2>1. PICK lost \in BOOLEAN :
            req' = [req EXCEPT ![s].lost = lost,
                               ![s].reply = IF lost THEN Nothing ELSE Failure]
      BY <1>3 DEF Lose
    <2> DEFINE r == [req[s] EXCEPT !.lost = lost,
                                   !.reply = IF lost THEN Nothing ELSE Failure]
    <2>2. r \in Request /\ r.latest = req[s].latest /\ r.reply \in {Nothing, Failure}
      BY <1>r DEF Request
    <2>3. r.reply.version <= rec.version
      BY <1>t, <2>2 DEF Nothing, Failure
    <2>4. ~Succeeded(r)
      BY <2>2 DEF Succeeded, Replied
    <2>5. req' = [req EXCEPT ![s] = r]
      BY <2>1
    <2>6. trouble' \in 0..MaxTrouble
      BY <1>3, TroubleType DEF Lose
    <2> HIDE DEF r
    <2> QED
      BY <1>3, <1>r, <1>t, <2>2, <2>3, <2>4, <2>5, <2>6, RequestKeepsInv DEF Lose, serverVars
  <1> QED
    BY <1>1, <1>2, <1>3

LEMMA SettleKeepsInv == ASSUME PageInv, NEW s \in Slot, Settle(s) PROVE PageInv'
  <1> DEFINE r == req[s]
  <1>r. /\ r \in Request /\ req \in [Slot -> Request] /\ rec.version \in Nat
        /\ shown \in Snapshot \cup {Nothing} /\ shown.version \in Nat
        /\ stray \in BOOLEAN
    BY DEF PageInv, TypeOK, Request, Snapshot, Nothing
  <1>1. /\ req' = [req EXCEPT ![s] = Free] /\ Fine /\ UNCHANGED <<rec, job, page>>
        /\ shown' = IF Applies(r) THEN r.reply ELSE shown
    BY DEF Settle
  <1>2. \A q \in Slot : req'[q] = IF q = s THEN Free ELSE req[q]
    BY <1>r, <1>1
  <1>3. Applies(r) => /\ r.reply \in Snapshot /\ r.latest
                      /\ shown.version <= r.reply.version /\ r.reply.version <= rec.version
    <2>1. Succeeded(r) => r.reply \in Snapshot
      BY <1>r DEF Request, Succeeded, Replied
    <2> QED
      BY <2>1 DEF Applies, PageInv, RepliesFresh
  <1>4. Free \in Request /\ ~Free.latest /\ Free.reply = Nothing
    BY FreeType DEF Free, Begun
  <1>5. shown' \in Snapshot \cup {Nothing} /\ shown'.version <= rec.version
    BY <1>r, <1>1, <1>3 DEF PageInv, RepliesFresh
  <1>6. TypeOK'
    <2>1. terminal' \in BOOLEAN /\ loading' \in BOOLEAN /\ starting' \in BOOLEAN
      <3>1. terminal \in BOOLEAN /\ loading \in BOOLEAN /\ starting \in BOOLEAN
        BY DEF PageInv, TypeOK
      <3>2. /\ terminal' = IF Applies(r) THEN IsTerminal(r.reply.status) ELSE terminal
            /\ loading' = (loading /\ ~Applies(r) /\ ~Reports(r))
            /\ starting' = (starting /\ (r.kind # "start" \/ r.orphan))
        BY DEF Settle
      <3>3. IsTerminal(r.reply.status) \in BOOLEAN
        BY DEF IsTerminal
      <3> QED
        BY <3>1, <3>2, <3>3, Zenon
    <2>2. stray' \in BOOLEAN /\ active' \in Slot \cup {None}
      BY <1>r DEF Settle, PageInv, TypeOK
    <2>3. req' \in [Slot -> Request]
      BY <1>r, <1>1, <1>4
    <2>4. trouble' \in 0..MaxTrouble
      BY <1>1, TroubleType
    <2> QED
      BY <1>1, <1>5, <2>1, <2>2, <2>3, <2>4 DEF PageInv, TypeOK, Request
  <1>7. OneLatest'
    BY <1>2, <1>4 DEF PageInv, OneLatest
  <1>8. RepliesFresh'
    <2>1. \A q \in Slot : req'[q].reply.version <= rec.version
      BY <1>r, <1>2, <1>4 DEF PageInv, RepliesFresh, Nothing
    <2>2. \A q \in Slot : req'[q].latest /\ Succeeded(req'[q])
                             => shown'.version <= req'[q].reply.version
      <3> SUFFICES ASSUME NEW q \in Slot, req'[q].latest, Succeeded(req'[q])
                   PROVE  shown'.version <= req'[q].reply.version
        OBVIOUS
      <3>1. q # s /\ req'[q] = req[q]
        BY <1>2, <1>4
      <3>2. ~r.latest
        BY <3>1 DEF PageInv, OneLatest
      <3>3. shown' = shown
        BY <1>1, <3>2 DEF Applies
      <3> QED
        BY <3>1, <3>3 DEF PageInv, RepliesFresh
    <2> QED
      BY <1>1, <1>5, <2>1, <2>2 DEF RepliesFresh
  <1> QED
    BY <1>6, <1>7, <1>8 DEF PageInv

LEMMA LeaveKeepsInv == ASSUME PageInv, Leave PROVE PageInv'
  <1>1. \A s \in Slot : /\ req'[s] \in Request /\ ~req'[s].latest
                        /\ req'[s].reply = req[s].reply \/ req'[s].reply = Nothing
    <2> SUFFICES ASSUME NEW s \in Slot
                 PROVE  /\ req'[s] \in Request /\ ~req'[s].latest
                        /\ req'[s].reply = req[s].reply \/ req'[s].reply = Nothing
      OBVIOUS
    <2>1. req[s] \in Request
      BY DEF PageInv, TypeOK, Request
    <2>2. req'[s] = IF Unsettled(s)
                    THEN [Outdated(req[s]) EXCEPT !.cancelled = TRUE, !.orphan = TRUE]
                    ELSE Free
      BY DEF Leave
    <2>3. Free \in Request /\ ~Free.latest /\ Free.reply = Nothing
      BY FreeType DEF Free, Begun
    <2>4. Outdated(req[s]) \in Request /\ ~Outdated(req[s]).latest
          /\ Outdated(req[s]).reply = req[s].reply
      BY <2>1 DEF Outdated, Request
    <2> DEFINE o == Outdated(req[s])
    <2> HIDE DEF o
    <2>5. o \in Request /\ ~o.latest /\ o.reply = req[s].reply
      BY <2>4 DEF o
    <2>6. /\ [o EXCEPT !.cancelled = TRUE, !.orphan = TRUE] \in Request
          /\ ~[o EXCEPT !.cancelled = TRUE, !.orphan = TRUE].latest
          /\ [o EXCEPT !.cancelled = TRUE, !.orphan = TRUE].reply = req[s].reply
      BY <2>5 DEF Request
    <2> QED
      BY <2>2, <2>3, <2>6, Zenon DEF o
  <1>2. TypeOK'
    <2>1. req' \in [Slot -> Request]
      BY <1>1 DEF Leave
    <2>2. trouble' \in 0..MaxTrouble
      BY TroubleType DEF Leave
    <2> QED
      BY <2>1, <2>2 DEF Leave, PageInv, TypeOK, Request, serverVars, viewVars
  <1>3. OneLatest'
    BY <1>1 DEF OneLatest
  <1>4. RepliesFresh'
    <2>1. rec.version \in Nat
      BY DEF PageInv, TypeOK
    <2>2. shown' = shown /\ rec' = rec
      BY DEF Leave, serverVars, viewVars
    <2>3. \A s \in Slot : req'[s].reply.version <= rec.version
      BY <1>1, <2>1 DEF PageInv, RepliesFresh, Nothing
    <2> QED
      BY <1>1, <2>2, <2>3 DEF PageInv, RepliesFresh
  <1> QED
    BY <1>2, <1>3, <1>4 DEF PageInv

LEMMA StrayIsServerOnly == ASSUME PageInv, HandleStray PROVE ServerOnly
  <1>1. job' \in [Worker -> {"idle", "upload", "notify", "release"}] /\ stray' \in BOOLEAN
    BY DEF PageInv, TypeOK, HandleStray
  <1>2. rec' \in ShareRecord /\ rec'.version = rec.version
    BY RequestedType DEF HandleStray
  <1>3. trouble' \in 0..MaxTrouble
    BY TroubleType DEF HandleStray
  <1> QED
    BY <1>1, <1>2, <1>3 DEF HandleStray, ServerOnly

LEMMA NextKeepsInv == ASSUME PageInv, [Next]_vars PROVE PageInv'
  <1>k. stray \in BOOLEAN /\ page \in {"new", "open", "left"} /\ terminal \in BOOLEAN
        /\ loading \in BOOLEAN /\ starting \in BOOLEAN
    BY DEF PageInv, TypeOK
  <1>1. CASE Open
    BY <1>1, <1>k, RunKeepsInv, TroubleType DEF Open, PageOnly, serverVars
  <1>2. CASE Poll \/ Refresh
    BY <1>2, <1>k, RunKeepsInv, TroubleType DEF Poll, Refresh, PageOnly, serverVars, viewVars
  <1>3. CASE StartShare
    BY <1>3, <1>k, RunKeepsInv, TroubleType DEF StartShare, PageOnly, serverVars, viewVars
  <1>4. CASE Leave
    BY <1>4, LeaveKeepsInv
  <1>5. ASSUME NEW s \in Slot, Expire(s) \/ Settle(s) \/ Handle(s) \/ Reload(s) \/ Lose(s)
        PROVE  PageInv'
    BY <1>5, RequestStepKeepsInv, SettleKeepsInv
  <1>6. CASE HandleStray
    BY <1>6, StrayIsServerOnly, ServerKeepsInv
  <1>7. CASE \/ \E w \in Worker : Deliver(w) \/ Work(w) \/ JobFails(w) \/ Stop(w)
             \/ LeaseEnds
    <2>1. ASSUME NEW w \in Worker, Deliver(w) \/ Work(w) \/ JobFails(w) \/ Stop(w)
          PROVE  PageInv'
      BY <2>1, WorkerIsServerOnly, ServerKeepsInv
    <2>2. CASE LeaseEnds
      <3>1. rec.by \in Worker
        BY <2>2 DEF LeaseEnds, PageInv, TypeOK
      <3> QED
        BY <2>2, <3>1, WorkerIsServerOnly, ServerKeepsInv
    <2> QED
      BY <1>7, <2>1, <2>2
  <1>8. CASE UNCHANGED vars
    BY <1>8 DEF vars, viewVars, PageInv, TypeOK, OneLatest, RepliesFresh, Succeeded, Replied
  <1> QED
    BY <1>1, <1>2, <1>3, <1>4, <1>5, <1>6, <1>7, <1>8 DEF Next

LEMMA InitInv == Init => PageInv
  <1> SUFFICES ASSUME Init PROVE PageInv
    OBVIOUS
  <1>1. TypeOK
    <2>1. rec \in ShareRecord
      BY DEF Init, ShareRecord, Status
    <2>2. req \in [Slot -> Request]
      BY FreeType DEF Init
    <2>3. trouble \in 0..MaxTrouble
      BY ShareAssumption DEF Init
    <2> QED
      BY <2>1, <2>2, <2>3 DEF Init, TypeOK, ShareRecord, Request
  <1>2. OneLatest /\ RepliesFresh
    BY DEF Init, OneLatest, RepliesFresh, Free, Begun, Nothing, Succeeded, Replied
  <1> QED
    BY <1>1, <1>2 DEF PageInv

(* Only the newest request of the page can change what it shows, and whatever  *)
(* answers it is no older than that: run() of the request coordinator.         *)
THEOREM SharePageInv == Spec => []PageInv
  BY InitInv, NextKeepsInv, PTL DEF Spec

(* A step of the page and the server is a step of a view that moves forward.   *)
LEMMA StepIsFresh == ASSUME PageInv, PageInv', Next
                     PROVE  ViewsForward!Next \/ UNCHANGED <<rec.version, shown.version>>
  <1>n. rec.version \in Nat /\ shown.version \in Nat
    BY DEF PageInv, TypeOK, Snapshot, Nothing
  <1>1. CASE UNCHANGED rec
    <2>1. CASE UNCHANGED shown
      BY <1>1, <2>1
    <2>2. CASE shown' = Nothing
      BY <1>1, <2>2 DEF ViewsForward!Next, ViewsForward!Reopen, Nothing
    <2>3. ASSUME NEW s \in Slot, Settle(s) PROVE ViewsForward!Next
      <3>1. shown.version <= shown'.version
        BY <2>3, <1>n DEF Settle, Applies, PageInv, RepliesFresh
      <3>2. shown'.version <= rec'.version /\ shown'.version \in Nat
        BY DEF PageInv, RepliesFresh, TypeOK, Snapshot, Nothing
      <3> QED
        BY <1>1, <1>n, <3>1, <3>2 DEF ViewsForward!Next, ViewsForward!Show
    <2> QED
      BY <1>1, <2>1, <2>2, <2>3
         DEF Next, Open, Leave, Poll, Refresh, StartShare, Expire, Handle, Reload, Lose,
             HandleStray, Deliver, Work, Uploaded, Notified, Release, JobFails, Stop,
             LeaseEnds, WorkerStep, viewVars
  <1>2. CASE UNCHANGED shown /\ rec'.version \in {rec.version, rec.version + 1}
    BY <1>2 DEF ViewsForward!Next, ViewsForward!Change
  <1>3. ASSUME NEW s \in Slot, Handle(s)
        PROVE  UNCHANGED shown /\ rec'.version = rec.version
    BY <1>3, RequestedType DEF Handle, viewVars
  <1>4. ASSUME NEW w \in Worker, Deliver(w) \/ Work(w) \/ JobFails(w) \/ Stop(w)
        PROVE  ServerOnly
    BY <1>4, WorkerIsServerOnly
  <1>5. ASSUME LeaseEnds PROVE ServerOnly
    <2>1. rec.by \in Worker
      BY <1>5 DEF LeaseEnds, PageInv, TypeOK
    <2> QED
      BY <1>5, <2>1, WorkerIsServerOnly
  <1>6. ServerOnly => UNCHANGED shown /\ rec'.version \in {rec.version, rec.version + 1}
    BY DEF ServerOnly, viewVars
  <1>7. \/ UNCHANGED rec
        \/ HandleStray \/ LeaseEnds
        \/ \E s \in Slot : Handle(s)
        \/ \E w \in Worker : Deliver(w) \/ Work(w) \/ JobFails(w) \/ Stop(w)
    BY DEF Next, Open, Leave, Poll, Refresh, StartShare, Expire, Settle, Reload, Lose,
           serverVars
  <1> QED
    BY <1>1, <1>2, <1>3, <1>4, <1>5, <1>6, <1>7, StrayIsServerOnly

(* Whatever order answers come in, the page shows versions the share has had   *)
(* and never goes back: ShareRequestCoordinator refines FreshView.             *)
THEOREM SharePageFresh == Spec => ShownIsFresh
  <1>1. Init => ViewsForward!Init
    BY DEF Init, ViewsForward!Init, Nothing
  <1>2. PageInv /\ PageInv' /\ [Next]_vars => [ViewsForward!Next]_<<rec.version, shown.version>>
    BY StepIsFresh DEF vars, viewVars
  <1> QED
    BY <1>1, <1>2, SharePageInv, PTL
       DEF Spec, ShownIsFresh, ViewsForward!Spec, ViewsForward!fvars

-----------------------------------------------------------------------------
(* The record: its owner is the one worker with a job on it, who uploads what  *)
(* is not uploaded and announces what is.                                      *)
Done == {"completed", "notified", "notification_failed"}
JobsTrue ==
  /\ \A w \in Worker : /\ job[w] # "idle" => rec.by = w
                       /\ job[w] = "upload" => ~rec.completed
                       /\ job[w] = "notify" => rec.completed
  /\ rec.completed <=> rec.status \in Done
  /\ rec.version # 0

(* How a step changes what a reader of the record can tell apart.              *)
Onwards ==
  /\ rec'.version = rec.version => rec'.status = rec.status
  /\ rec'.version \in {rec.version, rec.version + 1}
  /\ rec.completed => rec'.completed
  /\ rec.status = "notified" => rec'.status = "notified"

LEMMA JobsInitially == Init => JobsTrue
  BY DEF Init, JobsTrue, Done

LEMMA ChangedRecord ==
  ASSUME PageInv, NEW r \in ShareRecord, r.version = rec.version, rec' = Changed(r)
  PROVE  /\ rec'.status = r.status /\ rec'.completed = r.completed /\ rec'.by = r.by
         /\ rec'.version = rec.version => rec'.status = rec.status
         /\ rec'.version \in {rec.version, rec.version + 1}
  <1>1. rec.version \in Nat
    BY DEF PageInv, TypeOK
  <1> QED
    BY <1>1 DEF Changed, ShareRecord

LEMMA JobsStay ==
  ASSUME JobsTrue, UNCHANGED job,
         /\ rec'.by = rec.by \/ \A w \in Worker : job[w] = "idle"
         /\ rec'.status = rec.status /\ rec'.completed = rec.completed
         /\ rec'.version = rec.version
  PROVE  JobsTrue' /\ Onwards
  BY DEF JobsTrue, Onwards

LEMMA WorkOnwards ==
  ASSUME PageInv, JobsTrue, NEW w \in Worker, Deliver(w) \/ Work(w) \/ JobFails(w) \/ Stop(w)
  PROVE  JobsTrue' /\ Onwards
  <1>r. /\ rec \in ShareRecord /\ rec.version \in Nat
        /\ job \in [Worker -> {"idle", "upload", "notify", "release"}]
    BY DEF PageInv, TypeOK, ShareRecord
  <1>j. /\ job[w] # "idle" => rec.by = w /\ \A v \in Worker \ {w} : job[v] = "idle"
        /\ rec.by = None => \A v \in Worker : job[v] = "idle"
    BY ShareAssumption DEF JobsTrue
  <1>g. ASSUME NEW pc, Goto(w, pc)
        PROVE  job'[w] = pc /\ \A v \in Worker \ {w} : job'[v] = job[v]
    BY <1>r, <1>g DEF Goto
  <1>1. CASE Deliver(w)
    <2>1. Claimed(w) \in ShareRecord /\ Claimed(w).version = rec.version
      BY <1>r DEF Claimed, ShareRecord, Status
    <2>2. /\ Claimed(w).by = w /\ Claimed(w).completed = rec.completed
          /\ Claimed(w).status = IF rec.completed THEN rec.status ELSE "uploading"
      BY <1>r DEF Claimed, ShareRecord
    <2>3. /\ rec'.by = w /\ rec'.completed = rec.completed
          /\ rec'.status = IF rec.completed THEN rec.status ELSE "uploading"
          /\ rec'.version = rec.version => rec'.status = rec.status
          /\ rec'.version \in {rec.version, rec.version + 1}
      BY <1>1, <2>1, <2>2, ChangedRecord DEF Deliver
    <2>4. /\ job'[w] = IF rec.completed THEN "notify" ELSE "upload"
          /\ \A v \in Worker \ {w} : job'[v] = "idle"
          /\ rec.status # "notified"
      BY <1>1, <1>g, <1>j DEF Deliver, MayClaim
    <2>5. JobsTrue'
      BY <1>r, <2>3, <2>4 DEF JobsTrue, Done
    <2>6. Onwards
      BY <2>3, <2>4 DEF Onwards
    <2> QED
      BY <2>5, <2>6
  <1>2. CASE Uploaded(w)
    <2> DEFINE done == [rec EXCEPT !.status = "completed", !.completed = TRUE]
    <2>1. /\ done \in ShareRecord /\ done.version = rec.version /\ done.by = rec.by
          /\ done.completed /\ done.status = "completed"
      BY <1>r DEF ShareRecord, Status
    <2>2. \A v \in Worker \ {w} : job'[v] = "idle"
      BY <1>2, <1>g, <1>j DEF Uploaded
    <2>3. CASE rec' = Changed(done) /\ Goto(w, "notify") /\ rec.status = "uploading"
      <3>1. /\ rec'.by = w /\ rec'.completed /\ rec'.status = "completed"
            /\ rec'.version = rec.version => rec'.status = rec.status
            /\ rec'.version \in {rec.version, rec.version + 1}
        BY <1>2, <1>j, <2>1, <2>3, ChangedRecord DEF Uploaded
      <3>2. job'[w] = "notify"
        BY <1>g, <2>3
      <3>3. JobsTrue'
        BY <1>r, <2>2, <3>1, <3>2 DEF JobsTrue, Done
      <3>4. Onwards
        BY <2>3, <3>1 DEF Onwards
      <3> QED
        BY <3>3, <3>4
    <2>4. CASE UNCHANGED rec /\ Goto(w, "release")
      <3>1. job'[w] = "release"
        BY <1>g, <2>4
      <3> QED
        BY <1>2, <1>j, <2>2, <2>4, <3>1 DEF JobsTrue, Onwards, Uploaded
    <2> QED
      BY <1>2, <2>3, <2>4 DEF Uploaded
  <1>3. CASE Notified(w)
    <2> DEFINE done == [rec EXCEPT !.status = "notified"]
    <2>1. /\ done \in ShareRecord /\ done.version = rec.version /\ done.by = rec.by
          /\ done.completed = rec.completed /\ done.status = "notified"
      BY <1>r DEF ShareRecord, Status
    <2>2. (\A v \in Worker \ {w} : job'[v] = "idle") /\ job'[w] = "release" /\ rec.by = w
      BY <1>3, <1>g, <1>j DEF Notified
    <2>3. CASE rec' = Changed(done) /\ rec.completed
      <3>1. /\ rec'.by = w /\ rec'.completed /\ rec'.status = "notified"
            /\ rec'.version = rec.version => rec'.status = rec.status
            /\ rec'.version \in {rec.version, rec.version + 1}
        BY <2>1, <2>2, <2>3, ChangedRecord
      <3>2. JobsTrue'
        BY <1>r, <2>2, <3>1 DEF JobsTrue, Done
      <3>3. Onwards
        BY <3>1 DEF Onwards
      <3> QED
        BY <3>2, <3>3
    <2>4. CASE UNCHANGED rec
      BY <2>2, <2>4 DEF JobsTrue, Onwards
    <2> QED
      BY <1>3, <2>3, <2>4 DEF Notified
  <1>4. CASE JobFails(w)
    <2>1. PICK d \in {rec.dispatch, "paused"} :
             rec' = IF rec.by = w /\ rec.status # "notified"
                    THEN Changed([rec EXCEPT !.dispatch = d,
                           !.status = IF job[w] = "upload" THEN "failed"
                                                           ELSE "notification_failed"])
                    ELSE rec
      BY <1>4 DEF JobFails
    <2> DEFINE done == [rec EXCEPT !.dispatch = d,
                          !.status = IF job[w] = "upload" THEN "failed"
                                                          ELSE "notification_failed"]
    <2>2. /\ done \in ShareRecord /\ done.version = rec.version /\ done.by = rec.by
          /\ done.completed = rec.completed
          /\ done.status = IF job[w] = "upload" THEN "failed" ELSE "notification_failed"
      BY <1>r DEF ShareRecord, Status
    <2>3. /\ \A v \in Worker \ {w} : job'[v] = "idle"
          /\ job'[w] = "release" /\ rec.by = w /\ job[w] \in {"upload", "notify"}
      BY <1>4, <1>g, <1>j DEF JobFails
    <2>4. job[w] = "upload" <=> ~rec.completed
      BY <2>3 DEF JobsTrue
    <2>5. CASE rec' = Changed(done) /\ rec.status # "notified"
      <3>1. /\ rec'.by = w /\ rec'.completed = rec.completed
            /\ rec'.status = IF job[w] = "upload" THEN "failed" ELSE "notification_failed"
            /\ rec'.version = rec.version => rec'.status = rec.status
            /\ rec'.version \in {rec.version, rec.version + 1}
        BY <2>2, <2>3, <2>5, ChangedRecord
      <3>2. JobsTrue'
        BY <1>r, <2>3, <2>4, <3>1 DEF JobsTrue, Done
      <3>3. Onwards
        BY <2>5, <3>1 DEF Onwards
      <3> QED
        BY <3>2, <3>3
    <2>6. CASE UNCHANGED rec
      BY <2>3, <2>6 DEF JobsTrue, Onwards
    <2> QED
      BY <2>1, <2>5, <2>6
  <1>5. CASE Release(w) \/ Stop(w)
    <2>1. \A v \in Worker : job'[v] = "idle"
      BY <1>5, <1>g, <1>j DEF Release, Stop
    <2>2. /\ rec'.status = rec.status /\ rec'.completed = rec.completed
          /\ rec'.version = rec.version
      BY <1>5, <1>r DEF Release, Stop, ShareRecord
    <2> QED
      BY <2>1, <2>2 DEF JobsTrue, Onwards
  <1> QED
    BY <1>1, <1>2, <1>3, <1>4, <1>5 DEF Work

LEMMA NextOnwards == ASSUME PageInv, JobsTrue, [Next]_vars PROVE JobsTrue' /\ Onwards
  <1>r. rec \in ShareRecord
    BY RecordType
  <1>q. /\ Requested.by = rec.by /\ Requested.status = rec.status
        /\ Requested.completed = rec.completed /\ Requested.version = rec.version
    BY <1>r DEF Requested, ShareRecord
  <1>1. ASSUME NEW w \in Worker, Deliver(w) \/ Work(w) \/ JobFails(w) \/ Stop(w)
        PROVE  JobsTrue' /\ Onwards
    BY <1>1, WorkOnwards
  <1>2. CASE LeaseEnds
    <2>1. \A w \in Worker : job[w] = "idle"
      BY <1>2 DEF LeaseEnds, JobsTrue
    <2>2. /\ rec'.status = rec.status /\ rec'.completed = rec.completed
          /\ rec'.version = rec.version /\ UNCHANGED job
      BY <1>2, <1>r DEF LeaseEnds, ShareRecord
    <2> QED
      BY <2>1, <2>2, JobsStay
  <1>3. CASE HandleStray \/ \E s \in Slot : Handle(s)
    <2>1. (rec' = rec \/ rec' = Requested) /\ UNCHANGED job
      BY <1>3 DEF HandleStray, Handle
    <2> QED
      BY <1>q, <2>1, JobsStay
  <1>4. CASE UNCHANGED <<rec, job>>
    BY <1>4, JobsStay
  <1> QED
    BY <1>1, <1>2, <1>3, <1>4
       DEF Next, Open, Leave, Poll, Refresh, StartShare, Expire, Settle, Reload, Lose,
           serverVars, vars

(* ClaimShareJob and the marks of the owner: an upload that is done is not     *)
(* done again, and a notified share stays so, for any number of workers,       *)
(* deliveries, failures and stopped processes.                                 *)
THEOREM OutcomeAlwaysKept == Spec => OutcomeKept
  <1> DEFINE I == PageInv /\ JobsTrue
  <1>1. Init => I
    BY InitInv, JobsInitially
  <1>2. I /\ [Next]_vars => I'
    BY NextKeepsInv, NextOnwards
  <1>3. I /\ I' /\ [Next]_vars =>
          [ /\ rec.completed => rec'.completed /\ rec'.status # "uploading"
            /\ rec.status = "notified" => rec'.status = "notified" ]_rec
    BY NextOnwards DEF Onwards, JobsTrue, Done
  <1> QED
    BY <1>1, <1>2, <1>3, PTL DEF Spec, OutcomeKept

-----------------------------------------------------------------------------
(* What the page knows of the record: what it shows and what its requests were *)
(* answered.  Of two things known, the newer one is at least as far.           *)
Known == {Record, shown, Nothing, Failure} \cup {req[s].reply : s \in Slot}
AsFar(a, b) ==
  a.version <= b.version => /\ a.status \in Done => b.status \in Done
                            /\ a.status = "notified" => b.status = "notified"
KnownInOrder == \A a, b \in Known : AsFar(a, b)
StepsInv == PageInv /\ JobsTrue /\ KnownInOrder

LEMMA KnownVersions ==
  ASSUME PageInv, JobsTrue
  PROVE  \A a \in Known : a.version \in Nat /\ a.version <= rec.version
  <1>1. rec.version \in Nat /\ Record.version = rec.version
    BY RecordType
  <1>2. shown.version \in Nat /\ shown.version <= rec.version
    BY DEF PageInv, TypeOK, RepliesFresh, Snapshot, Nothing
  <1>3. \A s \in Slot : req[s].reply.version \in Nat /\ req[s].reply.version <= rec.version
    BY DEF PageInv, TypeOK, RepliesFresh, Snapshot, Nothing, Failure
  <1> QED
    BY <1>1, <1>2, <1>3 DEF Known, Nothing, Failure

LEMMA KnownInitially == Init => StepsInv
  <1> SUFFICES ASSUME Init PROVE KnownInOrder
    BY InitInv, JobsInitially DEF StepsInv
  <1>1. \A a \in Known : a.status \notin Done
    BY DEF Init, Known, Record, Nothing, Failure, Free, Begun, Done
  <1> QED
    BY <1>1 DEF KnownInOrder, AsFar, Done

(* A request learns what the record is, or nothing; the page what a request    *)
(* knows.                                                                      *)
LEMMA NothingNew ==
  ASSUME StepsInv, [Next]_vars PROVE Known' \subseteq Known \cup {Record'}
  <1>r. /\ req \in [Slot -> Request] /\ Free.reply = Nothing
        /\ Record' = [status |-> rec'.status, version |-> rec'.version]
        /\ \A s \in Slot : req[s] \in Request
    BY DEF StepsInv, PageInv, TypeOK, Request, Free, Begun, Record
  <1> SUFFICES /\ shown' \in Known
               /\ \A s \in Slot : req'[s].reply \in Known \cup {Record'}
    BY DEF Known
  <1>0. shown \in Known /\ Record \in Known /\ Nothing \in Known /\ Failure \in Known
        /\ \A s \in Slot : req[s].reply \in Known
    BY DEF Known
  <1>1. ASSUME NEW kind, Run(kind)
        PROVE  \A s \in Slot : req'[s].reply \in Known
    <2>1. \A s \in Slot : Superseded(s).reply = req[s].reply
      BY <1>r DEF Superseded, Outdated, Cancelled, Request
    <2>2. Begun(kind, TRUE).reply = Nothing
      BY DEF Begun
    <2>3. PICK q \in Slot : req' = [s \in Slot |-> IF s = q THEN Begun(kind, TRUE)
                                                         ELSE Superseded(s)]
      BY <1>1 DEF Run
    <2>4. \A s \in Slot : req'[s] = IF s = q THEN Begun(kind, TRUE) ELSE Superseded(s)
      BY <2>3
    <2> QED
      BY <1>0, <2>1, <2>2, <2>4
  <1>2. CASE Open \/ Poll \/ Refresh \/ StartShare
    <2>1. shown' \in Known
      BY <1>0, <1>2 DEF Open, Poll, Refresh, StartShare, viewVars
    <2> QED
      BY <1>1, <1>2, <2>1 DEF Open, Poll, Refresh, StartShare
  <1>3. CASE Leave
    <2>1. ASSUME NEW s \in Slot PROVE req'[s].reply \in Known
      <3>1. [Outdated(req[s]) EXCEPT !.cancelled = TRUE, !.orphan = TRUE].reply = req[s].reply
        BY <1>r DEF Outdated, Request
      <3> QED
        BY <1>0, <1>3, <1>r, <3>1 DEF Leave
    <2> QED
      BY <1>0, <1>3, <2>1 DEF Leave, viewVars
  <1>4. ASSUME NEW s \in Slot, NEW r, req' = [req EXCEPT ![s] = r], r.reply \in Known
        PROVE  \A q \in Slot : req'[q].reply \in Known
    BY <1>0, <1>r, <1>4
  <1>5. ASSUME NEW s \in Slot, Expire(s) \/ Handle(s) \/ Reload(s) \/ Lose(s)
        PROVE  shown' \in Known /\ \A q \in Slot : req'[q].reply \in Known
    <2>1. shown' = shown
      BY <1>5 DEF Expire, Handle, Reload, Lose, viewVars
    <2>2. CASE Expire(s)
      <3> DEFINE r == [req[s] EXCEPT !.late = TRUE, !.cancelled = TRUE]
      <3>1. req' = [req EXCEPT ![s] = r] /\ r.reply = req[s].reply
        BY <1>r, <2>2 DEF Expire, Request
      <3> HIDE DEF r
      <3> QED
        BY <1>0, <1>4, <2>1, <3>1
    <2>3. CASE Handle(s) \/ Reload(s)
      <3> DEFINE r == [req[s] EXCEPT !.reply = Record]
      <3>1. req' = [req EXCEPT ![s] = r] /\ r.reply = Record
        BY <1>r, <2>3 DEF Handle, Reload, Request
      <3> HIDE DEF r
      <3> QED
        BY <1>0, <1>4, <2>1, <3>1
    <2>4. CASE Lose(s)
      <3>1. PICK lost \in BOOLEAN :
              req' = [req EXCEPT ![s].lost = lost,
                                 ![s].reply = IF lost THEN Nothing ELSE Failure]
        BY <2>4 DEF Lose
      <3> DEFINE r == [req[s] EXCEPT !.lost = lost,
                                     !.reply = IF lost THEN Nothing ELSE Failure]
      <3>2. r.reply \in {Nothing, Failure}
        BY <1>r DEF Request
      <3>3. req' = [req EXCEPT ![s] = r]
        BY <3>1
      <3> HIDE DEF r
      <3> QED
        BY <1>0, <1>4, <2>1, <3>2, <3>3
    <2> QED
      BY <1>5, <2>2, <2>3, <2>4
  <1>6. ASSUME NEW s \in Slot, Settle(s)
        PROVE  shown' \in Known /\ \A q \in Slot : req'[q].reply \in Known
    <2>1. req' = [req EXCEPT ![s] = Free] /\ shown' \in {req[s].reply, shown}
      BY <1>6 DEF Settle
    <2> QED
      BY <1>0, <1>4, <1>r, <2>1
  <1>7. CASE UNCHANGED <<shown, req>>
    BY <1>0, <1>7
  <1>8. CASE \/ HandleStray \/ LeaseEnds \/ UNCHANGED vars
             \/ \E w \in Worker : Deliver(w) \/ Work(w) \/ JobFails(w) \/ Stop(w)
    BY <1>7, <1>8 DEF HandleStray, LeaseEnds, Deliver, Work, Uploaded, Notified, Release,
                      JobFails, Stop, WorkerStep, viewVars, vars
  <1> QED
    BY <1>2, <1>3, <1>5, <1>6, <1>8 DEF Next

LEMMA StepsKept == StepsInv /\ [Next]_vars => StepsInv'
  <1> SUFFICES ASSUME StepsInv, [Next]_vars PROVE KnownInOrder'
    BY NextKeepsInv, NextOnwards DEF StepsInv
  <1>1. /\ Known' \subseteq Known \cup {Record'} /\ Onwards /\ JobsTrue'
        /\ PageInv /\ JobsTrue /\ KnownInOrder
    BY NothingNew, NextOnwards DEF StepsInv
  <1>2. /\ Record = [status |-> rec.status, version |-> rec.version] /\ Record \in Known
        /\ Record' = [status |-> rec'.status, version |-> rec'.version]
    BY DEF Record, Known
  <1>3. rec.version \in Nat /\ \A a \in Known : a.version \in Nat /\ a.version <= rec.version
    BY <1>1, KnownVersions, RecordType
  <1>4. CASE rec'.version = rec.version
    <2>1. Record' = Record
      BY <1>1, <1>2, <1>4 DEF Onwards
    <2>2. Known' \subseteq Known
      BY <1>1, <1>2, <2>1
    <2> QED
      BY <1>1, <2>2 DEF KnownInOrder
  <1>5. CASE rec'.version = rec.version + 1
    <2>1. \A a \in Known : AsFar(a, Record')
      <3>1. rec.status \in Done => rec'.status \in Done
        BY <1>1 DEF Onwards, JobsTrue
      <3>2. \A a \in Known : AsFar(a, Record)
        BY <1>1, <1>2 DEF KnownInOrder
      <3> QED
        BY <1>1, <1>2, <1>3, <3>1, <3>2 DEF AsFar, Onwards
    <2>2. \A a \in Known : AsFar(Record', a)
      BY <1>2, <1>3, <1>5 DEF AsFar
    <2>3. AsFar(Record', Record')
      BY DEF AsFar
    <2>4. \A a, b \in Known \cup {Record'} : AsFar(a, b)
      BY <1>1, <2>1, <2>2, <2>3 DEF KnownInOrder
    <2> QED
      BY <1>1, <2>4 DEF KnownInOrder
  <1> QED
    BY <1>1, <1>4, <1>5 DEF Onwards

LEMMA StepForward ==
  ASSUME StepsInv, [Next]_vars, page = "open", page' = "open"
  PROVE  (UploadDone => UploadDone') /\ (NotifyDone => NotifyDone')
  <1>1. CASE UNCHANGED shown
    BY <1>1 DEF UploadDone, NotifyDone
  <1>2. ASSUME NEW s \in Slot, Settle(s), Applies(req[s])
        PROVE  (UploadDone => UploadDone') /\ (NotifyDone => NotifyDone')
    <2>1. shown' = req[s].reply
      BY <1>2 DEF Settle
    <2>2. shown.version <= req[s].reply.version
      BY <1>2 DEF Applies, StepsInv, PageInv, RepliesFresh
    <2>3. AsFar(shown, req[s].reply)
      BY DEF StepsInv, KnownInOrder, Known
    <2> QED
      BY <2>1, <2>2, <2>3 DEF AsFar, UploadDone, NotifyDone, Done
  <1>3. \/ UNCHANGED shown
        \/ \E s \in Slot : Settle(s) /\ Applies(req[s])
    BY DEF Next, Open, Leave, Poll, Refresh, StartShare, Expire, Settle, Handle, Reload, Lose,
           HandleStray, Deliver, Work, Uploaded, Notified, Release, JobFails, Stop, LeaseEnds,
           WorkerStep, viewVars, vars
  <1> QED
    BY <1>1, <1>2, <1>3

(* share-controller and ShareRequestCoordinator: while the page stays open, a  *)
(* step of the upload that it ticked off is never taken back, whatever order   *)
(* answers come in and whatever the workers do, for any number of each.        *)
THEOREM StepsAlwaysForward == Spec => StepsForward
  <1>1. StepsInv /\ [Next]_vars =>
          [ page = "open" /\ page' = "open"
              => (UploadDone => UploadDone') /\ (NotifyDone => NotifyDone') ]_vars
    BY StepForward
  <1> QED
    BY <1>1, KnownInitially, StepsKept, PTL DEF Spec, StepsForward
=============================================================================
