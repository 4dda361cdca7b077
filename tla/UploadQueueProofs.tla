------------------------- MODULE UploadQueueProofs ---------------------------
(* For any number of rows, paths, slots, retries and troubles: the queue keeps *)
(* exactly the sources it needs, its batches can be completed, no file is      *)
(* replaced but in the version the user agreed to replace, and no slot is idle.*)
EXTENDS UploadQueue, FiniteSetTheorems, WellFoundedInduction, TLAPS

States == Busy \cup Finished \cup {"new", "gone", "paused", "needs-decision"}
AnyRow == [st : States, path : Path \cup {"none"}, batch : SUBSET Key, dup : BOOLEAN,
           target : {"none", "available", "directory", "conflict"}, seen : Content,
           overwrite : BOOLEAN, session : {"none", "open", "complete"},
           retries : 0..MaxRetries, eligible : BOOLEAN]
AnyRunner == [pc : {"idle", "status", "create", "put", "reconcile", "complete", "deciding",
                    "sleep", "recheck"}, aborted : BOOLEAN]
AnySession == [st : {"none", "open", "uploaded", "finalizing", "complete", "conflict",
                     "cancelled", "expired"},
               path : Path \cup {"none"}, want : Content, known : BOOLEAN]

(* What a live runner says of its row.                                         *)
Agree(r, n) ==
  n.pc # "idle" =>
    IF n.aborted THEN n.pc \in Deaf /\ r.st \in {"paused", "queued", "gone"}
    ELSE r.st = CASE n.pc = "sleep" -> "retrying"
                  [] n.pc = "recheck" -> "checking"
                  [] OTHER -> "uploading"

(* A row was agreed to replace what it says it was shown, ...                  *)
Agreed(r, a) == r.overwrite => a = r.seen
(* ... and its session wants what was agreed then: once a session is known,    *)
(* nobody is asked again.                                                      *)
Unasked(r, n) ==
  r.session # "none" => r.st \notin {"new", "needs-decision", "checking"} /\ n.pc \notin Deaf
Wanted(r, a, v) ==
  /\ v.want # Absent => a = v.want
  /\ ~v.known => v.want = Absent
  /\ v.known => r.session # "none" \/ r.st = "gone"

RowOK(r, n, a, v) ==
  /\ r.st \notin {"new", "gone"} => r.path \in Path
  /\ Agree(r, n) /\ Agreed(r, a) /\ Unasked(r, n) /\ Wanted(r, a, v)

(* The rows of a check on its way are checked by nobody else.                  *)
ChecksApart(it, rn, ch) ==
  \A K \in ch : \A k \in K :
    \/ it[k].st = "gone"
    \/ /\ it[k].st = "checking" /\ rn[k].pc = "idle"
       /\ \A L \in ch : k \in L => L = K

NewLast(it) == \E n \in 0..Keys : \A k \in Key : it[k].st = "new" <=> k > n

Needed(r) == r.st \notin {"new", "gone", "complete", "skipped"}
Sources(it, hd) == hd \subseteq Key /\ \A k \in Key : k \in hd <=> Needed(it[k])
Waiting(it, bs) ==
  \A B \in bs : /\ \A k \in B : it[k].st \notin {"gone", "skipped"}
                /\ \E k \in B : it[k].st # "complete"

Types(it, rn, ch, bs, ap, sv, fl) ==
  /\ it \in [Key -> AnyRow] /\ rn \in [Key -> AnyRunner]
  /\ ch \subseteq SUBSET Key /\ bs \subseteq SUBSET Key
  /\ ap \in [Key -> Content] /\ sv \in [Key -> AnySession] /\ fl \in [Path -> Content]

InvOf(it, rn, ch, hd, bs, ap, sv, fl) ==
  /\ Types(it, rn, ch, bs, ap, sv, fl)
  /\ \A k \in Key : RowOK(it[k], rn[k], ap[k], sv[k])
  /\ ChecksApart(it, rn, ch) /\ NewLast(it) /\ Sources(it, hd) /\ Waiting(it, bs)

(* The invariant, and what it must be of the rows and runners a handler leaves *)
(* to schedule().                                                              *)
QueueIInv == InvOf(item, runner, checks, held, batches, approved, srv, file)
Leaves(it, rn) == InvOf(it, rn, checks', held', batches', approved', srv', file')

-----------------------------------------------------------------------------
LEMMA InvImplies == QueueIInv => SourcesHeld /\ BatchesWait
BY DEF QueueIInv, InvOf, Sources, Needed, SourcesHeld, Waiting, BatchesWait

LEMMA BlankRow ==
  ASSUME NEW s \in States PROVE Blank(s) \in AnyRow
BY QueueAssumption DEF Blank, AnyRow, Content, Absent, Folder

LEMMA IdleRunner == Idle \in AnyRunner /\ Idle.pc = "idle"
BY DEF Idle, AnyRunner

LEMMA Initially == Init => QueueIInv
<1> SUFFICES ASSUME Init PROVE QueueIInv
  OBVIOUS
<1> USE DEF Init
<1>1. Types(item, runner, checks, batches, approved, srv, file)
  <2>1. 0 \in Content /\ Other \in Content
    BY QueueAssumption DEF Content, Folder, Other
  <2> QED BY <2>1, BlankRow, IdleRunner DEF Types, States, AnySession, Absent, Unopened
<1>2. \A k \in Key : RowOK(item[k], runner[k], approved[k], srv[k])
  BY DEF RowOK, Agree, Agreed, Unasked, Wanted, Blank, Idle, Absent, Unopened
<1>3. NewLast(item)
  <2>1. 0 \in 0..Keys /\ \A k \in Key : item[k].st = "new" /\ k > 0
    BY QueueAssumption DEF Blank, Key
  <2> QED BY <2>1 DEF NewLast
<1>4. ChecksApart(item, runner, checks) /\ Sources(item, held) /\ Waiting(item, batches)
  BY DEF ChecksApart, Sources, Waiting, Needed, Blank
<1> QED BY <1>1, <1>2, <1>3, <1>4 DEF QueueIInv, InvOf

-----------------------------------------------------------------------------
(* schedule(): it only starts queued rows nobody works on.                     *)

LEMMA FirstRequestRunner ==
  ASSUME NEW r \in AnyRow
  PROVE  /\ FirstRequest(r) \in AnyRunner /\ ~FirstRequest(r).aborted
         /\ FirstRequest(r).pc = IF r.session = "none" THEN "create" ELSE "status"
BY DEF FirstRequest, AnyRunner

LEMMA WithState ==
  ASSUME NEW r \in AnyRow, NEW s \in States
  PROVE  /\ [r EXCEPT !.st = s] \in AnyRow /\ [r EXCEPT !.st = s].st = s
         /\ [r EXCEPT !.st = s].path = r.path /\ [r EXCEPT !.st = s].session = r.session
         /\ [r EXCEPT !.st = s].overwrite = r.overwrite /\ [r EXCEPT !.st = s].seen = r.seen
BY DEF AnyRow

LEMMA ScheduleKeeps ==
  ASSUME NEW it, NEW rn, NEW paused, Leaves(it, rn),
         Schedule(it, rn, paused) \/ Unscheduled(it, rn)
  PROVE  QueueIInv'
<1>1. CASE Unscheduled(it, rn)
  BY <1>1 DEF Unscheduled, Leaves, QueueIInv
<1>2. CASE Schedule(it, rn, paused)
  <2> DEFINE started == NextRunnable(it, rn, paused)
  <2>1. it \in [Key -> AnyRow] /\ rn \in [Key -> AnyRunner]
    BY DEF Leaves, InvOf, Types
  <2>2. \A k \in Key : k \in started => it[k].st = "queued" /\ rn[k].pc = "idle"
    BY DEF NextRunnable, Live
  <2>3. \A k \in Key : k \notin started => item'[k] = it[k] /\ runner'[k] = rn[k]
    BY <1>2 DEF Schedule
  <2>4. ASSUME NEW k \in Key, k \in started
        PROVE  /\ item'[k] = [it[k] EXCEPT !.st = "uploading"]
               /\ runner'[k] = FirstRequest(it[k])
    BY <1>2, <2>4 DEF Schedule
  <2> HIDE DEF started
  <2>5. ASSUME NEW k \in Key, k \in started
        PROVE  /\ item'[k] \in AnyRow /\ item'[k].st = "uploading"
               /\ item'[k].path = it[k].path /\ item'[k].session = it[k].session
               /\ item'[k].overwrite = it[k].overwrite /\ item'[k].seen = it[k].seen
    <3>1. "uploading" \in States /\ it[k] \in AnyRow
      BY <2>1 DEF States, Busy
    <3>2. item'[k] = [it[k] EXCEPT !.st = "uploading"]
      BY <2>4, <2>5
    <3> QED BY <3>1, <3>2, WithState
  <2>6. ASSUME NEW k \in Key, k \in started
        PROVE  /\ runner'[k] \in AnyRunner /\ ~runner'[k].aborted
               /\ runner'[k].pc = IF it[k].session = "none" THEN "create" ELSE "status"
    <3>1. runner'[k] = FirstRequest(it[k]) /\ it[k] \in AnyRow
      BY <2>1, <2>4, <2>6
    <3> QED BY <3>1, FirstRequestRunner
  <2>7. item' \in [Key -> AnyRow] /\ runner' \in [Key -> AnyRunner]
    <3>1. item' = [k \in Key |-> item'[k]] /\ runner' = [k \in Key |-> runner'[k]]
      BY <1>2 DEF Schedule
    <3>2. \A k \in Key : item'[k] \in AnyRow /\ runner'[k] \in AnyRunner
      BY <2>1, <2>3, <2>5, <2>6
    <3> QED BY <3>1, <3>2
  <2>8. ASSUME NEW k \in Key PROVE RowOK(item'[k], runner'[k], approved'[k], srv'[k])
    <3>1. RowOK(it[k], rn[k], approved'[k], srv'[k])
      BY DEF Leaves, InvOf
    <3>2. CASE k \in started
      <4>1. item'[k].path \in Path
        BY <2>2, <2>5, <3>1, <3>2 DEF RowOK
      <4>2. Agree(item'[k], runner'[k])
        BY <2>5, <2>6, <3>2 DEF Agree
      <4>3. Agreed(item'[k], approved'[k]) /\ Wanted(item'[k], approved'[k], srv'[k])
        BY <2>2, <2>5, <3>1, <3>2 DEF RowOK, Agreed, Wanted
      <4>4. Unasked(item'[k], runner'[k])
        BY <2>2, <2>5, <2>6, <3>1, <3>2 DEF Unasked, Deaf
      <4> QED BY <4>1, <4>2, <4>3, <4>4 DEF RowOK
    <3>3. CASE k \notin started
      BY <2>3, <3>1, <3>3
    <3> QED BY <3>2, <3>3
  <2>9. \A k \in Key : item'[k].st = it[k].st \/ (item'[k].st = "uploading" /\ it[k].st = "queued")
    BY <2>2, <2>3, <2>5
  <2>10. ChecksApart(item', runner', checks')
    <3>1. ChecksApart(it, rn, checks') /\ checks' \subseteq SUBSET Key
      BY DEF Leaves, InvOf, Types
    <3>2. \A k \in Key : it[k].st \in {"gone", "checking"} => item'[k] = it[k] /\ runner'[k] = rn[k]
      BY <2>2, <2>3
    <3> QED BY <3>1, <3>2 DEF ChecksApart
  <2>11. NewLast(item') /\ Sources(item', held') /\ Waiting(item', batches')
    BY <2>9 DEF Leaves, InvOf, Types, NewLast, Sources, Needed, Waiting
  <2> QED BY <2>7, <2>8, <2>10, <2>11 DEF Leaves, QueueIInv, InvOf, Types
<1> QED BY <1>1, <1>2

-----------------------------------------------------------------------------
(* A step of one runner: its row stays one whose source is kept, or stays as   *)
(* it is.                                                                      *)

Others == UNCHANGED <<checks, held, batches, approved, file>>
Stays(k, r) ==
  \/ r.st = item[k].st
  \/ Needed(r) /\ Needed(item[k])

LEMMA OfRow ==
  ASSUME QueueIInv, NEW k \in Key
  PROVE  /\ item[k] \in AnyRow /\ runner[k] \in AnyRunner /\ srv[k] \in AnySession
         /\ approved[k] \in Content
         /\ RowOK(item[k], runner[k], approved[k], srv[k])
         /\ item = With(k, item[k]) /\ srv = [srv EXCEPT ![k] = srv[k]]
BY DEF QueueIInv, InvOf, Types, With

LEMMA StepKeeps ==
  ASSUME QueueIInv, NEW k \in Key, NEW r \in AnyRow, NEW n \in AnyRunner, NEW v \in AnySession,
         RowOK(r, n, approved[k], v), runner[k].pc # "idle", Stays(k, r),
         Others, srv' = [srv EXCEPT ![k] = v]
  PROVE  Leaves(With(k, r), [runner EXCEPT ![k] = n])
<1> DEFINE it == With(k, r)
           rn == [runner EXCEPT ![k] = n]
<1>1. /\ it[k] = r /\ rn[k] = n /\ srv'[k] = v
      /\ \A j \in Key : j # k => it[j] = item[j] /\ rn[j] = runner[j] /\ srv'[j] = srv[j]
  BY DEF QueueIInv, InvOf, Types, With
<1>2. it \in [Key -> AnyRow] /\ rn \in [Key -> AnyRunner] /\ srv' \in [Key -> AnySession]
  BY DEF QueueIInv, InvOf, Types, With
<1> HIDE DEF it, rn
<1>3. Types(it, rn, checks', batches', approved', srv', file')
  BY <1>2 DEF QueueIInv, InvOf, Types, Others
<1>4. \A j \in Key : RowOK(it[j], rn[j], approved'[j], srv'[j])
  BY <1>1 DEF QueueIInv, InvOf, Others
<1>5. item[k].st # "new" /\ (item[k].st # "gone" => \A K \in checks : k \notin K)
  <2>1. item[k].st # "new"
    BY OfRow DEF RowOK, Agree
  <2>2. item[k].st # "gone" => \A K \in checks : k \notin K
    BY DEF QueueIInv, InvOf, ChecksApart
  <2> QED BY <2>1, <2>2
<1>6. ChecksApart(it, rn, checks')
  <2>1. checks' = checks /\ checks \subseteq SUBSET Key /\ ChecksApart(item, runner, checks)
    BY DEF QueueIInv, InvOf, Types, Others
  <2>2. item[k].st = "gone" => it[k].st = "gone"
    BY <1>1 DEF Stays, Needed
  <2> QED BY <1>1, <1>5, <2>1, <2>2 DEF ChecksApart
<1>7. NewLast(it)
  <2>1. \A j \in Key : it[j].st = "new" <=> item[j].st = "new"
    BY <1>1, <1>5 DEF Stays, Needed
  <2> QED BY <2>1 DEF QueueIInv, InvOf, NewLast
<1>8. Sources(it, held') /\ Waiting(it, batches')
  <2>1. \A j \in Key : it[j].st = item[j].st \/ (Needed(it[j]) /\ Needed(item[j]))
    BY <1>1 DEF Stays
  <2> QED BY <2>1 DEF QueueIInv, InvOf, Types, Sources, Waiting, Needed, Others
<1>9. Leaves(it, rn)
  BY <1>3, <1>4, <1>6, <1>7, <1>8 DEF Leaves, InvOf
<1> QED BY <1>9 DEF it, rn

LEMMA RunnerMoves ==
  ASSUME QueueIInv, NEW k \in Key, NEW r \in AnyRow, NEW n \in AnyRunner, NEW v \in AnySession,
         RowOK(r, n, approved[k], v), runner[k].pc # "idle", Stays(k, r),
         Others, srv' = [srv EXCEPT ![k] = v],
         NEW paused, \/ Schedule(With(k, r), [runner EXCEPT ![k] = n], paused)
                     \/ Unscheduled(With(k, r), [runner EXCEPT ![k] = n])
  PROVE  QueueIInv'
<1> DEFINE it == With(k, r)
           rn == [runner EXCEPT ![k] = n]
<1>1. Leaves(it, rn)
  BY StepKeeps
<1>2. Schedule(it, rn, paused) \/ Unscheduled(it, rn)
  OBVIOUS
<1> HIDE DEF it, rn
<1> QED BY <1>1, <1>2, ScheduleKeeps

LEMMA EndsKeeps ==
  ASSUME QueueIInv, NEW k \in Key, NEW r \in AnyRow, NEW v \in AnySession,
         RowOK(r, Idle, approved[k], v), runner[k].pc # "idle", Stays(k, r),
         Others, srv' = [srv EXCEPT ![k] = v], Ends(With(k, r), k)
  PROVE  QueueIInv'
BY RunnerMoves, IdleRunner DEF Ends

PCs == {"idle", "status", "create", "put", "reconcile", "complete", "deciding", "sleep", "recheck"}

LEMMA ContinueKeeps ==
  ASSUME QueueIInv, NEW k \in Key, NEW r \in AnyRow, NEW v \in AnySession, NEW pc \in PCs,
         RowOK(r, Idle, approved[k], v),
         ~runner[k].aborted => RowOK(r, [runner[k] EXCEPT !.pc = pc], approved[k], v),
         runner[k].pc # "idle", Stays(k, r), Others, srv' = [srv EXCEPT ![k] = v],
         Continue(k, With(k, r), pc)
  PROVE  QueueIInv'
<1>1. CASE runner[k].aborted
  BY <1>1, EndsKeeps DEF Continue, Stopped
<1>2. CASE ~runner[k].aborted
  <2> DEFINE n == [runner[k] EXCEPT !.pc = pc]
  <2>1. n \in AnyRunner
    BY OfRow DEF AnyRunner, PCs
  <2>2. At(k, pc) = [runner EXCEPT ![k] = n]
    BY DEF At
  <2>3. Unscheduled(With(k, r), [runner EXCEPT ![k] = n])
    BY <1>2, <2>2 DEF Continue, Stopped
  <2>4. RowOK(r, n, approved[k], v)
    BY <1>2
  <2> HIDE DEF n
  <2> QED BY <2>1, <2>3, <2>4, RunnerMoves
<1> QED BY <1>1, <1>2

-----------------------------------------------------------------------------
(* The answers to a runner *)

LEMMA IdleOK ==
  ASSUME QueueIInv, NEW k \in Key PROVE RowOK(item[k], Idle, approved[k], srv[k])
BY OfRow DEF RowOK, Agree, Unasked, Idle, Deaf

LEMMA LiveRow ==
  ASSUME QueueIInv, NEW k \in Key, runner[k].pc # "idle"
  PROVE  /\ item[k].st # "new"
         /\ runner[k].pc \notin Deaf => ~runner[k].aborted
         /\ ~runner[k].aborted =>
              /\ item[k].st \in {"uploading", "retrying", "checking"} /\ Needed(item[k])
              /\ item[k].path \in Path
              /\ runner[k].pc \notin {"sleep", "recheck"} => item[k].st = "uploading"
<1>1. RowOK(item[k], runner[k], approved[k], srv[k])
  BY OfRow
<1> QED BY <1>1 DEF RowOK, Agree, Needed, Deaf

(* v is the session a step of runner k leaves: the one of before, or one that  *)
(* was opened although the runner got no answer.                               *)
Leftover(k, v) ==
  v \in AnySession /\ srv' = [srv EXCEPT ![k] = v] /\ (v = srv[k] \/ (~v.known /\ v.want = Absent))

LEMMA LeftoverSame ==
  ASSUME QueueIInv, NEW k \in Key, UNCHANGED srv PROVE Leftover(k, srv[k])
BY OfRow DEF Leftover

LEMMA LeftoverOK ==
  ASSUME QueueIInv, NEW k \in Key, NEW v, Leftover(k, v)
  PROVE  RowOK(item[k], runner[k], approved[k], v) /\ RowOK(item[k], Idle, approved[k], v)
<1>1. RowOK(item[k], runner[k], approved[k], srv[k]) /\ RowOK(item[k], Idle, approved[k], srv[k])
  BY OfRow, IdleOK
<1> QED BY <1>1 DEF RowOK, Wanted, Leftover

LEMMA EndsLeft ==
  ASSUME QueueIInv, NEW k \in Key, runner[k].pc # "idle", Others, NEW v, Leftover(k, v),
         Ends(item, k)
  PROVE  QueueIInv'
<1>1. item[k] \in AnyRow /\ item = With(k, item[k])
  BY OfRow
<1>2. Stays(k, item[k]) /\ RowOK(item[k], Idle, approved[k], v)
  BY LeftoverOK DEF Stays
<1>3. Ends(With(k, item[k]), k)
  BY <1>1
<1> QED BY <1>1, <1>2, <1>3, EndsKeeps DEF Leftover

LEMMA EndsAsIs ==
  ASSUME QueueIInv, NEW k \in Key, runner[k].pc # "idle", Others, UNCHANGED srv, Ends(item, k)
  PROVE  QueueIInv'
BY LeftoverSame, EndsLeft

LEMMA FailedRow ==
  ASSUME NEW r \in AnyRow, NEW e \in BOOLEAN
  PROVE  /\ Failed(r, e) \in AnyRow /\ Failed(r, e).st = "failed"
         /\ Failed(r, e).path = r.path /\ Failed(r, e).session = r.session
         /\ Failed(r, e).overwrite = r.overwrite /\ Failed(r, e).seen = r.seen
<1>1. "failed" \in States /\ 0 \in 0..MaxRetries
  BY QueueAssumption DEF States, Finished
<1> QED BY <1>1 DEF Failed, AnyRow

(* A runner that is not told to stop gives its row up.                         *)
LEMMA FailsKeeps ==
  ASSUME QueueIInv, NEW k \in Key, NEW e \in BOOLEAN, runner[k].pc # "idle", ~runner[k].aborted,
         Others, NEW v, Leftover(k, v), Ends(With(k, Failed(item[k], e)), k)
  PROVE  QueueIInv'
<1> DEFINE r == Failed(item[k], e)
<1>1. item[k] \in AnyRow /\ v \in AnySession
      /\ RowOK(item[k], Idle, approved[k], v)
      /\ srv' = [srv EXCEPT ![k] = v]
  BY OfRow, LeftoverOK DEF Leftover
<1>2. /\ r \in AnyRow /\ r.st = "failed" /\ r.path = item[k].path
      /\ r.session = item[k].session /\ r.overwrite = item[k].overwrite /\ r.seen = item[k].seen
  BY <1>1, FailedRow
<1>3. Needed(item[k]) /\ item[k].path \in Path /\ item[k].st # "gone"
  BY LiveRow DEF Needed
<1>4. Ends(With(k, r), k)
  OBVIOUS
<1> HIDE DEF r
<1>5. RowOK(r, Idle, approved[k], v) /\ Stays(k, r)
  BY <1>1, <1>2, <1>3 DEF RowOK, Agree, Agreed, Unasked, Wanted, Idle, Deaf, Stays, Needed
<1> QED BY <1>1, <1>2, <1>4, <1>5, EndsKeeps

LEMMA PermanentKeeps ==
  ASSUME QueueIInv, NEW k \in Key, runner[k].pc # "idle", Others, UNCHANGED srv, Permanent(k)
  PROVE  QueueIInv'
<1>1. CASE runner[k].aborted
  BY <1>1, EndsAsIs DEF Permanent, Stopped
<1>2. CASE ~runner[k].aborted
  <2>1. Ends(With(k, Failed(item[k], FALSE)), k)
    BY <1>2 DEF Permanent, Stopped
  <2> QED BY <1>2, <2>1, LeftoverSame, FailsKeeps
<1> QED BY <1>1, <1>2

LEMMA TransientKeeps ==
  ASSUME QueueIInv, NEW k \in Key, runner[k].pc \notin {"idle", "recheck"}, Others,
         NEW v, Leftover(k, v), Transient(k)
  PROVE  QueueIInv'
<1>1. CASE runner[k].aborted
  BY <1>1, EndsLeft DEF Transient, Stopped
<1>2. CASE ~runner[k].aborted /\ ~(item[k].retries < MaxRetries)
  <2>1. Ends(With(k, Failed(item[k], TRUE)), k)
    BY <1>2 DEF Transient, Stopped
  <2> QED BY <1>2, <2>1, FailsKeeps
<1>3. CASE ~runner[k].aborted /\ item[k].retries < MaxRetries
  <2> DEFINE r == [item[k] EXCEPT !.st = "retrying", !.retries = @ + 1]
             n == [runner[k] EXCEPT !.pc = "sleep"]
  <2>1. item[k] \in AnyRow /\ runner[k] \in AnyRunner /\ v \in AnySession
        /\ RowOK(item[k], Idle, approved[k], v) /\ srv' = [srv EXCEPT ![k] = v]
    BY OfRow, LeftoverOK DEF Leftover
  <2>2. "retrying" \in States /\ item[k].retries + 1 \in 0..MaxRetries
    BY <1>3, <2>1, QueueAssumption DEF States, Busy, AnyRow
  <2>3. /\ r \in AnyRow /\ r.st = "retrying" /\ r.path = item[k].path
        /\ r.session = item[k].session /\ r.overwrite = item[k].overwrite /\ r.seen = item[k].seen
    BY <2>1, <2>2 DEF AnyRow
  <2>4. n \in AnyRunner /\ n.pc = "sleep" /\ ~n.aborted
    BY <1>3, <2>1 DEF AnyRunner
  <2>5. Needed(item[k]) /\ item[k].path \in Path /\ item[k].st # "gone"
    BY <1>3, LiveRow DEF Needed
  <2>6. Unscheduled(With(k, r), [runner EXCEPT ![k] = n])
    BY <1>3 DEF Transient, Stopped, At
  <2> HIDE DEF r, n
  <2>7. RowOK(r, n, approved[k], v) /\ Stays(k, r)
    BY <2>1, <2>3, <2>4, <2>5 DEF RowOK, Agree, Agreed, Unasked, Wanted, Deaf, Stays, Needed
  <2> QED BY <2>1, <2>3, <2>4, <2>6, <2>7, RunnerMoves
<1> QED BY <1>1, <1>2, <1>3

(* The runner goes on with its row as it is.                                   *)
Working == {"status", "put", "reconcile", "complete", "deciding"}
LEMMA GoesOn ==
  ASSUME QueueIInv, NEW k \in Key, runner[k].pc \in Working, NEW pc \in Working,
         NEW v \in AnySession, srv' = [srv EXCEPT ![k] = v],
         v.want = srv[k].want, v.known = srv[k].known,
         Others, Continue(k, item, pc)
  PROVE  QueueIInv'
<1>1. item[k] \in AnyRow /\ runner[k] \in AnyRunner /\ item = With(k, item[k])
      /\ RowOK(item[k], runner[k], approved[k], srv[k])
  BY OfRow
<1>2. pc \in PCs /\ runner[k].pc # "idle" /\ runner[k].pc \notin Deaf \cup {"sleep", "recheck"}
  BY DEF Working, PCs, Deaf
<1>3. ~runner[k].aborted /\ item[k].st = "uploading"
  BY <1>2, LiveRow
<1> DEFINE n == [runner[k] EXCEPT !.pc = pc]
<1>4. n.pc = pc /\ ~n.aborted
  BY <1>1, <1>3 DEF AnyRunner
<1> HIDE DEF n
<1>5. RowOK(item[k], n, approved[k], v) /\ RowOK(item[k], Idle, approved[k], v)
  BY <1>1, <1>3, <1>4 DEF RowOK, Agree, Agreed, Unasked, Wanted, Idle, Deaf, Working
<1>6. Continue(k, With(k, item[k]), pc) /\ Stays(k, item[k])
  BY <1>1 DEF Stays
<1> QED BY <1>1, <1>2, <1>5, <1>6, ContinueKeeps DEF n

LEMMA AnswerStatusKeeps == ASSUME QueueIInv, NEW k \in Key, AnswerStatus(k) PROVE QueueIInv'
<1>1. /\ runner[k].pc = "status" /\ Others /\ UNCHANGED srv
      /\ ~runner[k].aborted /\ item[k].st = "uploading"
  BY LiveRow DEF AnswerStatus, client, server, Others, Deaf
<1>2. CASE Permanent(k)
  BY <1>1, <1>2, PermanentKeeps
<1>3. ASSUME NEW x \in {"open", "complete"}, NEW pc \in {"complete", "put"},
             Continue(k, With(k, [item[k] EXCEPT !.session = x]), pc)
      PROVE  QueueIInv'
  <2> DEFINE r == [item[k] EXCEPT !.session = x]
             n == [runner[k] EXCEPT !.pc = pc]
  <2>1. item[k] \in AnyRow /\ runner[k] \in AnyRunner /\ srv[k] \in AnySession
        /\ RowOK(item[k], runner[k], approved[k], srv[k]) /\ srv' = [srv EXCEPT ![k] = srv[k]]
    BY <1>1, OfRow
  <2>2. /\ r \in AnyRow /\ r.st = "uploading" /\ r.path = item[k].path
        /\ r.session = x /\ r.overwrite = item[k].overwrite /\ r.seen = item[k].seen
    BY <1>1, <2>1 DEF AnyRow
  <2>3. n.pc = pc /\ ~n.aborted /\ pc \in PCs /\ runner[k].pc # "idle"
    BY <1>1, <2>1 DEF AnyRunner, PCs
  <2>4. Continue(k, With(k, r), pc)
    BY <1>3
  <2> HIDE DEF r, n
  <2>5. RowOK(r, n, approved[k], srv[k]) /\ RowOK(r, Idle, approved[k], srv[k]) /\ Stays(k, r)
    BY <1>1, <2>1, <2>2, <2>3 DEF RowOK, Agree, Agreed, Unasked, Wanted, Idle, Deaf, Stays
  <2> QED BY <1>1, <2>1, <2>2, <2>3, <2>4, <2>5, ContinueKeeps DEF n
<1> QED BY <1>2, <1>3 DEF AnswerStatus

LEMMA ChangedKeeps ==
  ASSUME QueueIInv, NEW k \in Key, runner[k].pc = "create", Others, UNCHANGED srv, Changed(k)
  PROVE  QueueIInv'
<1>1. CASE runner[k].aborted
  <2>1. Ends(item, k)
    BY <1>1 DEF Changed, Continue, Stopped
  <2> QED BY <2>1, EndsAsIs
<1>2. CASE ~runner[k].aborted
  <2> DEFINE r == TargetChanged(item[k])
             n == [runner[k] EXCEPT !.pc = "recheck"]
  <2>1. item[k] \in AnyRow /\ runner[k] \in AnyRunner /\ srv[k] \in AnySession
        /\ RowOK(item[k], runner[k], approved[k], srv[k]) /\ srv' = [srv EXCEPT ![k] = srv[k]]
    BY OfRow
  <2>2. item[k].st = "uploading"
    BY <1>2, LiveRow
  <2>3. "checking" \in States /\ Absent \in Content /\ 0 \in 0..MaxRetries
    BY QueueAssumption DEF States, Busy, Absent, Content, Folder
  <2>4. /\ r \in AnyRow /\ r.st = "checking" /\ r.path = item[k].path
        /\ r.session = item[k].session /\ ~r.overwrite
    BY <2>1, <2>3 DEF TargetChanged, AnyRow
  <2>5. n.pc = "recheck" /\ ~n.aborted /\ "recheck" \in PCs /\ runner[k].pc # "idle"
    BY <1>2, <2>1 DEF AnyRunner, PCs
  <2>6. Continue(k, With(k, r), "recheck")
    BY <1>2 DEF Changed, Stopped
  <2> HIDE DEF r, n
  <2>7. item[k].session = "none"
    BY <2>1 DEF RowOK, Unasked, Deaf
  <2>8. RowOK(r, n, approved[k], srv[k]) /\ RowOK(r, Idle, approved[k], srv[k]) /\ Stays(k, r)
    BY <2>1, <2>2, <2>4, <2>5, <2>7
       DEF RowOK, Agree, Agreed, Unasked, Wanted, Idle, Stays, Needed
  <2> QED BY <2>1, <2>4, <2>5, <2>6, <2>8, ContinueKeeps DEF n
<1> QED BY <1>1, <1>2

LEMMA SessionOpens ==
  ASSUME QueueIInv, NEW k \in Key, item[k].path \in Path
  PROVE  /\ Want(item[k]) \in Content
         /\ Want(item[k]) # Absent => item[k].overwrite /\ Want(item[k]) = item[k].seen
         /\ [st |-> "open", path |-> item[k].path, want |-> Want(item[k]),
             known |-> TRUE] \in AnySession
<1>1. item[k] \in AnyRow /\ item[k].seen \in Content /\ Absent \in Content
  BY OfRow, QueueAssumption DEF AnyRow, Absent, Content, Folder
<1>2. Want(item[k]) \in Content
  BY <1>1 DEF Want
<1>3. Want(item[k]) # Absent => item[k].overwrite /\ Want(item[k]) = item[k].seen
  BY DEF Want
<1> QED BY <1>2, <1>3 DEF AnySession

LEMMA AnswerCreateKeeps == ASSUME QueueIInv, NEW k \in Key, AnswerCreate(k) PROVE QueueIInv'
<1>0. runner[k].pc = "create" /\ runner[k].pc # "idle"
  BY DEF AnswerCreate
<1>1. CASE Changed(k) /\ UNCHANGED <<client, server>>
  BY <1>0, <1>1, ChangedKeeps DEF client, server, Others
<1>2. CASE /\ Present(k)
           /\ Continue(k, With(k, [item[k] EXCEPT !.session = "open"]), "put")
           /\ srv' = [srv EXCEPT ![k] = [st |-> "open", path |-> item[k].path,
                                         want |-> Want(item[k]), known |-> TRUE]]
           /\ UNCHANGED <<client, file, stray>>
  <2> DEFINE r == [item[k] EXCEPT !.session = "open"]
             n == [runner[k] EXCEPT !.pc = "put"]
             v == [st |-> "open", path |-> item[k].path, want |-> Want(item[k]), known |-> TRUE]
  <2>1. item[k] \in AnyRow /\ runner[k] \in AnyRunner
        /\ RowOK(item[k], runner[k], approved[k], srv[k])
    BY OfRow
  <2>2. /\ item[k].path \in Path /\ item[k].st \notin {"new", "gone"}
        /\ item[k].st \in {"uploading", "paused", "queued"}
        /\ ~runner[k].aborted => item[k].st = "uploading"
    BY <1>0, <1>2, <2>1 DEF Present, RowOK, Agree
  <2>3. /\ r \in AnyRow /\ r.st = item[k].st /\ r.path = item[k].path
        /\ r.session = "open" /\ r.overwrite = item[k].overwrite /\ r.seen = item[k].seen
    BY <2>1 DEF AnyRow
  <2>4. n.pc = "put" /\ n.aborted = runner[k].aborted /\ "put" \in PCs
    BY <2>1 DEF AnyRunner, PCs
  <2>5. v \in AnySession /\ v.st = "open" /\ v.known /\ v.want = Want(item[k])
        /\ (v.want # Absent => item[k].overwrite /\ v.want = item[k].seen)
    BY <2>2, SessionOpens
  <2>6. Continue(k, With(k, r), "put") /\ srv' = [srv EXCEPT ![k] = v]
    BY <1>2
  <2>7. Others
    BY <1>2 DEF client, Others
  <2> HIDE DEF r, n, v
  <2>8. Agreed(r, approved[k]) /\ Wanted(r, approved[k], v) /\ Stays(k, r)
    BY <2>1, <2>3, <2>5 DEF RowOK, Agreed, Wanted, Stays
  <2>9. RowOK(r, Idle, approved[k], v)
    BY <2>2, <2>3, <2>8 DEF RowOK, Agree, Unasked, Idle, Deaf
  <2>10. ~runner[k].aborted => RowOK(r, n, approved[k], v)
    BY <2>2, <2>3, <2>4, <2>8 DEF RowOK, Agree, Unasked, Deaf
  <2> QED BY <1>0, <2>3, <2>4, <2>5, <2>6, <2>7, <2>8, <2>9, <2>10, ContinueKeeps DEF n
<1>3. CASE ~Present(k) /\ CreatedTooLate(k)
  <2>1. item[k].st = "gone"
    BY <1>0, <1>3, LiveRow DEF Present
  <2>2. CASE UNCHANGED <<client, server>>
    BY <1>0, <1>3, <2>2, EndsAsIs DEF CreatedTooLate, client, server, Others
  <2>3. CASE /\ srv' = [srv EXCEPT ![k].st = "open", ![k].known = TRUE]
             /\ UNCHANGED <<checks, held, batches, approved, file>>
    <3> DEFINE v == [srv[k] EXCEPT !.st = "open", !.known = TRUE]
    <3>1. item[k] \in AnyRow /\ srv[k] \in AnySession /\ item = With(k, item[k])
          /\ RowOK(item[k], Idle, approved[k], srv[k])
      BY OfRow, IdleOK
    <3>2. v \in AnySession /\ v.known /\ v.want = srv[k].want /\ srv' = [srv EXCEPT ![k] = v]
      BY <2>3, <3>1 DEF AnySession
    <3> HIDE DEF v
    <3>3. RowOK(item[k], Idle, approved[k], v) /\ Stays(k, item[k])
      BY <2>1, <3>1, <3>2 DEF RowOK, Wanted, Stays
    <3>4. Ends(With(k, item[k]), k)
      BY <1>3, <3>1 DEF CreatedTooLate
    <3> QED BY <1>0, <2>3, <3>1, <3>2, <3>3, <3>4, EndsKeeps DEF Others
  <2> QED BY <1>3, <2>2, <2>3 DEF CreatedTooLate
<1> QED BY <1>1, <1>2, <1>3 DEF AnswerCreate

LEMMA SessionMoves ==
  ASSUME QueueIInv, NEW k \in Key, srv[k].st # "none",
         NEW s \in {"open", "uploaded", "finalizing", "complete", "conflict", "cancelled", "expired"}
  PROVE  LET v == [srv[k] EXCEPT !.st = s]
         IN /\ v \in AnySession /\ v.want = srv[k].want
            /\ v.known = srv[k].known
            /\ [srv EXCEPT ![k].st = s] = [srv EXCEPT ![k] = v]
<1>1. srv[k] \in AnySession
  BY OfRow
<1> QED BY <1>1 DEF AnySession

LEMMA AnswerPutKeeps == ASSUME QueueIInv, NEW k \in Key, AnswerPut(k) PROVE QueueIInv'
<1>0. /\ runner[k].pc = "put" /\ runner[k].pc \in Working /\ runner[k].pc # "idle" /\ Others
      /\ "complete" \in Working /\ "reconcile" \in Working
  BY DEF AnswerPut, client, Others, Working
<1>1. CASE srv[k].st = "open"
  <2> DEFINE v == [srv[k] EXCEPT !.st = "uploaded"]
  <2>1. /\ v \in AnySession /\ v.want = srv[k].want /\ v.known = srv[k].known
        /\ srv' = [srv EXCEPT ![k] = v]
    BY <1>1, SessionMoves DEF AnswerPut
  <2> HIDE DEF v
  <2> QED BY <1>0, <1>1, <2>1, GoesOn DEF AnswerPut
<1>2. CASE UNCHANGED srv /\ Permanent(k)
  BY <1>0, <1>2, PermanentKeeps
<1>3. CASE UNCHANGED srv /\ Continue(k, item, "reconcile")
  BY <1>0, <1>3, OfRow, GoesOn
<1> QED BY <1>1, <1>2, <1>3 DEF AnswerPut

LEMMA AnswerReconcileKeeps ==
  ASSUME QueueIInv, NEW k \in Key, AnswerReconcile(k) PROVE QueueIInv'
<1>1. runner[k].pc \in Working /\ Others /\ UNCHANGED srv
  BY DEF AnswerReconcile, client, server, Others, Working
<1>2. PICK pc \in {"put", "complete"} : Continue(k, item, pc)
  BY DEF AnswerReconcile
<1>3. pc \in Working
  BY DEF Working
<1> QED BY <1>1, <1>2, <1>3, OfRow, GoesOn

LEMMA CompletesKeeps ==
  ASSUME QueueIInv, NEW k \in Key, runner[k].pc \in {"complete", "deciding"},
         UNCHANGED <<checks, approved, srv, file>>, Completes(k)
  PROVE  QueueIInv'
<1> DEFINE r == Complete(item[k])
           it == With(k, r)
           rn == [runner EXCEPT ![k] = Idle]
<1>1. /\ item[k] \in AnyRow /\ srv[k] \in AnySession /\ runner[k].pc # "idle"
      /\ RowOK(item[k], Idle, approved[k], srv[k])
  BY OfRow, IdleOK
<1>2. item[k].st = "uploading"
  BY LiveRow DEF Deaf
<1>3. "complete" \in States /\ 0 \in 0..MaxRetries
  BY QueueAssumption DEF States, Finished
<1>4. /\ r \in AnyRow /\ r.st = "complete" /\ r.path = item[k].path
      /\ r.session = "complete" /\ r.overwrite = item[k].overwrite /\ r.seen = item[k].seen
  BY <1>1, <1>3 DEF Complete, AnyRow
<1>5. /\ Ends(it, k) /\ held' = held \ {k}
      /\ batches' = {B \in batches : \E j \in B : it[j].st # "complete"}
  BY DEF Completes, Kept
<1> HIDE DEF r
<1>6. RowOK(r, Idle, approved[k], srv[k])
  BY <1>1, <1>2, <1>4 DEF RowOK, Agree, Agreed, Unasked, Wanted, Idle, Deaf
<1>7. /\ it[k] = r /\ rn[k] = Idle
      /\ \A j \in Key : j # k => it[j] = item[j] /\ rn[j] = runner[j]
      /\ it \in [Key -> AnyRow] /\ rn \in [Key -> AnyRunner]
  BY <1>4, IdleRunner DEF QueueIInv, InvOf, Types, With
<1> HIDE DEF it, rn
<1>8. Types(it, rn, checks', batches', approved', srv', file')
  BY <1>5, <1>7 DEF QueueIInv, InvOf, Types
<1>9. \A j \in Key : RowOK(it[j], rn[j], approved'[j], srv'[j])
  BY <1>6, <1>7 DEF QueueIInv, InvOf
<1>10. ChecksApart(it, rn, checks')
  <2>1. \A K \in checks : k \notin K
    BY <1>2 DEF QueueIInv, InvOf, ChecksApart
  <2> QED BY <1>7, <2>1 DEF QueueIInv, InvOf, Types, ChecksApart
<1>11. NewLast(it)
  <2>1. \A j \in Key : it[j].st = "new" <=> item[j].st = "new"
    BY <1>2, <1>4, <1>7
  <2> QED BY <2>1 DEF QueueIInv, InvOf, NewLast
<1>12. Sources(it, held')
  BY <1>2, <1>4, <1>5, <1>7 DEF QueueIInv, InvOf, Sources, Needed
<1>13. Waiting(it, batches')
  BY <1>4, <1>5, <1>7 DEF QueueIInv, InvOf, Types, Waiting
<1>14. Leaves(it, rn)
  BY <1>8, <1>9, <1>10, <1>11, <1>12, <1>13 DEF Leaves, InvOf
<1>15. Schedule(it, rn, globallyPaused)
  BY <1>5 DEF Ends, rn
<1> QED BY <1>14, <1>15, ScheduleKeeps

LEMMA AnswerCompleteKeeps ==
  ASSUME QueueIInv, NEW k \in Key, AnswerComplete(k) PROVE QueueIInv'
<1>0. /\ runner[k].pc = "complete" /\ runner[k].pc \in Working /\ runner[k].pc # "idle"
      /\ UNCHANGED <<checks, approved, file>> /\ "deciding" \in Working
  BY DEF AnswerComplete, Working
<1>1. CASE srv[k].st = "uploaded"
  <2> DEFINE v == [srv[k] EXCEPT !.st = "finalizing"]
  <2>0. /\ Continue(k, item, "deciding") /\ srv' = [srv EXCEPT ![k].st = "finalizing"]
        /\ UNCHANGED <<held, batches>>
    BY <1>1 DEF AnswerComplete
  <2>1. /\ v \in AnySession /\ v.want = srv[k].want /\ v.known = srv[k].known
        /\ srv' = [srv EXCEPT ![k] = v]
    BY <1>1, <2>0, SessionMoves
  <2> HIDE DEF v
  <2> QED BY <1>0, <2>0, <2>1, GoesOn DEF Others
<1>2. CASE srv[k].st \in {"finalizing", "complete"}
  <2>1. Completes(k) /\ UNCHANGED srv
    BY <1>2 DEF AnswerComplete
  <2> QED BY <1>0, <2>1, CompletesKeeps
<1>3. CASE srv[k].st \notin {"uploaded", "finalizing", "complete"}
  <2>1. Permanent(k) /\ UNCHANGED <<held, batches, srv>>
    BY <1>3 DEF AnswerComplete
  <2> QED BY <1>0, <2>1, PermanentKeeps DEF Others
<1> QED BY <1>1, <1>2, <1>3

LEMMA AnswerDecidedKeeps == ASSUME QueueIInv, NEW k \in Key, AnswerDecided(k) PROVE QueueIInv'
<1>0. /\ runner[k].pc \in {"complete", "deciding"} /\ runner[k].pc # "idle"
      /\ UNCHANGED <<checks, approved, srv, file>>
  BY DEF AnswerDecided, server
<1>1. CASE Completes(k)
  BY <1>0, <1>1, CompletesKeeps
<1>2. CASE Permanent(k) /\ UNCHANGED <<held, batches>>
  BY <1>0, <1>2, PermanentKeeps DEF Others
<1> QED BY <1>1, <1>2 DEF AnswerDecided

LEMMA NetworkFailsKeeps == ASSUME QueueIInv, NEW k \in Key, NetworkFails(k) PROVE QueueIInv'
<1>1. runner[k].pc \notin {"idle", "recheck"} /\ Others /\ Transient(k)
  BY DEF NetworkFails, client, Others
<1>2. CASE UNCHANGED srv
  BY <1>1, <1>2, LeftoverSame, TransientKeeps
<1>3. CASE srv' = [srv EXCEPT ![k] = [Unopened EXCEPT !.st = "open"]]
  <2> DEFINE v == [Unopened EXCEPT !.st = "open"]
  <2>1. Absent \in Content
    BY QueueAssumption DEF Content, Folder, Absent
  <2>2. v \in AnySession /\ ~v.known /\ v.want = Absent
    BY <2>1 DEF Unopened, AnySession
  <2>3. srv' = [srv EXCEPT ![k] = v]
    BY <1>3
  <2> HIDE DEF v
  <2>4. Leftover(k, v)
    BY <2>2, <2>3 DEF Leftover
  <2> QED BY <1>1, <2>4, TransientKeeps
<1> QED BY <1>2, <1>3 DEF NetworkFails

LEMMA WakeKeeps == ASSUME QueueIInv, NEW k \in Key, Wake(k) PROVE QueueIInv'
<1> DEFINE r == [item[k] EXCEPT !.st = "uploading"]
           n == FirstRequest(item[k])
<1>1. item[k] \in AnyRow /\ srv[k] \in AnySession
      /\ RowOK(item[k], runner[k], approved[k], srv[k]) /\ srv' = [srv EXCEPT ![k] = srv[k]]
  BY OfRow DEF Wake, server
<1>2. runner[k].pc = "sleep" /\ runner[k].pc # "idle" /\ ~runner[k].aborted /\ Others
  BY LiveRow DEF Wake, client, server, Others, Deaf
<1>3. item[k].st = "retrying"
  BY <1>1, <1>2 DEF RowOK, Agree
<1>4. "uploading" \in States
  BY DEF States, Busy
<1>5. /\ r \in AnyRow /\ r.st = "uploading" /\ r.path = item[k].path
      /\ r.session = item[k].session /\ r.overwrite = item[k].overwrite /\ r.seen = item[k].seen
  BY <1>1, <1>4, WithState
<1>6. n \in AnyRunner /\ ~n.aborted /\ n.pc = IF item[k].session = "none" THEN "create" ELSE "status"
  BY <1>1, FirstRequestRunner
<1>7. Unscheduled(With(k, r), [runner EXCEPT ![k] = n])
  BY DEF Wake
<1> HIDE DEF r, n
<1>8. RowOK(r, n, approved[k], srv[k]) /\ Stays(k, r)
  BY <1>1, <1>3, <1>5, <1>6
     DEF RowOK, Agree, Agreed, Unasked, Wanted, Deaf, Stays, Needed
<1> QED BY <1>1, <1>2, <1>5, <1>6, <1>7, <1>8, RunnerMoves

-----------------------------------------------------------------------------
(* Preflight: a checked row waits for a decision, for a slot, or failed.       *)

Judged(r, q) ==
  /\ q \in AnyRow /\ q.st \in {"needs-decision", "paused", "queued", "failed"}
  /\ q.path = r.path /\ q.session = r.session
  /\ ~q.overwrite \/ (q.overwrite = r.overwrite /\ q.seen = r.seen)

LEMMA ReleasedRow ==
  ASSUME NEW r \in AnyRow, NEW p \in BOOLEAN
  PROVE  /\ Released(r, p) \in AnyRow /\ Released(r, p).st \in {"paused", "queued"}
         /\ Released(r, p).path = r.path /\ Released(r, p).session = r.session
         /\ Released(r, p).overwrite = r.overwrite /\ Released(r, p).seen = r.seen
<1>1. "paused" \in States /\ "queued" \in States
  BY DEF States, Busy
<1> QED BY <1>1 DEF Released, AnyRow

LEMMA CheckedRow ==
  ASSUME NEW r \in AnyRow, NEW status \in {"available", "directory", "conflict"},
         NEW seen \in Content
  PROVE  Judged(r, Checked(r, status, seen))
<1> DEFINE told == [r EXCEPT !.target = status, !.seen = seen, !.overwrite = FALSE,
                             !.retries = 0, !.eligible = FALSE]
<1>1. 0 \in 0..MaxRetries /\ "needs-decision" \in States
  BY QueueAssumption DEF States
<1>2. told \in AnyRow /\ told.path = r.path /\ told.session = r.session /\ ~told.overwrite
  BY <1>1 DEF AnyRow
<1>3. Checked(r, status, seen) = IF NeedsDecision(r, status)
                                 THEN [told EXCEPT !.st = "needs-decision"]
                                 ELSE IF globallyPaused THEN [told EXCEPT !.st = "paused"]
                                                        ELSE [told EXCEPT !.st = "queued"]
  BY DEF Checked, Released
<1>4. "paused" \in States /\ "queued" \in States
  BY DEF States, Busy
<1> HIDE DEF told
<1> QED BY <1>1, <1>2, <1>3, <1>4, WithState DEF Judged

LEMMA AnsweredRow ==
  ASSUME QueueIInv, NEW k \in Key, item[k].st = "checking"
  PROVE  Judged(item[k], Checked(item[k], StatusOf(item[k].path), file[item[k].path]))
<1>1. item[k] \in AnyRow /\ item[k].path \in Path
  BY OfRow DEF RowOK
<1>2. file[item[k].path] \in Content
  BY <1>1 DEF QueueIInv, InvOf, Types
<1>3. StatusOf(item[k].path) \in {"available", "directory", "conflict"}
  BY DEF StatusOf
<1> QED BY <1>1, <1>2, <1>3, CheckedRow

LEMMA UnansweredRow ==
  ASSUME QueueIInv, NEW k \in Key, NEW e \in BOOLEAN
  PROVE  Judged(item[k], Failed(item[k], e))
BY OfRow, FailedRow DEF Judged

LEMMA JudgedOK ==
  ASSUME QueueIInv, NEW k \in Key, NEW q, item[k].st = "checking", Judged(item[k], q)
  PROVE  RowOK(q, Idle, approved[k], srv[k]) /\ Stays(k, q)
<1>1. RowOK(item[k], runner[k], approved[k], srv[k])
  BY OfRow
<1> QED BY <1>1 DEF RowOK, Agree, Agreed, Unasked, Wanted, Idle, Judged, Stays, Needed

LEMMA RecheckKeeps == ASSUME QueueIInv, NEW k \in Key, Recheck(k) PROVE QueueIInv'
<1>1. runner[k].pc # "idle" /\ Others /\ UNCHANGED srv /\ srv[k] \in AnySession
      /\ srv' = [srv EXCEPT ![k] = srv[k]]
  BY OfRow DEF Recheck, client, server, Others
<1>2. PICK q : /\ item[k].st = "checking" => Judged(item[k], q)
               /\ Ends([j \in Key |-> IF j \in {k} /\ item[j].st = "checking"
                                      THEN q ELSE item[j]], k)
  <2>1. CASE Ends(Answered({k}), k)
    <3> DEFINE q == Checked(item[k], StatusOf(item[k].path), file[item[k].path])
    <3>1. Answered({k}) = [j \in Key |-> IF j \in {k} /\ item[j].st = "checking"
                                         THEN q ELSE item[j]]
      BY DEF Answered
    <3> HIDE DEF q
    <3>2. item[k].st = "checking" => Judged(item[k], q)
      BY AnsweredRow DEF q
    <3> QED BY <2>1, <3>1, <3>2
  <2>2. ASSUME NEW e \in BOOLEAN, Ends(Unanswered({k}, e), k)
        PROVE  \E q : /\ item[k].st = "checking" => Judged(item[k], q)
                      /\ Ends([j \in Key |-> IF j \in {k} /\ item[j].st = "checking"
                                             THEN q ELSE item[j]], k)
    <3> DEFINE q == Failed(item[k], e)
    <3>1. Unanswered({k}, e) = [j \in Key |-> IF j \in {k} /\ item[j].st = "checking"
                                              THEN q ELSE item[j]]
      BY DEF Unanswered
    <3> HIDE DEF q
    <3>2. item[k].st = "checking" => Judged(item[k], q)
      BY UnansweredRow DEF q
    <3> QED BY <2>2, <3>1, <3>2
  <2> QED BY <2>1, <2>2 DEF Recheck
<1> DEFINE it == [j \in Key |-> IF j \in {k} /\ item[j].st = "checking" THEN q ELSE item[j]]
<1>3. CASE item[k].st = "checking"
  <2>1. it = With(k, q)
    BY <1>3 DEF With, QueueIInv, InvOf, Types
  <2>2. Ends(With(k, q), k) /\ q \in AnyRow
    BY <1>2, <1>3, <2>1 DEF Judged
  <2> QED BY <1>1, <1>2, <1>3, <2>2, JudgedOK, EndsKeeps
<1>4. CASE item[k].st # "checking"
  <2>1. it = item
    BY <1>4 DEF QueueIInv, InvOf, Types
  <2>2. Ends(item, k)
    BY <1>2, <2>1
  <2> QED BY <1>1, <2>2, EndsAsIs
<1> QED BY <1>3, <1>4

-----------------------------------------------------------------------------
(* A step on many rows, the session of none of which changes.                  *)

LEMMA RowsKeep ==
  ASSUME QueueIInv, NEW it \in [Key -> AnyRow], NEW rn \in [Key -> AnyRunner],
         UNCHANGED <<srv, file>>, approved' \in [Key -> Content],
         checks' \subseteq SUBSET Key, batches' \subseteq SUBSET Key,
         \A k \in Key : RowOK(it[k], rn[k], approved'[k], srv[k]),
         NewLast(it), ChecksApart(it, rn, checks'), Sources(it, held'), Waiting(it, batches'),
         NEW paused, Schedule(it, rn, paused) \/ Unscheduled(it, rn)
  PROVE  QueueIInv'
<1>1. Leaves(it, rn)
  BY DEF Leaves, InvOf, Types, QueueIInv
<1> QED BY <1>1, ScheduleKeeps

LEMMA NewStays ==
  ASSUME QueueIInv, NEW it, \A k \in Key : it[k].st = "new" <=> item[k].st = "new"
  PROVE  NewLast(it)
BY DEF QueueIInv, InvOf, NewLast

LEMMA NeedsStay ==
  ASSUME QueueIInv, NEW it, UNCHANGED <<held, batches>>,
         \A k \in Key : it[k].st = item[k].st \/ (Needed(it[k]) /\ Needed(item[k]))
  PROVE  Sources(it, held') /\ Waiting(it, batches') /\ batches' \subseteq SUBSET Key
BY DEF QueueIInv, InvOf, Types, Sources, Waiting, Needed

LEMMA ChecksStay ==
  ASSUME QueueIInv, NEW it, NEW rn, UNCHANGED checks,
         \A k \in Key : /\ item[k].st = "gone" => it[k].st = "gone"
                        /\ item[k].st = "checking" => \/ it[k].st = "gone"
                                                      \/ it[k] = item[k] /\ rn[k] = runner[k]
  PROVE  ChecksApart(it, rn, checks') /\ checks' \subseteq SUBSET Key
BY DEF QueueIInv, InvOf, Types, ChecksApart

LEMMA CheckEnds ==
  ASSUME QueueIInv, NEW K \in checks, NEW it, UNCHANGED <<held, batches, approved, srv, file>>,
         checks' = checks \ {K}, it \in [Key -> AnyRow],
         \A k \in Key : \/ it[k] = item[k]
                        \/ k \in K /\ item[k].st = "checking" /\ Judged(item[k], it[k]),
         \/ Schedule(it, runner, globallyPaused)
         \/ Unscheduled(it, runner)
  PROVE  QueueIInv'
<1>1. \A k \in Key : it[k] # item[k] =>
        k \in K /\ item[k].st = "checking" /\ Judged(item[k], it[k]) /\ runner[k].pc = "idle"
  BY DEF QueueIInv, InvOf, ChecksApart
<1>2. ASSUME NEW k \in Key PROVE RowOK(it[k], runner[k], approved'[k], srv[k])
  <2>1. RowOK(item[k], runner[k], approved[k], srv[k])
    BY OfRow
  <2>2. CASE it[k] # item[k]
    <3>1. RowOK(it[k], Idle, approved[k], srv[k])
      BY <1>1, <2>2, JudgedOK
    <3> QED BY <1>1, <2>2, <3>1 DEF RowOK, Agree, Unasked, Idle, Deaf
  <2> QED BY <2>1, <2>2
<1>3. \A k \in Key : it[k].st = item[k].st \/ (Needed(it[k]) /\ Needed(item[k]))
  BY <1>1 DEF Judged, Needed
<1>4. NewLast(it)
  <2>1. \A k \in Key : it[k].st = "new" <=> item[k].st = "new"
    BY <1>3 DEF Needed
  <2> QED BY <2>1, NewStays
<1>5. ChecksApart(it, runner, checks')
  <2>1. ChecksApart(item, runner, checks) /\ checks \subseteq SUBSET Key
    BY DEF QueueIInv, InvOf, Types
  <2>2. \A L \in checks' : \A k \in L : k \in Key /\ (it[k] # item[k] => FALSE)
    BY <1>1, <2>1 DEF ChecksApart
  <2> QED BY <2>1, <2>2 DEF ChecksApart
<1>6. Sources(it, held') /\ Waiting(it, batches') /\ batches' \subseteq SUBSET Key
  BY <1>3, NeedsStay
<1>7. /\ runner \in [Key -> AnyRunner] /\ checks' \subseteq SUBSET Key
      /\ approved' \in [Key -> Content]
  BY DEF QueueIInv, InvOf, Types
<1> QED BY <1>2, <1>4, <1>5, <1>6, <1>7, RowsKeep

LEMMA CheckAnsweredKeeps ==
  ASSUME QueueIInv, NEW K \in checks, CheckAnswered(K) PROVE QueueIInv'
<1> DEFINE it == Answered(K)
<1>1. \A k \in Key : it[k] = IF k \in K /\ item[k].st = "checking"
                             THEN Checked(item[k], StatusOf(item[k].path), file[item[k].path])
                             ELSE item[k]
  BY DEF Answered
<1>2. it = [k \in Key |-> it[k]]
  BY DEF Answered
<1>3. /\ Schedule(it, runner, globallyPaused) /\ checks' = checks \ {K}
      /\ UNCHANGED <<held, batches, approved, srv, file>>
  BY DEF CheckAnswered, server
<1> HIDE DEF it
<1>4. \A k \in Key : \/ it[k] = item[k]
                     \/ k \in K /\ item[k].st = "checking" /\ Judged(item[k], it[k])
  BY <1>1, AnsweredRow
<1>5. it \in [Key -> AnyRow]
  <2>1. \A k \in Key : it[k] \in AnyRow
    BY <1>4, OfRow DEF Judged
  <2> QED BY <1>2, <2>1
<1> QED BY <1>3, <1>4, <1>5, CheckEnds

LEMMA CheckFailsKeeps ==
  ASSUME QueueIInv, NEW K \in checks, CheckFails(K) PROVE QueueIInv'
<1>1. PICK e \in BOOLEAN : Unscheduled(Unanswered(K, e), runner)
  BY DEF CheckFails
<1> DEFINE it == Unanswered(K, e)
<1>2. \A k \in Key : it[k] = IF k \in K /\ item[k].st = "checking"
                             THEN Failed(item[k], e) ELSE item[k]
  BY DEF Unanswered
<1>3. it = [k \in Key |-> it[k]]
  BY DEF Unanswered
<1>4. /\ Unscheduled(it, runner) /\ checks' = checks \ {K}
      /\ UNCHANGED <<held, batches, approved, srv, file>>
  BY <1>1 DEF CheckFails, server
<1> HIDE DEF it
<1>5. \A k \in Key : \/ it[k] = item[k]
                     \/ k \in K /\ item[k].st = "checking" /\ Judged(item[k], it[k])
  BY <1>2, UnansweredRow
<1>6. it \in [Key -> AnyRow]
  <2>1. \A k \in Key : it[k] \in AnyRow
    BY <1>5, OfRow DEF Judged
  <2> QED BY <1>3, <2>1
<1> QED BY <1>4, <1>5, <1>6, CheckEnds

-----------------------------------------------------------------------------
(* The buttons of the panel *)

LEMMA AbortedRunners ==
  ASSUME QueueIInv, NEW K
  PROVE  /\ Aborted(K) \in [Key -> AnyRunner]
         /\ \A k \in Key :
              /\ k \notin K \/ runner[k].pc = "idle" => Aborted(K)[k] = runner[k]
              /\ k \in K => \/ Aborted(K)[k].pc = "idle"
                            \/ /\ Aborted(K)[k].pc = runner[k].pc
                               /\ runner[k].pc \in Deaf /\ Aborted(K)[k].aborted
<1>1. \A k \in Key : runner[k] \in AnyRunner
  BY OfRow
<1>2. \A k \in Key : Aborted(K)[k] = IF k \notin K \/ runner[k].pc = "idle" THEN runner[k]
                                     ELSE IF runner[k].pc \in Deaf
                                          THEN [runner[k] EXCEPT !.aborted = TRUE] ELSE Idle
  BY DEF Aborted, Live
<1>3. Aborted(K) = [k \in Key |-> Aborted(K)[k]]
  BY DEF Aborted
<1>4. ASSUME NEW k \in Key
      PROVE  /\ [runner[k] EXCEPT !.aborted = TRUE] \in AnyRunner
             /\ [runner[k] EXCEPT !.aborted = TRUE].pc = runner[k].pc
             /\ [runner[k] EXCEPT !.aborted = TRUE].aborted
  BY <1>1 DEF AnyRunner
<1>5. \A k \in Key : Aborted(K)[k] \in AnyRunner
  BY <1>1, <1>2, <1>4, IdleRunner
<1> QED BY <1>2, <1>3, <1>4, <1>5, IdleRunner

LEMMA PauseRowsKeeps ==
  ASSUME QueueIInv, NEW K \in SUBSET Key, \A k \in K : MayPause(k), NEW paused,
         PauseRows(K, paused)
  PROVE  QueueIInv'
<1> DEFINE it == [k \in Key |-> IF k \in K THEN Paused(item[k]) ELSE item[k]]
           rn == Aborted(K)
<1>1. "paused" \in States
  BY DEF States
<1>2. \A k \in Key : k \in K =>
        /\ it[k] \in AnyRow /\ it[k].st = "paused" /\ Needed(it[k]) /\ Needed(item[k])
        /\ it[k].path = item[k].path /\ it[k].session = item[k].session
        /\ it[k].overwrite = item[k].overwrite /\ it[k].seen = item[k].seen
        /\ item[k].st \in {"queued", "uploading", "retrying"}
  BY <1>1, OfRow, WithState DEF MayPause, Paused, Needed
<1>3. \A k \in Key : k \notin K => it[k] = item[k] /\ it[k] \in AnyRow /\ rn[k] = runner[k]
  BY OfRow, AbortedRunners
<1>4. it \in [Key -> AnyRow] /\ rn \in [Key -> AnyRunner]
  BY <1>2, <1>3, AbortedRunners
<1>5. \A k \in Key : k \in K => rn[k].pc = "idle" \/ /\ rn[k].pc = runner[k].pc
                                                     /\ runner[k].pc \in Deaf /\ rn[k].aborted
  BY AbortedRunners
<1>6. Schedule(it, rn, paused) /\ UNCHANGED <<checks, held, batches, approved, srv, file>>
  BY DEF PauseRows, client
<1> HIDE DEF it, rn
<1>7. ASSUME NEW k \in Key PROVE RowOK(it[k], rn[k], approved'[k], srv[k])
  <2>1. RowOK(item[k], runner[k], approved[k], srv[k])
    BY OfRow
  <2> QED BY <1>2, <1>3, <1>5, <1>6, <2>1 DEF RowOK, Agree, Agreed, Unasked, Wanted, Deaf
<1>8. /\ NewLast(it) /\ ChecksApart(it, rn, checks') /\ checks' \subseteq SUBSET Key
      /\ Sources(it, held') /\ Waiting(it, batches') /\ batches' \subseteq SUBSET Key
  BY <1>2, <1>3, <1>6, NewStays, ChecksStay, NeedsStay
<1>9. approved' \in [Key -> Content]
  BY <1>6 DEF QueueIInv, InvOf, Types
<1> QED BY <1>4, <1>6, <1>7, <1>8, <1>9, RowsKeep

LEMMA ResumeRowsKeeps ==
  ASSUME QueueIInv, NEW K, NEW paused, ResumeRows(K, paused)
  PROVE  QueueIInv'
<1> DEFINE it == [k \in Key |-> IF k \in K THEN Resumed(item[k]) ELSE item[k]]
<1>1. "queued" \in States
  BY DEF States, Busy
<1>2. \A k \in Key :
        \/ it[k] = item[k]
        \/ /\ it[k] \in AnyRow /\ it[k].st = "queued" /\ item[k].st = "paused"
           /\ it[k].path = item[k].path /\ it[k].session = item[k].session
           /\ it[k].overwrite = item[k].overwrite /\ it[k].seen = item[k].seen
  BY <1>1, OfRow, WithState DEF Resumed
<1>3. it \in [Key -> AnyRow]
  BY <1>2, OfRow
<1>4. Schedule(it, runner, paused) /\ UNCHANGED <<checks, held, batches, approved, srv, file>>
  BY DEF ResumeRows, client, server
<1> HIDE DEF it
<1>5. ASSUME NEW k \in Key PROVE RowOK(it[k], runner[k], approved'[k], srv[k])
  <2>1. RowOK(item[k], runner[k], approved[k], srv[k])
    BY OfRow
  <2> QED BY <1>2, <1>4, <2>1 DEF RowOK, Agree, Agreed, Unasked, Wanted
<1>6. /\ NewLast(it) /\ ChecksApart(it, runner, checks') /\ checks' \subseteq SUBSET Key
      /\ Sources(it, held') /\ Waiting(it, batches') /\ batches' \subseteq SUBSET Key
  BY <1>2, <1>4, NewStays, ChecksStay, NeedsStay DEF Needed
<1>7. approved' \in [Key -> Content] /\ runner \in [Key -> AnyRunner]
  BY <1>4 DEF QueueIInv, InvOf, Types
<1> QED BY <1>3, <1>4, <1>5, <1>6, <1>7, RowsKeep

LEMMA RemoveKeeps ==
  ASSUME QueueIInv, NEW K \in SUBSET Key, \A k \in K : Present(k), NEW S, Remove(K, S)
  PROVE  QueueIInv'
<1> DEFINE it == [k \in Key |-> IF k \in K THEN Blank("gone") ELSE item[k]]
           rn == Aborted(K)
<1>1. "gone" \in States
  BY DEF States
<1>2. \A k \in Key : k \in K =>
        /\ it[k] \in AnyRow /\ it[k].st = "gone" /\ it[k].session = "none" /\ ~it[k].overwrite
        /\ item[k].st \notin {"new", "gone"}
  BY <1>1, BlankRow DEF Blank, Present
<1>3. \A k \in Key : k \notin K => it[k] = item[k] /\ it[k] \in AnyRow /\ rn[k] = runner[k]
  BY OfRow, AbortedRunners
<1>4. it \in [Key -> AnyRow] /\ rn \in [Key -> AnyRunner]
  BY <1>2, <1>3, AbortedRunners
<1>5. \A k \in Key : k \in K => rn[k].pc = "idle" \/ /\ rn[k].pc = runner[k].pc
                                                     /\ runner[k].pc \in Deaf /\ rn[k].aborted
  BY AbortedRunners
<1>6. /\ Schedule(it, rn, globallyPaused) /\ UNCHANGED <<checks, approved, srv, file>>
      /\ held' = held \ K /\ batches' = {B \in batches : B \cap K = {}}
  BY DEF Remove, Kept, Abandoned
<1> HIDE DEF it, rn
<1>7. ASSUME NEW k \in Key PROVE RowOK(it[k], rn[k], approved'[k], srv[k])
  <2>1. RowOK(item[k], runner[k], approved[k], srv[k])
    BY OfRow
  <2> QED BY <1>2, <1>3, <1>5, <1>6, <2>1 DEF RowOK, Agree, Agreed, Unasked, Wanted, Deaf
<1>8. NewLast(it) /\ ChecksApart(it, rn, checks') /\ checks' \subseteq SUBSET Key
  BY <1>2, <1>3, <1>6, NewStays, ChecksStay
<1>9. Sources(it, held')
  BY <1>2, <1>3, <1>6 DEF QueueIInv, InvOf, Sources, Needed
<1>10. Waiting(it, batches') /\ batches' \subseteq SUBSET Key
  <2>1. batches \subseteq SUBSET Key /\ Waiting(item, batches)
    BY DEF QueueIInv, InvOf, Types
  <2>2. \A B \in batches' : B \in batches /\ \A k \in B : k \in Key /\ it[k] = item[k]
    BY <1>3, <1>6, <2>1
  <2> QED BY <2>1, <2>2 DEF Waiting
<1>11. approved' \in [Key -> Content]
  BY <1>6 DEF QueueIInv, InvOf, Types
<1> QED BY <1>4, <1>6, <1>7, <1>8, <1>9, <1>10, <1>11, RowsKeep

(* A row whose upload is retried keeps what it had settled.                    *)
Resettled(q, r) == /\ q.path = r.path /\ q.session = r.session
                   /\ q.overwrite = r.overwrite /\ q.seen = r.seen

LEMMA IneligibleRow ==
  ASSUME NEW r \in AnyRow, NEW s \in States
  PROVE  LET q == [r EXCEPT !.eligible = FALSE]
             t == [q EXCEPT !.st = s]
         IN /\ t \in AnyRow /\ t.st = s /\ Resettled(t, r)
            /\ t = [r EXCEPT !.st = s, !.eligible = FALSE]
<1> DEFINE q == [r EXCEPT !.eligible = FALSE]
           t == [q EXCEPT !.st = s]
<1>1. q \in AnyRow /\ Resettled(q, r)
  BY DEF AnyRow, Resettled
<1>2. t = [r EXCEPT !.st = s, !.eligible = FALSE]
  BY DEF AnyRow
<1> HIDE DEF q
<1>3. t \in AnyRow /\ t.st = s /\ Resettled(t, q)
  BY <1>1 DEF AnyRow, Resettled
<1>4. Resettled(t, r)
  BY <1>1, <1>3 DEF Resettled
<1> QED BY <1>2, <1>3, <1>4 DEF q

LEMMA RetriedRow ==
  ASSUME NEW r \in AnyRow, r.st = "failed", r.eligible
  PROVE  /\ Retried(r) \in AnyRow /\ Resettled(Retried(r), r)
         /\ Retried(r).st \in {"checking", "paused", "queued"}
         /\ Retried(r).st = "checking" => r.session = "none"
<1>1. "checking" \in States /\ "paused" \in States /\ "queued" \in States
  BY DEF States, Busy
<1>2. CASE r.target = "none" /\ r.session = "none"
  <2> DEFINE q == [[r EXCEPT !.eligible = FALSE] EXCEPT !.st = "checking"]
  <2>1. q \in AnyRow /\ q.st = "checking" /\ Resettled(q, r)
    BY <1>1, IneligibleRow
  <2>2. q = [r EXCEPT !.st = "checking", !.eligible = FALSE]
    BY <1>1, IneligibleRow
  <2> HIDE DEF q
  <2>3. Retried(r) = q
    BY <1>2, <2>2 DEF Retried
  <2> HIDE DEF Retried
  <2> QED BY <1>2, <2>1, <2>3
<1>3. CASE ~(r.target = "none" /\ r.session = "none")
  <2> DEFINE s == IF globallyPaused THEN "paused" ELSE "queued"
             q == [[r EXCEPT !.eligible = FALSE] EXCEPT !.st = s]
  <2>1. Retried(r) = q
    BY <1>3 DEF Retried, Released
  <2>2. s \in States /\ s \in {"paused", "queued"}
    BY <1>1
  <2> HIDE DEF s
  <2>3. q \in AnyRow /\ q.st = s /\ Resettled(q, r)
    BY <2>2, IneligibleRow
  <2> HIDE DEF q
  <2> QED BY <2>1, <2>2, <2>3
<1> QED BY <1>2, <1>3

LEMMA RetryRowsKeeps ==
  ASSUME QueueIInv, NEW K \in SUBSET Key, \A k \in K : MayRetry(k), RetryRows(K)
  PROVE  QueueIInv'
<1> DEFINE it == [k \in Key |-> IF k \in K THEN Retried(item[k]) ELSE item[k]]
           again == {k \in K : it[k].st = "checking"}
<1>1. "checking" \in States /\ "paused" \in States /\ "queued" \in States
  BY DEF States, Busy
<1>2. ASSUME NEW k \in Key, k \in K
      PROVE  /\ it[k] \in AnyRow /\ item[k].st = "failed"
             /\ it[k].st \in {"checking", "paused", "queued"}
             /\ it[k].st = "checking" => item[k].session = "none"
             /\ it[k].path = item[k].path /\ it[k].session = item[k].session
             /\ it[k].overwrite = item[k].overwrite /\ it[k].seen = item[k].seen
  <2>1. item[k] \in AnyRow /\ item[k].st = "failed" /\ item[k].eligible
    BY <1>2, OfRow DEF MayRetry
  <2>2. it[k] = Retried(item[k])
    BY <1>2
  <2> HIDE DEF it
  <2> QED BY <2>1, <2>2, RetriedRow DEF Resettled
<1>3. \A k \in Key : k \notin K => it[k] = item[k] /\ it[k] \in AnyRow
  BY OfRow
<1>4. it \in [Key -> AnyRow]
  BY <1>2, <1>3
<1>5. /\ Schedule(it, runner, globallyPaused)
      /\ UNCHANGED <<held, batches, approved, srv, file>>
      /\ checks' = IF again = {} THEN checks ELSE checks \cup {again}
  BY DEF RetryRows, server
<1>6. again \subseteq K /\ \A k \in again : it[k].st = "checking"
  OBVIOUS
<1> HIDE DEF it, again
<1>7. \A k \in K : runner[k].pc = "idle" /\ \A L \in checks : k \notin L
  <2>1. \A k \in K : item[k].st = "failed" /\ RowOK(item[k], runner[k], approved[k], srv[k])
    BY <1>2, OfRow
  <2> QED BY <2>1 DEF RowOK, Agree, QueueIInv, InvOf, ChecksApart
<1>8. ASSUME NEW k \in Key PROVE RowOK(it[k], runner[k], approved'[k], srv[k])
  <2>1. RowOK(item[k], runner[k], approved[k], srv[k])
    BY OfRow
  <2> QED BY <1>2, <1>3, <1>5, <1>7, <2>1 DEF RowOK, Agree, Agreed, Unasked, Wanted, Deaf
<1>9. ChecksApart(it, runner, checks') /\ checks' \subseteq SUBSET Key
  <2>1. ChecksApart(item, runner, checks) /\ checks \subseteq SUBSET Key
    BY DEF QueueIInv, InvOf, Types
  <2>2. ASSUME NEW L \in checks', NEW k \in L
        PROVE  \/ it[k].st = "gone"
               \/ /\ it[k].st = "checking" /\ runner[k].pc = "idle"
                  /\ \A M \in checks' : k \in M => M = L
    <3>1. CASE k \in K
      <4>1. \A M \in checks' : k \in M => M = again
        BY <1>5, <1>7, <3>1
      <4> QED BY <1>6, <1>7, <3>1, <4>1
    <3>2. CASE k \notin K
      <4>1. k \notin again /\ \A M \in checks' : k \in M => M \in checks
        BY <1>5, <1>6, <3>2
      <4> QED BY <1>3, <2>1, <3>2, <4>1 DEF ChecksApart
    <3> QED BY <3>1, <3>2
  <2>3. checks' \subseteq SUBSET Key
    BY <1>5, <1>6, <2>1
  <2> QED BY <2>2, <2>3 DEF ChecksApart
<1>10. /\ NewLast(it) /\ Sources(it, held') /\ Waiting(it, batches')
       /\ batches' \subseteq SUBSET Key
  BY <1>2, <1>3, <1>5, NewStays, NeedsStay DEF Needed
<1>11. approved' \in [Key -> Content] /\ runner \in [Key -> AnyRunner]
  BY <1>5 DEF QueueIInv, InvOf, Types
<1> QED BY <1>4, <1>5, <1>8, <1>9, <1>10, <1>11, RowsKeep

LEMMA ChoiceRow ==
  ASSUME NEW r \in AnyRow, NEW c
  PROVE  LET q == [r EXCEPT !.overwrite = r.target = c, !.eligible = FALSE]
         IN q \in AnyRow /\ q.path = r.path /\ q.session = r.session /\ q.seen = r.seen
<1>1. ASSUME NEW o \in BOOLEAN
      PROVE  LET q == [r EXCEPT !.overwrite = o, !.eligible = FALSE]
             IN q \in AnyRow /\ q.path = r.path /\ q.session = r.session /\ q.seen = r.seen
  BY DEF AnyRow
<1>2. (r.target = c) \in BOOLEAN
  OBVIOUS
<1> QED BY <1>1, <1>2, Zenon

LEMMA DecideKeeps ==
  ASSUME QueueIInv, NEW C \in SUBSET Key, NEW S \in SUBSET Key, C \cap S = {},
         \A k \in C \cup S : item[k].st = "needs-decision", Decide(C, S)
  PROVE  QueueIInv'
<1> DEFINE it == [k \in Key |-> IF k \in C THEN Chosen(item[k])
                                ELSE IF k \in S THEN Skipped(item[k]) ELSE item[k]]
<1>1. "skipped" \in States
  BY DEF States, Finished
<1>2. ASSUME NEW k \in Key, k \in C
      PROVE  /\ it[k] \in AnyRow /\ it[k].st \in {"paused", "queued"}
             /\ it[k].path = item[k].path /\ it[k].session = item[k].session
             /\ it[k].seen = item[k].seen
  <2> DEFINE r == [item[k] EXCEPT !.overwrite = item[k].target = "conflict",
                                  !.eligible = FALSE]
  <2>1. r \in AnyRow /\ r.path = item[k].path /\ r.session = item[k].session
        /\ r.seen = item[k].seen
    BY OfRow, ChoiceRow
  <2>2. it[k] = IF globallyPaused THEN [r EXCEPT !.st = "paused"] ELSE [r EXCEPT !.st = "queued"]
    BY <1>2 DEF Chosen, Released
  <2>3. "paused" \in States /\ "queued" \in States
    BY DEF States, Busy
  <2> HIDE DEF r, it
  <2> QED BY <2>1, <2>2, <2>3, WithState
<1>3. ASSUME NEW k \in Key, k \in S
      PROVE  /\ it[k] \in AnyRow /\ it[k].st = "skipped"
             /\ it[k].path = item[k].path /\ it[k].session = item[k].session
             /\ it[k].seen = item[k].seen /\ it[k].overwrite = item[k].overwrite
  <2>1. it[k] = Skipped(item[k]) /\ item[k] \in AnyRow
    BY <1>3, OfRow
  <2> HIDE DEF it
  <2> QED BY <1>1, <2>1 DEF Skipped, AnyRow
<1>4. \A k \in Key : k \notin C \cup S => it[k] = item[k] /\ it[k] \in AnyRow
  BY OfRow
<1>5. it \in [Key -> AnyRow]
  BY <1>2, <1>3, <1>4
<1>6. /\ Schedule(it, runner, globallyPaused) /\ UNCHANGED <<checks, srv, file>>
      /\ held' = held \ S /\ batches' = {B \in batches : B \cap S = {}}
      /\ approved' = [k \in Key |-> IF k \in C THEN item[k].seen ELSE approved[k]]
  BY DEF Decide, Kept, Abandoned, server
<1>7. \A k \in C \cup S : /\ item[k].st = "needs-decision" /\ runner[k].pc = "idle"
                          /\ item[k].session = "none" /\ srv[k].want = Absent
  <2>1. \A k \in C \cup S : /\ RowOK(item[k], runner[k], approved[k], srv[k])
                            /\ item[k].st = "needs-decision"
    BY OfRow
  <2> QED BY <2>1 DEF RowOK, Agree, Unasked, Wanted
<1> HIDE DEF it
<1>8. ASSUME NEW k \in Key PROVE RowOK(it[k], runner[k], approved'[k], srv[k])
  <2>1. RowOK(item[k], runner[k], approved[k], srv[k])
    BY OfRow
  <2>2. CASE k \in C
    <3>1. approved'[k] = item[k].seen
      BY <1>6, <2>2
    <3> QED BY <1>2, <1>7, <2>1, <2>2, <3>1 DEF RowOK, Agree, Agreed, Unasked, Wanted
  <2>3. CASE k \in S
    <3>1. approved'[k] = approved[k]
      BY <1>6, <2>3
    <3> QED BY <1>3, <1>7, <2>1, <2>3, <3>1 DEF RowOK, Agree, Agreed, Unasked, Wanted
  <2>4. CASE k \notin C \cup S
    BY <1>4, <1>6, <2>1, <2>4
  <2> QED BY <2>2, <2>3, <2>4
<1>9. NewLast(it) /\ ChecksApart(it, runner, checks') /\ checks' \subseteq SUBSET Key
  <2>1. \A k \in Key : it[k] # item[k] =>
          item[k].st = "needs-decision" /\ it[k].st \in {"paused", "queued", "skipped"}
    BY <1>2, <1>3, <1>4, <1>7
  <2> QED BY <1>6, <2>1, NewStays, ChecksStay
<1>10. Sources(it, held')
  BY <1>2, <1>3, <1>4, <1>6, <1>7 DEF QueueIInv, InvOf, Sources, Needed
<1>11. Waiting(it, batches') /\ batches' \subseteq SUBSET Key
  <2>1. batches \subseteq SUBSET Key /\ Waiting(item, batches)
    BY DEF QueueIInv, InvOf, Types
  <2>2. \A B \in batches' : /\ B \in batches
                            /\ \A k \in B : /\ k \in Key
                                            /\ it[k] = item[k] \/ it[k].st \in {"paused", "queued"}
    BY <1>2, <1>4, <1>6, <2>1
  <2> QED BY <2>1, <2>2 DEF Waiting
<1>12. approved' \in [Key -> Content] /\ runner \in [Key -> AnyRunner]
  <2>1. \A k \in Key : item[k].seen \in Content /\ approved[k] \in Content
    BY OfRow DEF AnyRow
  <2> QED BY <1>6, <2>1 DEF QueueIInv, InvOf, Types
<1> QED BY <1>5, <1>6, <1>8, <1>9, <1>10, <1>11, <1>12, RowsKeep

(* The rows added so far are those that are not new.                           *)
LEMMA AddedRows ==
  ASSUME QueueIInv
  PROVE  \E n0 \in 0..Keys : Added = n0 /\ \A k \in Key : item[k].st = "new" <=> k > n0
<1>1. PICK n0 \in 0..Keys : \A k \in Key : item[k].st = "new" <=> k > n0
  BY DEF QueueIInv, InvOf, NewLast
<1>2. Keys \in Nat /\ n0 \in Nat /\ n0 <= Keys
  BY QueueAssumption, <1>1
<1>3. {k \in Key : item[k].st # "new"} = 1..n0
  BY <1>1, <1>2 DEF Key
<1>4. Cardinality(1..n0) = n0
  BY <1>2, FS_Interval
<1>5. Added = n0
  BY <1>3, <1>4 DEF Added
<1> QED BY <1>1, <1>5

LEMMA AddKeeps == ASSUME QueueIInv, Add PROVE QueueIInv'
<1>1. PICK n0 \in 0..Keys : Added = n0 /\ \A k \in Key : item[k].st = "new" <=> k > n0
  BY AddedRows
<1>2. Added = n0
  BY <1>1
<1>3. PICK n \in 1..(Keys - n0), archive \in BOOLEAN :
        LET K == (n0 + 1)..(n0 + n)
        IN \E path \in [K -> Path] :
             /\ Unscheduled(Fresh(K, path), runner)
             /\ checks' = checks \cup {K}
             /\ held' = held \cup K
             /\ batches' = IF archive THEN batches \cup {K} ELSE batches
             /\ UNCHANGED <<approved, srv, file>>
  BY <1>2 DEF Add, server
<1> DEFINE K == (n0 + 1)..(n0 + n)
<1>4. PICK path \in [K -> Path] :
        /\ Unscheduled(Fresh(K, path), runner)
        /\ checks' = checks \cup {K}
        /\ held' = held \cup K
        /\ batches' = IF archive THEN batches \cup {K} ELSE batches
        /\ UNCHANGED <<approved, srv, file>>
  BY <1>3
<1>5. n0 \in Nat /\ n \in Nat /\ n0 + n \in 0..Keys /\ n0 + 1 \in K /\ K \subseteq Key
  BY QueueAssumption, <1>1, <1>3 DEF Key
<1>6. \A k \in Key : /\ k \in K => item[k].st = "new" /\ k <= n0 + n
                     /\ k > n0 + n <=> item[k].st = "new" /\ k \notin K
  BY <1>1, <1>5 DEF Key
<1> HIDE DEF K
<1> DEFINE it == Fresh(K, path)
<1>7. \A k \in Key : it[k] =
        IF k \notin K THEN item[k]
        ELSE [Blank("checking") EXCEPT !.path = path[k], !.batch = K,
                                       !.dup = \E j \in K \ {k} : path[j] = path[k]]
  BY DEF Fresh
<1>8. it = [k \in Key |-> it[k]]
  BY DEF Fresh
<1> HIDE DEF it
<1>9. ASSUME NEW k \in Key, k \in K
      PROVE  /\ it[k] \in AnyRow /\ it[k].st = "checking" /\ it[k].path \in Path
             /\ it[k].session = "none" /\ ~it[k].overwrite
  <2>1. "checking" \in States /\ path[k] \in Path /\ K \in SUBSET Key
    BY <1>4, <1>5, <1>9 DEF States, Busy
  <2>2. Blank("checking") \in AnyRow /\ Blank("checking").st = "checking"
        /\ Blank("checking").session = "none" /\ ~Blank("checking").overwrite
    BY <2>1, BlankRow DEF Blank
  <2>3. ASSUME NEW d \in BOOLEAN
        PROVE  LET q == [Blank("checking") EXCEPT !.path = path[k], !.batch = K, !.dup = d]
               IN /\ q \in AnyRow /\ q.st = "checking" /\ q.path \in Path
                  /\ q.session = "none" /\ ~q.overwrite
    <3> DEFINE b == Blank("checking")
    <3>1. b \in AnyRow /\ b.st = "checking" /\ b.session = "none" /\ ~b.overwrite
      BY <2>2
    <3> HIDE DEF b
    <3>2. LET q == [b EXCEPT !.path = path[k], !.batch = K, !.dup = d]
          IN /\ q \in AnyRow /\ q.st = "checking" /\ q.path \in Path
             /\ q.session = "none" /\ ~q.overwrite
      BY <2>1, <3>1 DEF AnyRow
    <3> QED BY <3>2 DEF b
  <2>4. (\E j \in K \ {k} : path[j] = path[k]) \in BOOLEAN
    OBVIOUS
  <2>5. it[k] = [Blank("checking") EXCEPT !.path = path[k], !.batch = K,
                                          !.dup = \E j \in K \ {k} : path[j] = path[k]]
    BY <1>7, <1>9
  <2> QED BY <2>3, <2>4, <2>5, Zenon
<1>10. \A k \in Key : k \notin K => it[k] = item[k] /\ it[k] \in AnyRow
  BY <1>7, OfRow
<1>11. it \in [Key -> AnyRow]
  BY <1>8, <1>9, <1>10
<1>12. \A k \in K : runner[k].pc = "idle" /\ \A L \in checks : k \notin L
  <2>1. \A k \in K : item[k].st = "new" /\ RowOK(item[k], runner[k], approved[k], srv[k])
    BY <1>5, <1>6, OfRow
  <2> QED BY <2>1 DEF RowOK, Agree, QueueIInv, InvOf, ChecksApart
<1>13. ASSUME NEW k \in Key PROVE RowOK(it[k], runner[k], approved'[k], srv[k])
  <2>1. RowOK(item[k], runner[k], approved[k], srv[k])
    BY OfRow
  <2> QED BY <1>4, <1>6, <1>9, <1>10, <1>12, <2>1
          DEF RowOK, Agree, Agreed, Unasked, Wanted
<1>14. ChecksApart(it, runner, checks') /\ checks' \subseteq SUBSET Key
  <2>1. ChecksApart(item, runner, checks) /\ checks \subseteq SUBSET Key
    BY DEF QueueIInv, InvOf, Types
  <2>2. ASSUME NEW L \in checks', NEW k \in L
        PROVE  \/ it[k].st = "gone"
               \/ /\ it[k].st = "checking" /\ runner[k].pc = "idle"
                  /\ \A M \in checks' : k \in M => M = L
    <3>1. k \in Key
      BY <1>4, <1>5, <2>1
    <3>2. CASE k \in K
      <4>1. \A M \in checks' : k \in M => M = K
        BY <1>4, <1>12, <3>2
      <4> QED BY <1>9, <1>12, <3>1, <3>2, <4>1
    <3>3. CASE k \notin K
      <4>1. \A M \in checks' : k \in M => M \in checks
        BY <1>4, <3>3
      <4> QED BY <1>10, <2>1, <3>1, <3>3, <4>1 DEF ChecksApart
    <3> QED BY <3>2, <3>3
  <2>3. checks' \subseteq SUBSET Key
    BY <1>4, <1>5, <2>1
  <2> QED BY <2>2, <2>3 DEF ChecksApart
<1>15. NewLast(it)
  <2>1. \A k \in Key : it[k].st = "new" <=> k > n0 + n
    BY <1>6, <1>9, <1>10
  <2> QED BY <1>5, <2>1 DEF NewLast
<1>16. Sources(it, held')
  BY <1>4, <1>5, <1>9, <1>10 DEF QueueIInv, InvOf, Sources, Needed
<1>17. Waiting(it, batches') /\ batches' \subseteq SUBSET Key
  <2>1. batches \subseteq SUBSET Key /\ Waiting(item, batches)
    BY DEF QueueIInv, InvOf, Types
  <2>2. \A k \in Key : it[k] = item[k] \/ it[k].st = "checking"
    BY <1>9, <1>10
  <2>3. \A k \in K : it[k].st = "checking"
    BY <1>5, <1>9
  <2>4. ASSUME NEW B \in batches'
        PROVE  /\ B \in SUBSET Key /\ \A k \in B : it[k].st \notin {"gone", "skipped"}
               /\ \E k \in B : it[k].st # "complete"
    <3>1. CASE B \in batches
      BY <2>1, <2>2, <3>1 DEF Waiting
    <3>2. CASE B = K
      BY <1>5, <2>3, <3>2
    <3> QED BY <1>4, <3>1, <3>2
  <2> QED BY <2>4 DEF Waiting
<1>18. approved' \in [Key -> Content] /\ runner \in [Key -> AnyRunner]
  BY <1>4 DEF QueueIInv, InvOf, Types
<1>19. UNCHANGED <<srv, file>> /\ Unscheduled(it, runner)
  BY <1>4 DEF it
<1> QED BY <1>11, <1>13, <1>14, <1>15, <1>16, <1>17, <1>18, <1>19, RowsKeep

LEMMA RowKeeps == ASSUME QueueIInv, NEW k \in Key, Row(k) PROVE QueueIInv'
<1>0. {k} \in SUBSET Key
  OBVIOUS
<1>1. CASE Pause(k)
  BY <1>0, <1>1, PauseRowsKeeps DEF Pause
<1>2. CASE Resume(k)
  BY <1>2, ResumeRowsKeeps DEF Resume
<1>3. CASE Cancel(k)
  <2>1. Present(k) /\ Remove({k}, WithSession({k}))
    BY <1>3 DEF Cancel, MayCancel, MayPause, Present
  <2> QED BY <1>0, <2>1, RemoveKeeps
<1>4. CASE Dismiss(k)
  <2>1. Present(k) /\ Remove({k}, {j \in WithSession({k}) : item[j].st # "complete"})
    BY <1>4 DEF Dismiss, MayDismiss, Finished, Present
  <2> QED BY <1>0, <2>1, RemoveKeeps
<1>5. CASE Retry(k)
  BY <1>0, <1>5, RetryRowsKeeps DEF Retry
<1>6. CASE ReplaceOne(k)
  <2> DEFINE S == IF item[k].dup THEN Rivals(k) ELSE {}
  <2>1. item[k].st = "needs-decision" /\ Decide({k}, S)
    BY <1>6 DEF ReplaceOne, MayReplace
  <2>2. item[k].batch \in SUBSET Key
    BY OfRow DEF AnyRow
  <2>3. S \in SUBSET Key /\ {k} \cap S = {} /\ \A j \in {k} \cup S : item[j].st = "needs-decision"
    BY <2>1, <2>2 DEF Rivals
  <2> HIDE DEF S
  <2> QED BY <1>0, <2>1, <2>3, DecideKeeps
<1>7. CASE SkipOne(k)
  <2>1. /\ Decide({}, {k}) /\ {} \in SUBSET Key /\ {} \cap {k} = {}
        /\ \A j \in {} \cup {k} : item[j].st = "needs-decision"
    BY <1>7 DEF SkipOne
  <2> QED BY <1>0, <2>1, DecideKeeps
<1> QED BY <1>1, <1>2, <1>3, <1>4, <1>5, <1>6, <1>7 DEF Row

LEMMA PanelKeeps ==
  ASSUME QueueIInv, PauseAll \/ ResumeAll \/ CancelAll \/ ClearFinished \/ RetryAll
  PROVE  QueueIInv'
<1>1. CASE PauseAll
  <2> DEFINE K == {k \in Key : MayPause(k)}
  <2>1. K \in SUBSET Key /\ (\A k \in K : MayPause(k)) /\ PauseRows(K, TRUE)
    BY <1>1 DEF PauseAll
  <2> HIDE DEF K
  <2> QED BY <2>1, PauseRowsKeeps
<1>2. CASE ResumeAll
  BY <1>2, ResumeRowsKeeps DEF ResumeAll
<1>3. CASE CancelAll
  <2> DEFINE K == {k \in Key : Present(k) /\ item[k].st \notin {"complete", "skipped"}}
  <2>1. K \in SUBSET Key /\ (\A k \in K : Present(k)) /\ Remove(K, WithSession(K))
    BY <1>3 DEF CancelAll
  <2> HIDE DEF K
  <2> QED BY <2>1, RemoveKeeps
<1>4. CASE ClearFinished
  <2> DEFINE K == In(Finished)
             S == {k \in K : item[k].st = "failed" /\ item[k].session = "open"}
  <2>1. K \in SUBSET Key /\ (\A k \in K : Present(k)) /\ Remove(K, S)
    BY <1>4 DEF ClearFinished, In, Finished, Present
  <2> HIDE DEF K, S
  <2> QED BY <2>1, RemoveKeeps
<1>5. CASE RetryAll
  <2> DEFINE K == {k \in Key : MayRetry(k)}
  <2>1. K \in SUBSET Key /\ (\A k \in K : MayRetry(k)) /\ RetryRows(K)
    BY <1>5 DEF RetryAll
  <2> HIDE DEF K
  <2> QED BY <2>1, RetryRowsKeeps
<1> QED BY <1>1, <1>2, <1>3, <1>4, <1>5

LEMMA BatchKeeps ==
  ASSUME QueueIInv, NEW B \in {item[k].batch : k \in Key}, ReplaceAll(B) \/ SkipAll(B)
  PROVE  QueueIInv'
<1>1. B \in SUBSET Key
  BY OfRow DEF AnyRow
<1>2. CASE ReplaceAll(B)
  <2> DEFINE C == {k \in Undecided(B) : MayReplace(k) /\ ~item[k].dup}
  <2>1. /\ C \in SUBSET Key /\ {} \in SUBSET Key /\ C \cap {} = {} /\ Decide(C, {})
        /\ \A k \in C \cup {} : item[k].st = "needs-decision"
    BY <1>1, <1>2 DEF ReplaceAll, Undecided
  <2> HIDE DEF C
  <2> QED BY <2>1, DecideKeeps
<1>3. CASE SkipAll(B)
  <2> DEFINE S == Undecided(B)
  <2>1. /\ S \in SUBSET Key /\ {} \in SUBSET Key /\ {} \cap S = {} /\ Decide({}, S)
        /\ \A k \in {} \cup S : item[k].st = "needs-decision"
    BY <1>1, <1>3 DEF SkipAll, Undecided
  <2> HIDE DEF S
  <2> QED BY <2>1, DecideKeeps
<1> QED BY <1>2, <1>3

-----------------------------------------------------------------------------
(* The server, the theorems *)

LEMMA ServerKeeps ==
  ASSUME QueueIInv, UNCHANGED <<rows, checks, held, batches, approved>>,
         srv' \in [Key -> AnySession], file' \in [Path -> Content],
         \A k \in Key : srv'[k].want = srv[k].want /\ srv'[k].known = srv[k].known
  PROVE  QueueIInv'
<1>1. UNCHANGED <<item, runner, checks, held, batches, approved>>
  BY DEF rows
<1>2. Types(item, runner, checks, batches, approved, srv', file')
  BY DEF QueueIInv, InvOf, Types
<1>3. \A k \in Key : RowOK(item[k], runner[k], approved[k], srv'[k])
  <2>1. \A k \in Key : RowOK(item[k], runner[k], approved[k], srv[k])
    BY OfRow
  <2> QED BY <2>1 DEF RowOK, Wanted
<1> QED BY <1>1, <1>2, <1>3 DEF QueueIInv, InvOf

LEMMA SessionKeeps ==
  ASSUME QueueIInv, NEW k, UNCHANGED <<rows, checks, held, batches, approved>>,
         file' \in [Path -> Content],
         NEW s \in {"open", "uploaded", "finalizing", "complete", "conflict", "cancelled", "expired"},
         k \in Key => srv[k].st # "none", srv' = [srv EXCEPT ![k].st = s]
  PROVE  QueueIInv'
<1>1. srv \in [Key -> AnySession]
  BY DEF QueueIInv, InvOf, Types
<1>2. CASE k \in Key
  <2> DEFINE v == [srv[k] EXCEPT !.st = s]
  <2>1. /\ v \in AnySession /\ v.want = srv[k].want /\ v.known = srv[k].known
        /\ srv' = [srv EXCEPT ![k] = v]
    BY <1>2, SessionMoves
  <2> HIDE DEF v
  <2>2. srv' \in [Key -> AnySession]
    BY <1>1, <1>2, <2>1
  <2>3. \A j \in Key : srv'[j].want = srv[j].want /\ srv'[j].known = srv[j].known
    BY <1>1, <1>2, <2>1
  <2> QED BY <2>2, <2>3, ServerKeeps
<1>3. CASE k \notin Key
  <2>1. srv' = srv
    BY <1>1, <1>3
  <2> QED BY <1>1, <2>1, ServerKeeps
<1> QED BY <1>2, <1>3

LEMMA ServerSteps ==
  ASSUME QueueIInv,
         \/ \E k \in Key : Finalise(k) \/ Expire(k)
         \/ \E m \in stray : HandleStray(m[1], m[2])
         \/ \E p \in Path : OtherWrites(p)
         \/ UNCHANGED vars
  PROVE  QueueIInv'
<1>0. file \in [Path -> Content] /\ srv \in [Key -> AnySession]
  BY DEF QueueIInv, InvOf, Types
<1>1. ASSUME NEW k \in Key, Finalise(k) PROVE QueueIInv'
  <2>1. k \in Content
    BY QueueAssumption DEF Content, Folder, Key
  <2>2. file' \in [Path -> Content]
    BY <1>0, <1>1, <2>1 DEF Finalise
  <2>3. /\ UNCHANGED <<rows, checks, held, batches, approved>> /\ srv[k].st # "none"
        /\ \E s \in {"complete", "conflict"} : srv' = [srv EXCEPT ![k].st = s]
    BY <1>1 DEF Finalise, client
  <2> QED BY <2>2, <2>3, SessionKeeps
<1>2. ASSUME NEW k \in Key, Expire(k) PROVE QueueIInv'
  <2>1. /\ UNCHANGED <<rows, checks, held, batches, approved>> /\ srv[k].st # "none"
        /\ srv' = [srv EXCEPT ![k].st = "expired"] /\ file' \in [Path -> Content]
    BY <1>0, <1>2 DEF Expire, client
  <2> QED BY <2>1, SessionKeeps
<1>3. ASSUME NEW m \in stray, HandleStray(m[1], m[2]) PROVE QueueIInv'
  <2> DEFINE k == m[1]
  <2>1. /\ UNCHANGED <<rows, checks, held, batches, approved>> /\ file' \in [Path -> Content]
        /\ srv' = srv \/ srv' = [srv EXCEPT ![k].st = Handled(k, m[2])]
    BY <1>0, <1>3 DEF HandleStray, client
  <2> HIDE DEF k
  <2>2. CASE srv' = srv
    BY <1>0, <2>1, <2>2, ServerKeeps
  <2>3. CASE /\ srv' = [srv EXCEPT ![k].st = Handled(k, m[2])]
             /\ Handled(k, m[2]) = srv[k].st
    <3>1. \A j \in Key : srv[j] = [srv[j] EXCEPT !.st = srv[j].st]
      BY <1>0 DEF AnySession
    <3>2. srv' = srv
      BY <1>0, <2>3, <3>1
    <3> QED BY <2>2, <3>2
  <2>4. CASE /\ srv' = [srv EXCEPT ![k].st = Handled(k, m[2])]
             /\ Handled(k, m[2]) # srv[k].st
    <3>1. /\ srv[k].st # "none"
          /\ Handled(k, m[2]) \in {"open", "uploaded", "finalizing", "complete", "conflict",
                                   "cancelled", "expired"}
      BY <2>4 DEF Handled
    <3> QED BY <2>1, <2>4, <3>1, SessionKeeps
  <2> QED BY <2>1, <2>2, <2>3, <2>4
<1>4. ASSUME NEW p \in Path, OtherWrites(p) PROVE QueueIInv'
  <2>1. Newer \in Content /\ Folder \in Content
    BY QueueAssumption DEF Content, Newer, Folder
  <2>2. /\ UNCHANGED <<rows, checks, held, batches, approved, srv>>
        /\ file' \in [Path -> Content]
    BY <1>0, <1>4, <2>1 DEF OtherWrites, client
  <2> QED BY <1>0, <2>2, ServerKeeps
<1>5. CASE UNCHANGED vars
  BY <1>0, <1>5, ServerKeeps DEF vars, client, server
<1> QED BY <1>1, <1>2, <1>3, <1>4, <1>5

LEMMA NextKeeps == QueueIInv /\ [Next]_vars => QueueIInv'
<1> SUFFICES ASSUME QueueIInv, [Next]_vars PROVE QueueIInv'
  OBVIOUS
<1>1. ASSUME NEW k \in Key, Runs(k) PROVE QueueIInv'
  BY <1>1, AnswerStatusKeeps, AnswerCreateKeeps, AnswerPutKeeps, AnswerReconcileKeeps,
     AnswerCompleteKeeps, AnswerDecidedKeeps, NetworkFailsKeeps, WakeKeeps, RecheckKeeps
     DEF Runs
<1>2. ASSUME NEW k \in Key, Row(k) PROVE QueueIInv'
  BY <1>2, RowKeeps
<1>3. ASSUME NEW K \in checks, CheckAnswered(K) \/ CheckFails(K) PROVE QueueIInv'
  BY <1>3, CheckAnsweredKeeps, CheckFailsKeeps
<1>4. ASSUME NEW B \in {item[k].batch : k \in Key}, ReplaceAll(B) \/ SkipAll(B)
      PROVE  QueueIInv'
  BY <1>4, BatchKeeps
<1>5. CASE Add
  BY <1>5, AddKeeps
<1>6. CASE PauseAll \/ ResumeAll \/ CancelAll \/ ClearFinished \/ RetryAll
  BY <1>6, PanelKeeps
<1>7. CASE \/ \E k \in Key : Finalise(k) \/ Expire(k)
           \/ \E m \in stray : HandleStray(m[1], m[2])
           \/ \E p \in Path : OtherWrites(p)
           \/ UNCHANGED vars
  BY <1>7, ServerSteps
<1> QED BY <1>1, <1>2, <1>3, <1>4, <1>5, <1>6, <1>7 DEF Next

(* upload-source-registry and removeKeys: the queue keeps the source of every  *)
(* row that can still be uploaded and of no other, for any number of rows,     *)
(* paths, slots, retries and failures.                                         *)
THEOREM SourcesAlways == Spec => []SourcesHeld
BY Initially, NextKeeps, InvImplies, PTL DEF Spec

(* archive batches: a batch that waits for its thumbnail has lost no part, and *)
(* some part of it is still to come, for any number of rows and batches.       *)
THEOREM BatchesAlways == Spec => []BatchesWait
BY Initially, NextKeeps, InvImplies, PTL DEF Spec

LEMMA FinaliseAgreed ==
  ASSUME QueueIInv, NEW k \in Key, Finalise(k), NEW p \in Path, file'[p] # file[p]
  PROVE  file'[p] = k /\ srv[k].want = file[p]
<1>1. file \in [Path -> Content]
  BY DEF QueueIInv, InvOf, Types
<1> QED BY <1>1 DEF Finalise

LEMMA OtherFiles ==
  ASSUME NEW p \in Path, OtherWrites(p), QueueIInv, NEW q \in Path, file'[q] # file[q]
  PROVE  file'[q] \notin Key
<1>1. Newer \notin Key /\ Folder \notin Key
  BY QueueAssumption DEF Newer, Folder, Key
<1>2. file \in [Path -> Content]
  BY DEF QueueIInv, InvOf, Types
<1> QED BY <1>1, <1>2 DEF OtherWrites

LEMMA FileSteps ==
  ASSUME [Next]_vars
  PROVE  UNCHANGED file \/ (\E k \in Key : Finalise(k)) \/ \E p \in Path : OtherWrites(p)
<1>1. ASSUME NEW k \in Key, Runs(k) PROVE UNCHANGED file
  BY <1>1 DEF Runs, AnswerStatus, AnswerCreate, CreatedTooLate, AnswerPut, AnswerReconcile,
              AnswerComplete, AnswerDecided, NetworkFails, Wake, Recheck, server
<1>2. ASSUME NEW k \in Key, Row(k) PROVE UNCHANGED file
  BY <1>2 DEF Row, Pause, Resume, Cancel, Dismiss, Retry, ReplaceOne, SkipOne,
              PauseRows, ResumeRows, Remove, RetryRows, Decide, server
<1>3. ASSUME NEW K \in checks, CheckAnswered(K) \/ CheckFails(K) PROVE UNCHANGED file
  BY <1>3 DEF CheckAnswered, CheckFails, server
<1>4. ASSUME NEW B, ReplaceAll(B) \/ SkipAll(B) PROVE UNCHANGED file
  BY <1>4 DEF ReplaceAll, SkipAll, Decide, server
<1>5. CASE Add \/ PauseAll \/ ResumeAll \/ CancelAll \/ ClearFinished \/ RetryAll
  BY <1>5 DEF Add, PauseAll, ResumeAll, CancelAll, ClearFinished, RetryAll,
              PauseRows, ResumeRows, Remove, RetryRows, server
<1>6. ASSUME NEW k \in Key, Expire(k) PROVE UNCHANGED file
  BY <1>6 DEF Expire
<1>7. ASSUME NEW m \in stray, HandleStray(m[1], m[2]) PROVE UNCHANGED file
  BY <1>7 DEF HandleStray
<1>8. CASE UNCHANGED vars
  BY <1>8 DEF vars, server
<1> QED BY <1>1, <1>2, <1>3, <1>4, <1>5, <1>6, <1>7, <1>8 DEF Next

(* replaceOne, replaceAll and createUploadSession: whatever a row went through *)
(* since, its upload replaces a file only in the version its user last agreed  *)
(* to replace, for any number of rows, paths, retries and other writers.       *)
THEOREM ReplacesAgreed == Spec => NoBlindReplace
<1> DEFINE Agrees == \A p \in Path : file'[p] \in Key /\ file'[p] # file[p] /\ file[p] # Absent
                                       => approved[file'[p]] = file[p]
<1>1. QueueIInv /\ [Next]_vars => Agrees
  <2> SUFFICES ASSUME QueueIInv, [Next]_vars, NEW p \in Path,
                      file'[p] \in Key, file'[p] # file[p], file[p] # Absent
               PROVE  approved[file'[p]] = file[p]
    OBVIOUS
  <2>1. ~UNCHANGED file
    OBVIOUS
  <2>2. ~\E q \in Path : OtherWrites(q)
    BY OtherFiles
  <2>3. PICK k \in Key : Finalise(k)
    BY <2>1, <2>2, FileSteps
  <2>4. file'[p] = k /\ srv[k].want = file[p]
    BY <2>3, FinaliseAgreed
  <2>5. Wanted(item[k], approved[k], srv[k])
    BY OfRow DEF RowOK
  <2> QED BY <2>4, <2>5 DEF Wanted
<1>2. QueueIInv /\ [Next]_vars => [Agrees]_file
  BY <1>1
<1>3. Spec => [][Agrees]_file
  BY <1>2, Initially, NextKeeps, PTL DEF Spec
<1> QED BY <1>3 DEF NoBlindReplace

-----------------------------------------------------------------------------
(* For any number of rows and slots: no more runners than slots, no slot left  *)
(* free while a row waits for it, and rows, runners and checks that agree.     *)

LiveKeys(rn) == {k \in Key : Live(rn, k)}
WaitingKeys(it, rn) == {k \in Key : it[k].st = "queued" /\ k \notin LiveKeys(rn)}

(* A row that shows an upload has a runner that was not told to stop, a row    *)
(* that is checked one that checks it, or a check on its way.                  *)
Worked(r, n) ==
  /\ r.st \in {"uploading", "retrying"} => n.pc # "idle" /\ ~n.aborted
  /\ r.st = "checking" => n.pc = "recheck" /\ ~n.aborted
Manned(it, rn, ch) ==
  \A k \in Key : \/ Worked(it[k], rn[k])
                 \/ it[k].st = "checking" /\ \E K \in ch : k \in K

(* A handler ends in schedule() and has started no runner of its own, or it    *)
(* frees no slot and adds nothing that waits for one.                          *)
Refills ==
  \E it, rn, paused :
    /\ Schedule(it, rn, paused) /\ LiveKeys(rn) \subseteq LiveKeys(runner)
    /\ Manned(it, rn, checks')
Rests ==
  /\ LiveKeys(runner') = LiveKeys(runner)
  /\ WaitingKeys(item', runner') = WaitingKeys(item, runner)
  /\ globallyPaused' = globallyPaused
  /\ Manned(item', runner', checks')
Shape == Refills \/ Rests

InSlots == Cardinality(LiveKeys(runner)) <= Slots
SlotsInv == QueueIInv /\ Manned(item, runner, checks) /\ InSlots /\ NoIdleSlot

-----------------------------------------------------------------------------
(* What schedule() does with the slots *)

LEMMA KeyFinite == IsFiniteSet(Key)
BY QueueAssumption, FS_Interval DEF Key

LEMMA KeysFinite ==
  ASSUME NEW S \in SUBSET Key PROVE IsFiniteSet(S) /\ Cardinality(S) \in Nat
BY KeyFinite, FS_Subset, FS_CardinalityType

LEMMA LastOf ==
  ASSUME NEW S \in SUBSET Key, S # {} PROVE \E m \in S : \A k \in S : k <= m
<1> DEFINE T == {Keys - k : k \in S}
<1>1. Keys \in Nat /\ \A k \in S : k \in Nat /\ k <= Keys
  BY QueueAssumption DEF Key
<1>2. T \subseteq Nat /\ T # {}
  BY <1>1
<1>3. PICK x \in T : \A y \in T : ~(<<y, x>> \in OpToRel(<, Nat))
  BY <1>2, NatLessThanWellFounded, WFMin
<1>4. \A y \in T : ~(y < x)
  BY <1>2, <1>3 DEF OpToRel
<1> QED BY <1>1, <1>4

LEMMA FreeSlots ==
  ASSUME NEW it, NEW rn, NEW paused
  PROVE  NextRunnable(it, rn, paused) =
           IF paused THEN {}
           ELSE {k \in WaitingKeys(it, rn) :
                   Cardinality(LiveKeys(rn))
                     + Cardinality({j \in WaitingKeys(it, rn) : j < k}) < Slots}
BY DEF NextRunnable, WaitingKeys, LiveKeys

LEMMA Started ==
  ASSUME NEW it, NEW rn, NEW paused, Schedule(it, rn, paused)
  PROVE  LET S == NextRunnable(it, rn, paused)
         IN /\ S \subseteq WaitingKeys(it, rn) /\ S \cap LiveKeys(rn) = {}
            /\ LiveKeys(runner') = LiveKeys(rn) \cup S
            /\ WaitingKeys(item', runner') = WaitingKeys(it, rn) \ S
            /\ globallyPaused' = paused
            /\ \A k \in S : runner'[k].pc # "idle" /\ runner'[k].pc # "recheck"
                            /\ ~runner'[k].aborted
            /\ \A k \in Key \ S : item'[k] = it[k] /\ runner'[k] = rn[k]
<1> DEFINE S == NextRunnable(it, rn, paused)
<1>1. S \subseteq WaitingKeys(it, rn)
  BY FreeSlots
<1>2. \A k \in S : k \in Key /\ runner'[k] = FirstRequest(it[k])
  BY <1>1 DEF Schedule, WaitingKeys
<1>3. \A k \in S : /\ runner'[k].pc # "idle" /\ runner'[k].pc # "recheck"
                   /\ ~runner'[k].aborted
  <2>1. ASSUME NEW r PROVE FirstRequest(r).pc \in {"create", "status"} /\ ~FirstRequest(r).aborted
    BY DEF FirstRequest
  <2> HIDE DEF S
  <2> QED BY <1>2, <2>1
<1>4. \A k \in Key \ S : item'[k] = it[k] /\ runner'[k] = rn[k]
  BY DEF Schedule
<1>5. globallyPaused' = paused
  BY DEF Schedule
<1> HIDE DEF S
<1>6. S \cap LiveKeys(rn) = {} /\ S \subseteq Key
  BY <1>1 DEF WaitingKeys
<1>7. LiveKeys(runner') = LiveKeys(rn) \cup S
  BY <1>3, <1>4, <1>6 DEF LiveKeys, Live
<1>8. WaitingKeys(item', runner') = WaitingKeys(it, rn) \ S
  BY <1>4, <1>6, <1>7 DEF WaitingKeys
<1> QED BY <1>1, <1>3, <1>4, <1>5, <1>6, <1>7, <1>8 DEF S

LEMMA ScheduleFills ==
  ASSUME NEW it, NEW rn, NEW paused, Schedule(it, rn, paused)
  PROVE  NoIdleSlot'
<1> DEFINE S == NextRunnable(it, rn, paused)
           R == LiveKeys(rn)
           W == WaitingKeys(it, rn)
<1>1. /\ S \subseteq W /\ S \cap R = {} /\ globallyPaused' = paused
      /\ LiveKeys(runner') = R \cup S /\ WaitingKeys(item', runner') = W \ S
  BY Started
<1>2. W \subseteq Key /\ R \subseteq Key
  BY DEF WaitingKeys, LiveKeys
<1>3. S = IF paused THEN {} ELSE {k \in W : Cardinality(R) + Cardinality({j \in W : j < k}) < Slots}
  BY FreeSlots
<1> HIDE DEF S, R, W
<1>4. CASE paused
  BY <1>1, <1>4 DEF NoIdleSlot, NextRunnable
<1>5. CASE ~paused
  <2> SUFFICES ASSUME NEW k \in W \ S,
                      Cardinality(R \cup S) + Cardinality({j \in W \ S : j < k}) < Slots
               PROVE  FALSE
    <3>1. NextRunnable(item', runner', globallyPaused') =
            {k \in W \ S : Cardinality(R \cup S) + Cardinality({j \in W \ S : j < k}) < Slots}
      BY <1>1, <1>5, FreeSlots
    <3> QED BY <3>1 DEF NoIdleSlot
  <2> DEFINE B == {j \in W : j < k}
             A == {j \in W \ S : j < k}
  <2>1. A \in SUBSET Key /\ B \in SUBSET Key /\ S \in SUBSET Key /\ R \in SUBSET Key
        /\ B \subseteq A \cup S /\ A \cap S = {}
    BY <1>1, <1>2
  <2>2. ~(Cardinality(R) + Cardinality(B) < Slots)
    BY <1>3, <1>5
  <2> HIDE DEF A, B
  <2>3. /\ IsFiniteSet(R) /\ IsFiniteSet(S) /\ IsFiniteSet(A) /\ IsFiniteSet(B)
        /\ Cardinality(R) \in Nat /\ Cardinality(S) \in Nat
        /\ Cardinality(A) \in Nat /\ Cardinality(B) \in Nat
    BY <2>1, KeysFinite
  <2>4. Cardinality({}) = 0
    BY FS_EmptySet
  <2>5. Cardinality(R \cup S) = Cardinality(R) + Cardinality(S)
    <3>1. Cardinality(R \cup S) = Cardinality(R) + Cardinality(S) - Cardinality(R \cap S)
      BY <2>3, FS_Union
    <3>2. Cardinality(R \cap S) = 0
      <4>1. R \cap S = {}
        BY <1>1
      <4> QED BY <2>4, <4>1
    <3> QED BY <2>3, <3>1, <3>2
  <2>6. IsFiniteSet(A \cup S) /\ Cardinality(A \cup S) = Cardinality(A) + Cardinality(S)
    <3>1. /\ IsFiniteSet(A \cup S)
          /\ Cardinality(A \cup S) = Cardinality(A) + Cardinality(S) - Cardinality(A \cap S)
      BY <2>3, FS_Union
    <3> QED BY <2>1, <2>3, <2>4, <3>1
  <2>7. Cardinality(B) <= Cardinality(A \cup S)
    BY <2>1, <2>6, FS_Subset
  <2>8. Cardinality(R \cup S) + Cardinality(A) < Slots
    BY DEF A
  <2>9. Slots \in Nat
    BY QueueAssumption
  <2> QED BY <2>2, <2>3, <2>5, <2>6, <2>7, <2>8, <2>9
<1> QED BY <1>4, <1>5

LEMMA ScheduleFits ==
  ASSUME NEW it, NEW rn, NEW paused, Schedule(it, rn, paused),
         Cardinality(LiveKeys(rn)) <= Slots
  PROVE  InSlots'
<1> DEFINE S == NextRunnable(it, rn, paused)
           R == LiveKeys(rn)
           W == WaitingKeys(it, rn)
<1>1. S \subseteq W /\ S \cap R = {} /\ LiveKeys(runner') = R \cup S
  BY Started
<1>2. W \in SUBSET Key /\ R \in SUBSET Key
  BY DEF WaitingKeys, LiveKeys
<1>3. \A k \in S : Cardinality(R) + Cardinality({j \in W : j < k}) < Slots
  BY FreeSlots
<1> HIDE DEF S, R, W
<1>4. CASE S = {}
  <2>1. LiveKeys(runner') = R
    BY <1>1, <1>4
  <2> QED BY <2>1 DEF InSlots, R
<1>5. CASE S # {}
  <2>0. S \in SUBSET Key
    BY <1>1, <1>2
  <2>1. PICK m \in S : \A k \in S : k <= m
    BY <1>5, <2>0, LastOf
  <2> DEFINE B == {j \in W : j < m}
  <2>2. B \in SUBSET Key /\ S \subseteq B \cup {m}
    <3>1. \A k \in Key : k \in Int
      BY DEF Key
    <3> QED BY <1>1, <1>2, <2>1, <3>1
  <2>3. Cardinality(R) + Cardinality(B) < Slots
    BY <1>3
  <2> HIDE DEF B
  <2>4. /\ IsFiniteSet(R) /\ IsFiniteSet(S) /\ IsFiniteSet(B) /\ Slots \in Nat
        /\ Cardinality(R) \in Nat /\ Cardinality(S) \in Nat /\ Cardinality(B) \in Nat
    <3>1. Slots \in Nat
      BY QueueAssumption
    <3>2. IsFiniteSet(R) /\ Cardinality(R) \in Nat
      BY <1>2, KeysFinite
    <3>3. IsFiniteSet(S) /\ Cardinality(S) \in Nat
      BY <2>0, KeysFinite
    <3>4. IsFiniteSet(B) /\ Cardinality(B) \in Nat
      BY <2>2, KeysFinite
    <3> QED BY <3>1, <3>2, <3>3, <3>4
  <2>5. IsFiniteSet(B \cup {m}) /\ Cardinality(B \cup {m}) <= Cardinality(B) + 1
    <3>1. /\ IsFiniteSet(B \cup {m})
          /\ Cardinality(B \cup {m}) = IF m \in B THEN Cardinality(B) ELSE Cardinality(B) + 1
      BY <2>4, FS_AddElement, Zenon
    <3>2. Cardinality(B) <= Cardinality(B) + 1 /\ Cardinality(B) + 1 <= Cardinality(B) + 1
      BY <2>4
    <3> QED BY <3>1, <3>2
  <2>6. Cardinality(S) <= Cardinality(B \cup {m}) /\ Cardinality(B \cup {m}) \in Nat
    BY <2>2, <2>5, FS_Subset, FS_CardinalityType
  <2>7. Cardinality(R \cup S) = Cardinality(R) + Cardinality(S)
    <3>1. Cardinality(R \cup S) = Cardinality(R) + Cardinality(S) - Cardinality(R \cap S)
      BY <2>4, FS_Union
    <3>2. R \cap S = {} /\ Cardinality({}) = 0
      BY <1>1, FS_EmptySet
    <3> QED BY <2>4, <3>1, <3>2
  <2>8. Cardinality(LiveKeys(runner')) <= Slots
    BY <1>1, <2>3, <2>4, <2>5, <2>6, <2>7
  <2> QED BY <2>8 DEF InSlots
<1> QED BY <1>4, <1>5

LEMMA ShapeKeeps ==
  ASSUME SlotsInv, QueueIInv', Shape PROVE SlotsInv'
<1>1. CASE Refills
  <2>1. PICK it, rn, paused : /\ Schedule(it, rn, paused)
                              /\ LiveKeys(rn) \subseteq LiveKeys(runner)
                              /\ Manned(it, rn, checks')
    BY <1>1 DEF Refills
  <2>2. NoIdleSlot'
    BY <2>1, ScheduleFills
  <2>3. InSlots'
    <3>1. LiveKeys(runner) \in SUBSET Key /\ LiveKeys(rn) \in SUBSET Key
      BY DEF LiveKeys
    <3>2. /\ Cardinality(LiveKeys(rn)) <= Cardinality(LiveKeys(runner))
          /\ Cardinality(LiveKeys(rn)) \in Nat /\ Cardinality(LiveKeys(runner)) \in Nat
      BY <2>1, <3>1, KeysFinite, FS_Subset
    <3>3. Cardinality(LiveKeys(rn)) <= Slots
      BY <3>2, QueueAssumption DEF SlotsInv, InSlots
    <3> QED BY <2>1, <3>3, ScheduleFits
  <2>4. Manned(item', runner', checks')
    <3> DEFINE S == NextRunnable(it, rn, paused)
    <3>1. /\ \A k \in S : /\ runner'[k].pc # "idle" /\ runner'[k].pc # "recheck"
                          /\ ~runner'[k].aborted
          /\ \A k \in Key \ S : item'[k] = it[k] /\ runner'[k] = rn[k]
      BY <2>1, Started
    <3> HIDE DEF S
    <3>2. ASSUME NEW k \in Key, k \in S PROVE Worked(item'[k], runner'[k])
      <4>1. RowOK(item'[k], runner'[k], approved'[k], srv'[k])
        BY DEF QueueIInv, InvOf
      <4> QED BY <3>1, <3>2, <4>1 DEF RowOK, Agree, Worked
    <3> QED BY <2>1, <3>1, <3>2 DEF Manned
  <2> QED BY <2>2, <2>3, <2>4 DEF SlotsInv
<1>2. CASE Rests
  <2>1. InSlots' /\ Manned(item, runner, checks)'
    BY <1>2 DEF Rests, SlotsInv, InSlots
  <2>2. NoIdleSlot'
    BY <1>2, FreeSlots DEF Rests, SlotsInv, NoIdleSlot
  <2> QED BY <2>1, <2>2 DEF SlotsInv
<1> QED BY <1>1, <1>2 DEF Shape

-----------------------------------------------------------------------------
(* The steps of one runner *)

LEMMA OneRow ==
  ASSUME QueueIInv, Manned(item, runner, checks), UNCHANGED checks,
         NEW k \in Key, NEW r, NEW n, Worked(r, n)
  PROVE  Manned(With(k, r), [runner EXCEPT ![k] = n], checks')
<1> DEFINE it == With(k, r)
           rn == [runner EXCEPT ![k] = n]
<1>1. /\ it[k] = r /\ rn[k] = n
      /\ \A j \in Key : j # k => it[j] = item[j] /\ rn[j] = runner[j]
  BY DEF QueueIInv, InvOf, Types, With
<1> HIDE DEF it, rn
<1>2. Manned(it, rn, checks')
  BY <1>1 DEF Manned
<1> QED BY <1>2 DEF it, rn

(* A row nobody has to work on.                                                *)
AtRest(r) == r.st \notin {"uploading", "retrying", "checking"}

LEMMA EndsShape ==
  ASSUME QueueIInv, Manned(item, runner, checks), UNCHANGED checks,
         NEW k \in Key, NEW r, AtRest(r), Ends(With(k, r), k)
  PROVE  Shape
<1> DEFINE it == With(k, r)
           rn == [runner EXCEPT ![k] = Idle]
<1>1. Manned(it, rn, checks')
  BY OneRow DEF AtRest, Worked
<1>2. LiveKeys(rn) \subseteq LiveKeys(runner)
  BY DEF LiveKeys, Live, Idle, QueueIInv, InvOf, Types
<1>3. Schedule(it, rn, globallyPaused)
  BY DEF Ends
<1> HIDE DEF it, rn
<1> QED BY <1>1, <1>2, <1>3 DEF Shape, Refills

LEMMA MovesShape ==
  ASSUME QueueIInv, Manned(item, runner, checks), UNCHANGED checks,
         NEW k \in Key, NEW r, NEW n, Worked(r, n), runner[k].pc # "idle", n.pc # "idle",
         Unscheduled(With(k, r), [runner EXCEPT ![k] = n])
  PROVE  Shape
<1>1. /\ runner'[k] = n /\ globallyPaused' = globallyPaused
      /\ \A j \in Key : j # k => item'[j] = item[j] /\ runner'[j] = runner[j]
  BY DEF Unscheduled, With, QueueIInv, InvOf, Types
<1>2. Manned(item', runner', checks')
  BY OneRow DEF Unscheduled
<1>3. LiveKeys(runner') = LiveKeys(runner)
  BY <1>1 DEF LiveKeys, Live
<1>4. k \in LiveKeys(runner)
  BY DEF LiveKeys, Live
<1>5. WaitingKeys(item', runner') = WaitingKeys(item, runner)
  BY <1>1, <1>3, <1>4 DEF WaitingKeys
<1> QED BY <1>1, <1>2, <1>3, <1>5 DEF Shape, Rests

LEMMA ContinueShape ==
  ASSUME QueueIInv, Manned(item, runner, checks), UNCHANGED checks,
         NEW k \in Key, NEW r, NEW pc, runner[k].pc # "idle", pc # "idle",
         runner[k].aborted => AtRest(r),
         ~runner[k].aborted => /\ r.st = "checking" => pc = "recheck",
         Continue(k, With(k, r), pc)
  PROVE  Shape
<1>1. CASE runner[k].aborted
  BY <1>1, EndsShape DEF Continue, Stopped
<1>2. CASE ~runner[k].aborted
  <2> DEFINE n == [runner[k] EXCEPT !.pc = pc]
  <2>1. n.pc = pc /\ ~n.aborted
    BY <1>2, OfRow DEF AnyRunner
  <2>2. At(k, pc) = [runner EXCEPT ![k] = n]
    BY DEF At
  <2>3. Unscheduled(With(k, r), [runner EXCEPT ![k] = n])
    BY <1>2, <2>2 DEF Continue, Stopped
  <2> HIDE DEF n
  <2> QED BY <1>2, <2>1, <2>3, MovesShape DEF Worked
<1> QED BY <1>1, <1>2

(* A row whose runner was told to stop is at rest.                             *)
LEMMA StoppedRow ==
  ASSUME QueueIInv, NEW k \in Key, runner[k].pc # "idle", runner[k].aborted
  PROVE  AtRest(item[k])
<1>1. RowOK(item[k], runner[k], approved[k], srv[k])
  BY OfRow
<1> QED BY <1>1 DEF RowOK, Agree, AtRest

LEMMA EndsItemShape ==
  ASSUME QueueIInv, Manned(item, runner, checks), UNCHANGED checks,
         NEW k \in Key, AtRest(item[k]), Ends(item, k)
  PROVE  Shape
<1>1. item = With(k, item[k])
  BY OfRow
<1>2. Ends(With(k, item[k]), k)
  BY <1>1
<1> QED BY <1>2, EndsShape

LEMMA ContinueItemShape ==
  ASSUME QueueIInv, Manned(item, runner, checks), UNCHANGED checks,
         NEW k \in Key, NEW pc, runner[k].pc \notin {"idle", "recheck"}, pc # "idle",
         Continue(k, item, pc)
  PROVE  Shape
<1>1. item = With(k, item[k])
  BY OfRow
<1>2. Continue(k, With(k, item[k]), pc)
  BY <1>1
<1>3. ~runner[k].aborted => item[k].st # "checking"
  <2>1. RowOK(item[k], runner[k], approved[k], srv[k])
    BY OfRow
  <2> QED BY <2>1 DEF RowOK, Agree
<1> QED BY <1>2, <1>3, StoppedRow, ContinueShape

LEMMA FailsShape ==
  ASSUME QueueIInv, Manned(item, runner, checks), UNCHANGED checks,
         NEW k \in Key, NEW e \in BOOLEAN, Ends(With(k, Failed(item[k], e)), k)
  PROVE  Shape
<1>1. AtRest(Failed(item[k], e))
  BY OfRow, FailedRow DEF AtRest
<1> QED BY <1>1, EndsShape

LEMMA PermanentShape ==
  ASSUME QueueIInv, Manned(item, runner, checks), UNCHANGED checks,
         NEW k \in Key, runner[k].pc # "idle", Permanent(k)
  PROVE  Shape
<1>1. CASE runner[k].aborted
  BY <1>1, StoppedRow, EndsItemShape DEF Permanent, Stopped
<1>2. CASE ~runner[k].aborted
  <2>1. Ends(With(k, Failed(item[k], FALSE)), k)
    BY <1>2 DEF Permanent, Stopped
  <2> QED BY <2>1, FailsShape
<1> QED BY <1>1, <1>2

LEMMA TransientShape ==
  ASSUME QueueIInv, Manned(item, runner, checks), UNCHANGED checks,
         NEW k \in Key, runner[k].pc # "idle", Transient(k)
  PROVE  Shape
<1>1. CASE runner[k].aborted
  BY <1>1, StoppedRow, EndsItemShape DEF Transient, Stopped
<1>2. CASE Ends(With(k, Failed(item[k], TRUE)), k)
  BY <1>2, FailsShape
<1>3. CASE /\ ~runner[k].aborted
           /\ Unscheduled(With(k, [item[k] EXCEPT !.st = "retrying", !.retries = @ + 1]),
                          At(k, "sleep"))
  <2> DEFINE r == [item[k] EXCEPT !.st = "retrying", !.retries = @ + 1]
             n == [runner[k] EXCEPT !.pc = "sleep"]
  <2>1. r.st = "retrying" /\ n.pc = "sleep" /\ ~n.aborted
    BY <1>3, OfRow DEF AnyRow, AnyRunner
  <2>2. Unscheduled(With(k, r), [runner EXCEPT ![k] = n])
    BY <1>3 DEF At
  <2> HIDE DEF r, n
  <2> QED BY <2>1, <2>2, MovesShape DEF Worked
<1> QED BY <1>1, <1>2, <1>3 DEF Transient, Stopped

LEMMA RunsShape ==
  ASSUME QueueIInv, Manned(item, runner, checks), NEW k \in Key, Runs(k) PROVE Shape
<1>0. UNCHANGED checks
  BY DEF Runs, AnswerStatus, AnswerCreate, CreatedTooLate, AnswerPut, AnswerReconcile,
         AnswerComplete, AnswerDecided, NetworkFails, Wake, Recheck, client
<1>1. CASE AnswerStatus(k)
  <2>1. /\ runner[k].pc = "status" /\ item[k].st = "uploading" /\ ~runner[k].aborted
        /\ item[k] \in AnyRow
    BY <1>1, LiveRow, OfRow DEF AnswerStatus, Deaf
  <2>2. CASE Permanent(k)
    BY <1>0, <2>1, <2>2, PermanentShape
  <2>3. ASSUME NEW x, NEW pc \in {"complete", "put"},
               Continue(k, With(k, [item[k] EXCEPT !.session = x]), pc)
        PROVE  Shape
    <3> DEFINE r == [item[k] EXCEPT !.session = x]
    <3>1. r.st = "uploading" /\ Continue(k, With(k, r), pc)
      BY <2>1, <2>3 DEF AnyRow
    <3> HIDE DEF r
    <3> QED BY <1>0, <2>1, <3>1, ContinueShape
  <2> QED BY <1>1, <2>2, <2>3 DEF AnswerStatus
<1>2. CASE AnswerCreate(k)
  <2>1. runner[k].pc = "create" /\ item[k] \in AnyRow
    BY <1>2, OfRow DEF AnswerCreate
  <2>2. CASE Changed(k)
    <3>1. CASE runner[k].aborted
      BY <1>0, <2>1, <2>2, <3>1, StoppedRow, EndsItemShape DEF Changed, Continue, Stopped
    <3>2. CASE ~runner[k].aborted
      <4> DEFINE r == TargetChanged(item[k])
      <4>1. Continue(k, With(k, r), "recheck")
        BY <2>2, <3>2 DEF Changed, Stopped
      <4> HIDE DEF r
      <4> QED BY <1>0, <2>1, <3>2, <4>1, ContinueShape
    <3> QED BY <3>1, <3>2
  <2>3. CASE Continue(k, With(k, [item[k] EXCEPT !.session = "open"]), "put")
    <3> DEFINE r == [item[k] EXCEPT !.session = "open"]
    <3>1. r.st = item[k].st /\ Continue(k, With(k, r), "put")
      BY <2>1, <2>3 DEF AnyRow
    <3> HIDE DEF r
    <3>2. runner[k].aborted => AtRest(r)
      BY <2>1, <3>1, StoppedRow DEF AtRest
    <3>3. ~runner[k].aborted => r.st = "uploading"
      BY <2>1, <3>1, LiveRow
    <3> QED BY <1>0, <2>1, <3>1, <3>2, <3>3, ContinueShape
  <2>4. CASE ~Present(k) /\ CreatedTooLate(k)
    BY <1>0, <2>4, EndsItemShape DEF CreatedTooLate, Present, AtRest
  <2> QED BY <1>2, <2>2, <2>3, <2>4 DEF AnswerCreate
<1>3. CASE AnswerPut(k)
  <2>1. runner[k].pc = "put"
    BY <1>3 DEF AnswerPut
  <2> QED BY <1>0, <1>3, <2>1, PermanentShape, ContinueItemShape DEF AnswerPut
<1>4. CASE AnswerReconcile(k)
  <2>1. runner[k].pc = "reconcile"
    BY <1>4 DEF AnswerReconcile
  <2> QED BY <1>0, <1>4, <2>1, ContinueItemShape DEF AnswerReconcile
<1>5. ASSUME Completes(k) PROVE Shape
  <2> DEFINE r == Complete(item[k])
  <2>1. AtRest(r)
    BY OfRow DEF Complete, AnyRow, AtRest
  <2>2. Ends(With(k, r), k)
    BY <1>5 DEF Completes
  <2> HIDE DEF r
  <2> QED BY <1>0, <2>1, <2>2, EndsShape
<1>6. CASE AnswerComplete(k)
  <2>1. runner[k].pc = "complete"
    BY <1>6 DEF AnswerComplete
  <2>2. Continue(k, item, "deciding") \/ Completes(k) \/ Permanent(k)
    BY <1>6 DEF AnswerComplete
  <2> QED BY <1>0, <1>5, <2>1, <2>2, PermanentShape, ContinueItemShape
<1>7. CASE AnswerDecided(k)
  <2>1. runner[k].pc = "deciding" /\ (Completes(k) \/ Permanent(k))
    BY <1>7 DEF AnswerDecided
  <2> QED BY <1>0, <1>5, <2>1, PermanentShape
<1>8. CASE NetworkFails(k)
  <2>1. runner[k].pc # "idle" /\ Transient(k)
    BY <1>8 DEF NetworkFails
  <2> QED BY <1>0, <2>1, TransientShape
<1>9. CASE Wake(k)
  <2> DEFINE r == [item[k] EXCEPT !.st = "uploading"]
             n == FirstRequest(item[k])
  <2>1. r.st = "uploading" /\ n.pc # "idle" /\ ~n.aborted /\ runner[k].pc # "idle"
    BY <1>9, OfRow, FirstRequestRunner DEF Wake, AnyRow
  <2>2. Unscheduled(With(k, r), [runner EXCEPT ![k] = n])
    BY <1>9 DEF Wake
  <2> HIDE DEF r, n
  <2> QED BY <1>0, <2>1, <2>2, MovesShape DEF Worked
<1>10. CASE Recheck(k)
  <2>1. runner[k].pc = "recheck"
    BY <1>10 DEF Recheck
  <2>2. CASE item[k].st # "checking"
    <3>1. Answered({k}) = item /\ \A e \in BOOLEAN : Unanswered({k}, e) = item
      BY <2>2 DEF Answered, Unanswered, QueueIInv, InvOf, Types
    <3>2. Ends(item, k)
      BY <1>10, <3>1 DEF Recheck
    <3>3. AtRest(item[k])
      <4>1. RowOK(item[k], runner[k], approved[k], srv[k])
        BY OfRow
      <4> QED BY <2>1, <2>2, <4>1 DEF RowOK, Agree, AtRest
    <3> QED BY <1>0, <3>2, <3>3, EndsItemShape
  <2>3. CASE item[k].st = "checking"
    <3>1. CASE Ends(Answered({k}), k)
      <4> DEFINE q == Checked(item[k], StatusOf(item[k].path), file[item[k].path])
      <4>1. Answered({k}) = With(k, q)
        BY <2>3 DEF Answered, With, QueueIInv, InvOf, Types
      <4>2. AtRest(q)
        BY <2>3, AnsweredRow DEF Judged, AtRest
      <4> HIDE DEF q
      <4>3. Ends(With(k, q), k)
        BY <3>1, <4>1
      <4> QED BY <1>0, <4>2, <4>3, EndsShape
    <3>2. ASSUME NEW e \in BOOLEAN, Ends(Unanswered({k}, e), k) PROVE Shape
      <4>1. Unanswered({k}, e) = With(k, Failed(item[k], e))
        BY <2>3 DEF Unanswered, With, QueueIInv, InvOf, Types
      <4>2. Ends(With(k, Failed(item[k], e)), k)
        BY <3>2, <4>1
      <4> QED BY <1>0, <4>2, FailsShape
    <3> QED BY <1>10, <3>1, <3>2 DEF Recheck
  <2> QED BY <2>2, <2>3
<1> QED BY <1>1, <1>2, <1>3, <1>4, <1>6, <1>7, <1>8, <1>9, <1>10 DEF Runs

-----------------------------------------------------------------------------
(* Preflight and the buttons *)

LEMMA AtRestWorked == ASSUME NEW r, NEW n, AtRest(r) PROVE Worked(r, n)
BY DEF AtRest, Worked

(* What a handler must show: rows it changed are at rest, others keep who      *)
(* works on them.                                                              *)
LEMMA Refilled ==
  ASSUME NEW it, NEW rn, NEW paused, Schedule(it, rn, paused),
         LiveKeys(rn) \subseteq LiveKeys(runner), Manned(item, runner, checks),
         \A k \in Key : \/ AtRest(it[k])
                        \/ it[k].st = "checking" /\ \E K \in checks' : k \in K
                        \/ /\ it[k] = item[k] /\ rn[k] = runner[k]
                           /\ \A K \in checks : k \in K => \E L \in checks' : k \in L
  PROVE  Shape
<1>1. Manned(it, rn, checks')
  BY AtRestWorked DEF Manned
<1> QED BY <1>1 DEF Shape, Refills

LEMMA CheckAnsweredShape ==
  ASSUME QueueIInv, Manned(item, runner, checks), NEW K \in checks, CheckAnswered(K)
  PROVE  Shape
<1> DEFINE it == Answered(K)
<1>1. \A k \in Key : it[k] = IF k \in K /\ item[k].st = "checking"
                             THEN Checked(item[k], StatusOf(item[k].path), file[item[k].path])
                             ELSE item[k]
  BY DEF Answered
<1>2. Schedule(it, runner, globallyPaused) /\ checks' = checks \ {K}
  BY DEF CheckAnswered
<1> HIDE DEF it
<1>3. ASSUME NEW k \in Key
      PROVE  \/ AtRest(it[k])
             \/ it[k] = item[k] /\ \A M \in checks : k \in M => \E L \in checks' : k \in L
  <2>1. CASE item[k].st = "checking" /\ k \in K
    BY <1>1, <2>1, AnsweredRow DEF Judged, AtRest
  <2>2. CASE k \notin K
    BY <1>1, <1>2, <2>2
  <2>3. CASE item[k].st # "checking" /\ k \in K
    <3>1. item[k].st = "gone" /\ it[k] = item[k]
      BY <1>1, <2>3 DEF QueueIInv, InvOf, ChecksApart
    <3> QED BY <3>1 DEF AtRest
  <2> QED BY <2>1, <2>2, <2>3
<1> QED BY <1>2, <1>3, Refilled

LEMMA CheckFailsShape ==
  ASSUME QueueIInv, Manned(item, runner, checks), NEW K \in checks, CheckFails(K)
  PROVE  Shape
<1>1. PICK e \in BOOLEAN : Unscheduled(Unanswered(K, e), runner)
  BY DEF CheckFails
<1>2. /\ runner' = runner /\ globallyPaused' = globallyPaused /\ checks' = checks \ {K}
      /\ \A k \in Key : item'[k] = IF k \in K /\ item[k].st = "checking"
                                   THEN Failed(item[k], e) ELSE item[k]
  BY <1>1 DEF Unscheduled, Unanswered, CheckFails
<1>3. \A k \in Key : \/ item'[k] = item[k]
                     \/ /\ k \in K /\ item[k].st = "checking" /\ AtRest(item'[k])
                        /\ item'[k].st # "queued"
  BY <1>2, OfRow, FailedRow DEF AtRest
<1>4. ASSUME NEW k \in Key
      PROVE  \/ AtRest(item'[k])
             \/ item'[k] = item[k] /\ \A M \in checks : k \in M => \E L \in checks' : k \in L
  <2>1. CASE item[k].st = "checking" /\ k \in K
    BY <1>2, <2>1, UnansweredRow DEF Judged, AtRest
  <2>2. CASE k \notin K
    BY <1>2, <2>2
  <2>3. CASE item[k].st # "checking" /\ k \in K
    <3>1. item[k].st = "gone" /\ item'[k] = item[k]
      BY <1>2, <2>3 DEF QueueIInv, InvOf, ChecksApart
    <3> QED BY <3>1 DEF AtRest
  <2> QED BY <2>1, <2>2, <2>3
<1>5. Manned(item', runner', checks')
  BY <1>2, <1>4, AtRestWorked DEF Manned
<1>6. LiveKeys(runner') = LiveKeys(runner)
  BY <1>2
<1>7. WaitingKeys(item', runner') = WaitingKeys(item, runner)
  BY <1>3, <1>6 DEF WaitingKeys
<1> QED BY <1>2, <1>5, <1>6, <1>7 DEF Shape, Rests

LEMMA AbortedLive ==
  ASSUME QueueIInv, NEW K PROVE LiveKeys(Aborted(K)) \subseteq LiveKeys(runner)
BY AbortedRunners DEF LiveKeys, Live

LEMMA PauseRowsShape ==
  ASSUME QueueIInv, Manned(item, runner, checks), NEW K, \A k \in K : MayPause(k),
         NEW paused, PauseRows(K, paused)
  PROVE  Shape
<1> DEFINE it == [k \in Key |-> IF k \in K THEN Paused(item[k]) ELSE item[k]]
           rn == Aborted(K)
<1>1. \A k \in Key : k \in K => AtRest(it[k])
  BY OfRow DEF MayPause, Paused, AtRest, AnyRow
<1>2. \A k \in Key : k \notin K => it[k] = item[k] /\ rn[k] = runner[k]
  BY AbortedRunners
<1>3. Schedule(it, rn, paused) /\ checks' = checks
  BY DEF PauseRows, client
<1>4. LiveKeys(rn) \subseteq LiveKeys(runner)
  BY AbortedLive
<1> HIDE DEF it, rn
<1> QED BY <1>1, <1>2, <1>3, <1>4, Refilled

LEMMA ResumeRowsShape ==
  ASSUME QueueIInv, Manned(item, runner, checks), NEW K, NEW paused, ResumeRows(K, paused)
  PROVE  Shape
<1> DEFINE it == [k \in Key |-> IF k \in K THEN Resumed(item[k]) ELSE item[k]]
<1>1. \A k \in Key : AtRest(it[k]) \/ it[k] = item[k]
  BY OfRow DEF Resumed, AtRest, AnyRow
<1>2. Schedule(it, runner, paused) /\ checks' = checks
  BY DEF ResumeRows, client
<1> HIDE DEF it
<1> QED BY <1>1, <1>2, Refilled

LEMMA RemoveShape ==
  ASSUME QueueIInv, Manned(item, runner, checks), NEW K, NEW S, Remove(K, S)
  PROVE  Shape
<1> DEFINE it == [k \in Key |-> IF k \in K THEN Blank("gone") ELSE item[k]]
           rn == Aborted(K)
<1>1. \A k \in Key : k \in K => AtRest(it[k])
  BY DEF Blank, AtRest
<1>2. \A k \in Key : k \notin K => it[k] = item[k] /\ rn[k] = runner[k]
  BY AbortedRunners
<1>3. Schedule(it, rn, globallyPaused) /\ checks' = checks
  BY DEF Remove
<1>4. LiveKeys(rn) \subseteq LiveKeys(runner)
  BY AbortedLive
<1> HIDE DEF it, rn
<1> QED BY <1>1, <1>2, <1>3, <1>4, Refilled

LEMMA RetryRowsShape ==
  ASSUME QueueIInv, Manned(item, runner, checks), NEW K, \A k \in K : MayRetry(k), RetryRows(K)
  PROVE  Shape
<1> DEFINE it == [k \in Key |-> IF k \in K THEN Retried(item[k]) ELSE item[k]]
           again == {k \in K : it[k].st = "checking"}
<1>1. /\ Schedule(it, runner, globallyPaused)
      /\ checks' = IF again = {} THEN checks ELSE checks \cup {again}
  BY DEF RetryRows
<1>2. ASSUME NEW k \in Key, k \in K
      PROVE  it[k].st \in {"queued", "paused", "checking"}
  <2>1. item[k] \in AnyRow /\ item[k].st = "failed" /\ item[k].eligible
    BY <1>2, OfRow DEF MayRetry
  <2>2. it[k] = Retried(item[k])
    BY <1>2
  <2> HIDE DEF it
  <2> QED BY <2>1, <2>2 DEF Retried, Released, AnyRow
<1>3. \A k \in Key : \/ k \notin K /\ it[k] = item[k]
                     \/ AtRest(it[k])
                     \/ it[k].st = "checking" /\ k \in again
  BY <1>2 DEF AtRest
<1> HIDE DEF it, again
<1>4. \A M \in checks : M \in checks'
  BY <1>1
<1>5. \A k \in again : \E L \in checks' : k \in L
  BY <1>1
<1> QED BY <1>1, <1>3, <1>4, <1>5, Refilled

LEMMA DecideShape ==
  ASSUME QueueIInv, Manned(item, runner, checks), NEW C, NEW S, Decide(C, S)
  PROVE  Shape
<1> DEFINE it == [k \in Key |-> IF k \in C THEN Chosen(item[k])
                                ELSE IF k \in S THEN Skipped(item[k]) ELSE item[k]]
<1>1. ASSUME NEW k \in Key, k \in C PROVE AtRest(it[k])
  <2> DEFINE r == [item[k] EXCEPT !.overwrite = item[k].target = "conflict",
                                  !.eligible = FALSE]
  <2>1. r \in AnyRow
    BY OfRow, ChoiceRow
  <2>2. it[k] = IF globallyPaused THEN [r EXCEPT !.st = "paused"] ELSE [r EXCEPT !.st = "queued"]
    BY <1>1 DEF Chosen, Released
  <2> HIDE DEF r, it
  <2> QED BY <2>1, <2>2 DEF AnyRow, AtRest
<1>2. ASSUME NEW k \in Key, k \in S, k \notin C PROVE AtRest(it[k])
  <2>1. it[k] = Skipped(item[k]) /\ item[k] \in AnyRow
    BY <1>2, OfRow
  <2> HIDE DEF it
  <2> QED BY <2>1 DEF Skipped, AnyRow, AtRest
<1>3. \A k \in Key : k \notin C \cup S => it[k] = item[k]
  OBVIOUS
<1>4. Schedule(it, runner, globallyPaused) /\ checks' = checks
  BY DEF Decide
<1> HIDE DEF it
<1> QED BY <1>1, <1>2, <1>3, <1>4, Refilled

LEMMA AddShape == ASSUME QueueIInv, Manned(item, runner, checks), Add PROVE Shape
<1>1. PICK K, path :
        /\ Unscheduled(Fresh(K, path), runner)
        /\ checks' = checks \cup {K} /\ \A k \in K \cap Key : item[k].st = "new"
  <2>1. PICK n0 \in 0..Keys : Added = n0 /\ \A k \in Key : item[k].st = "new" <=> k > n0
    BY AddedRows
  <2>2. Added = n0
    BY <2>1
  <2>3. PICK n \in 1..(Keys - n0), archive \in BOOLEAN :
          LET K == (n0 + 1)..(n0 + n)
          IN \E path \in [K -> Path] :
               Unscheduled(Fresh(K, path), runner) /\ checks' = checks \cup {K}
    BY <2>2 DEF Add
  <2>4. \A k \in ((n0 + 1)..(n0 + n)) \cap Key : item[k].st = "new"
    BY <2>1 DEF Key
  <2> QED BY <2>3, <2>4
<1>2. /\ runner' = runner /\ globallyPaused' = globallyPaused
      /\ \A k \in Key : k \notin K => item'[k] = item[k]
  BY <1>1 DEF Unscheduled, Fresh
<1>3. \A k \in Key : k \in K => item'[k].st = "checking"
  BY <1>1 DEF Unscheduled, Fresh, Blank
<1>4. Manned(item', runner', checks')
  BY <1>1, <1>2, <1>3 DEF Manned
<1>5. LiveKeys(runner') = LiveKeys(runner)
  BY <1>2
<1>6. WaitingKeys(item', runner') = WaitingKeys(item, runner)
  BY <1>1, <1>2, <1>3, <1>5 DEF WaitingKeys
<1> QED BY <1>2, <1>4, <1>5, <1>6 DEF Shape, Rests

LEMMA RowShape ==
  ASSUME QueueIInv, Manned(item, runner, checks), NEW k \in Key, Row(k) PROVE Shape
<1>1. CASE Pause(k)
  BY <1>1, PauseRowsShape DEF Pause
<1>2. CASE Resume(k)
  BY <1>2, ResumeRowsShape DEF Resume
<1>3. CASE Cancel(k) \/ Dismiss(k)
  BY <1>3, RemoveShape DEF Cancel, Dismiss
<1>4. CASE Retry(k)
  BY <1>4, RetryRowsShape DEF Retry
<1>5. CASE ReplaceOne(k) \/ SkipOne(k)
  BY <1>5, DecideShape DEF ReplaceOne, SkipOne
<1> QED BY <1>1, <1>2, <1>3, <1>4, <1>5 DEF Row

LEMMA PanelShape ==
  ASSUME QueueIInv, Manned(item, runner, checks),
         \/ PauseAll \/ ResumeAll \/ CancelAll \/ ClearFinished \/ RetryAll
         \/ \E B \in {item[k].batch : k \in Key} : ReplaceAll(B) \/ SkipAll(B)
  PROVE  Shape
<1>1. CASE PauseAll
  <2> DEFINE K == {k \in Key : MayPause(k)}
  <2>1. (\A k \in K : MayPause(k)) /\ PauseRows(K, TRUE)
    BY <1>1 DEF PauseAll
  <2> HIDE DEF K
  <2> QED BY <2>1, PauseRowsShape
<1>2. CASE ResumeAll
  BY <1>2, ResumeRowsShape DEF ResumeAll
<1>3. CASE CancelAll \/ ClearFinished
  BY <1>3, RemoveShape DEF CancelAll, ClearFinished
<1>4. CASE RetryAll
  <2> DEFINE K == {k \in Key : MayRetry(k)}
  <2>1. (\A k \in K : MayRetry(k)) /\ RetryRows(K)
    BY <1>4 DEF RetryAll
  <2> HIDE DEF K
  <2> QED BY <2>1, RetryRowsShape
<1>5. CASE \E B \in {item[k].batch : k \in Key} : ReplaceAll(B) \/ SkipAll(B)
  BY <1>5, DecideShape DEF ReplaceAll, SkipAll
<1> QED BY <1>1, <1>2, <1>3, <1>4, <1>5

LEMMA ServerShape ==
  ASSUME Manned(item, runner, checks), UNCHANGED <<rows, checks>> PROVE Shape
BY DEF rows, Shape, Rests

LEMMA NextShape ==
  ASSUME QueueIInv, Manned(item, runner, checks), [Next]_vars PROVE Shape
<1>1. ASSUME NEW k \in Key, Runs(k) \/ Row(k) PROVE Shape
  BY <1>1, RunsShape, RowShape
<1>2. ASSUME NEW K \in checks, CheckAnswered(K) \/ CheckFails(K) PROVE Shape
  BY <1>2, CheckAnsweredShape, CheckFailsShape
<1>3. CASE Add
  BY <1>3, AddShape
<1>4. CASE \/ PauseAll \/ ResumeAll \/ CancelAll \/ ClearFinished \/ RetryAll
           \/ \E B \in {item[k].batch : k \in Key} : ReplaceAll(B) \/ SkipAll(B)
  BY <1>4, PanelShape
<1>5. CASE \/ \E k \in Key : Finalise(k) \/ Expire(k)
           \/ \E m \in stray : HandleStray(m[1], m[2])
           \/ \E p \in Path : OtherWrites(p)
           \/ UNCHANGED vars
  <2>1. UNCHANGED <<rows, checks>>
    BY <1>5 DEF Finalise, Expire, HandleStray, OtherWrites, client, vars
  <2> QED BY <2>1, ServerShape
<1> QED BY <1>1, <1>2, <1>3, <1>4, <1>5 DEF Next

-----------------------------------------------------------------------------
LEMMA SlotsInitially == Init => SlotsInv
<1> SUFFICES ASSUME Init PROVE SlotsInv
  OBVIOUS
<1>1. \A k \in Key : item[k].st = "new" /\ runner[k].pc = "idle"
  BY DEF Init, Blank, Idle
<1>2. LiveKeys(runner) = {} /\ WaitingKeys(item, runner) = {}
  BY <1>1 DEF LiveKeys, WaitingKeys, Live
<1>3. InSlots
  BY <1>2, FS_EmptySet, QueueAssumption DEF InSlots
<1>4. NoIdleSlot
  BY <1>2, FreeSlots DEF NoIdleSlot
<1>5. Manned(item, runner, checks)
  BY <1>1 DEF Manned, Worked
<1> QED BY <1>3, <1>4, <1>5, Initially DEF SlotsInv

LEMMA SlotsKept == SlotsInv /\ [Next]_vars => SlotsInv'
BY NextKeeps, NextShape, ShapeKeeps DEF SlotsInv

(* upload-queue-service: schedule() leaves no slot free while a row waits for  *)
(* one, whatever sequence of pauses, cancellations, failures and answers led   *)
(* there, for any number of rows and slots.                                    *)
THEOREM NoSlotIdles == Spec => []NoIdleSlot
<1>1. SlotsInv => NoIdleSlot
  BY DEF SlotsInv
<1> QED BY <1>1, SlotsInitially, SlotsKept, PTL DEF Spec

-----------------------------------------------------------------------------
AskedKeys == asked \subseteq Key

LEMMA AskedInitially == Init => AskedKeys
BY DEF Init, AskedKeys

LEMMA AskedKept == AskedKeys /\ [Next]_vars => AskedKeys'
<1> SUFFICES ASSUME AskedKeys, [Next]_vars PROVE asked' \subseteq Key
  BY DEF AskedKeys
<1>0. asked \subseteq Key
  BY DEF AskedKeys
<1>1. ASSUME NEW k \in Key, Runs(k) PROVE asked' \subseteq Key
  BY <1>0, <1>1 DEF Runs, AnswerStatus, AnswerCreate, CreatedTooLate, AnswerPut,
         AnswerReconcile, AnswerComplete, AnswerDecided, NetworkFails, Wake, Recheck, client
<1>2. ASSUME NEW k \in Key, Row(k) PROVE asked' \subseteq Key
  BY <1>0, <1>2 DEF Row, Pause, Resume, Cancel, Dismiss, Retry, ReplaceOne, SkipOne,
         PauseRows, ResumeRows, Remove, RetryRows, Decide, WithSession, client
<1>3. ASSUME NEW K, CheckAnswered(K) \/ CheckFails(K) PROVE asked' \subseteq Key
  BY <1>0, <1>3 DEF CheckAnswered, CheckFails
<1>4. ASSUME NEW B, ReplaceAll(B) \/ SkipAll(B) PROVE asked' \subseteq Key
  BY <1>0, <1>4 DEF ReplaceAll, SkipAll, Decide
<1>5. CASE Add \/ PauseAll \/ ResumeAll \/ RetryAll
  BY <1>0, <1>5 DEF Add, PauseAll, ResumeAll, RetryAll, PauseRows, ResumeRows, RetryRows, client
<1>6. CASE CancelAll \/ ClearFinished
  BY <1>0, <1>6 DEF CancelAll, ClearFinished, Remove, WithSession, In
<1>7. CASE \/ \E k \in Key : Finalise(k) \/ Expire(k)
           \/ \E m \in stray : HandleStray(m[1], m[2])
           \/ \E p \in Path : OtherWrites(p)
           \/ UNCHANGED vars
  BY <1>0, <1>7 DEF Finalise, Expire, HandleStray, OtherWrites, client, vars
<1> QED BY <1>1, <1>2, <1>3, <1>4, <1>5, <1>6, <1>7 DEF Next

LEMMA SlotsImplies == SlotsInv /\ AskedKeys => QueueInv
<1> SUFFICES ASSUME SlotsInv, AskedKeys PROVE QueueInv
  OBVIOUS
<1>0. QueueIInv
  BY DEF SlotsInv
<1>1. TypeOK
  <2>1. \A k \in Key : item[k] \in AnyRow
    BY <1>0, OfRow
  <2> QED BY <1>0, <2>1 DEF TypeOK, AskedKeys, AnyRow, States, QueueIInv, InvOf, Types, Sources
<1>2. ASSUME NEW k \in Key
      PROVE  LET works == Live(runner, k) /\ ~runner[k].aborted
             IN /\ item[k].st = "uploading" <=> works /\ runner[k].pc \notin {"sleep", "recheck"}
                /\ item[k].st = "retrying" <=> works /\ runner[k].pc = "sleep"
                /\ item[k].st = "checking" <=> \/ works /\ runner[k].pc = "recheck"
                                               \/ Present(k) /\ \E K \in checks : k \in K
  <2>1. Agree(item[k], runner[k])
    BY <1>0, OfRow DEF RowOK
  <2>2. \/ Worked(item[k], runner[k])
        \/ item[k].st = "checking" /\ \E K \in checks : k \in K
    BY DEF SlotsInv, Manned
  <2>3. (\E K \in checks : k \in K) => item[k].st \in {"gone", "checking"}
    BY <1>0 DEF QueueIInv, InvOf, ChecksApart
  <2>4. item[k].st = "uploading" => Worked(item[k], runner[k])
    BY <2>2
  <2>5. item[k].st = "retrying" => Worked(item[k], runner[k])
    BY <2>2
  <2> QED BY <2>1, <2>2, <2>3, <2>4, <2>5 DEF Agree, Worked, Live, Present
<1>3. Cardinality({k \in Key : Live(runner, k)}) <= Slots
  BY DEF SlotsInv, InSlots, LiveKeys
<1>4. SourcesHeld
  BY <1>0, InvImplies
<1> QED BY <1>1, <1>2, <1>3, <1>4 DEF QueueInv

(* upload-queue-service: a row shows an upload, a retry or a check exactly     *)
(* while somebody works on it, and no more than Slots runners are at work, for *)
(* any number of rows, slots and retries; and the sources it holds are those   *)
(* of the rows that can still be uploaded.                                     *)
THEOREM QueueAlways == Spec => []QueueInv
BY SlotsInitially, SlotsKept, AskedInitially, AskedKept, SlotsImplies, PTL DEF Spec
-----------------------------------------------------------------------------
(* The session a row was given is known to the row as long as there is one,     *)
(* and once there is none, somebody asked for the session to be cancelled.      *)
Open(v) == v.known /\ v.st \in {"open", "uploaded"}
Noted(r, v, told) ==
  Open(v) => IF r.st = "gone" THEN told
             ELSE r.session = "open" /\ r.st \notin {"complete", "skipped"}
NotedAll(it, sv, as) == \A k \in Key : Noted(it[k], sv[k], k \in as)
SessionsNoted == NotedAll(item, srv, asked)
NotedInv == QueueIInv /\ SessionsNoted

LEMMA NotedImplies == SessionsNoted => NoForgottenSession
BY DEF SessionsNoted, NotedAll, Noted, Open, NoForgottenSession

LEMMA NotedInitially == Init => SessionsNoted
BY DEF Init, SessionsNoted, NotedAll, Noted, Open, Unopened

LEMMA ScheduleNotes ==
  ASSUME NEW it, NEW rn, NEW paused, Schedule(it, rn, paused) \/ Unscheduled(it, rn),
         \A k \in Key : it[k] \in AnyRow, NotedAll(it, srv', asked')
  PROVE  SessionsNoted'
<1>1. CASE Unscheduled(it, rn)
  BY <1>1 DEF Unscheduled, SessionsNoted
<1>2. CASE Schedule(it, rn, paused)
  <2> DEFINE S == NextRunnable(it, rn, paused)
  <2>1. \A k \in S : it[k].st = "queued"
    BY DEF NextRunnable
  <2>2. \A k \in Key : item'[k] = IF k \in S THEN [it[k] EXCEPT !.st = "uploading"] ELSE it[k]
    BY <1>2 DEF Schedule
  <2> HIDE DEF S
  <2>3. ASSUME NEW k \in Key PROVE Noted(item'[k], srv'[k], k \in asked')
    <3>1. Noted(it[k], srv'[k], k \in asked') /\ it[k] \in AnyRow
      BY DEF NotedAll
    <3>2. CASE k \in S
      <4>1. item'[k].st = "uploading" /\ item'[k].session = it[k].session /\ it[k].st = "queued"
        BY <2>1, <2>2, <3>1, <3>2 DEF AnyRow
      <4> QED BY <3>1, <4>1 DEF Noted
    <3>3. CASE k \notin S
      BY <2>2, <3>1, <3>3
    <3> QED BY <3>2, <3>3
  <2> QED BY <2>3 DEF SessionsNoted, NotedAll
<1> QED BY <1>1, <1>2

(* Any row may do what it likes while its session is none or done; while it is *)
(* open, it may go on, and leave if somebody is told.                           *)
LEMMA NotedRow ==
  ASSUME NotedInv, NEW k \in Key, NEW q, NEW told,
         \/ q = item[k] /\ (k \in asked => told)
         \/ /\ q.session = item[k].session /\ item[k].st # "gone"
            /\ q.st \notin {"gone", "complete", "skipped"}
         \/ item[k].st # "gone" /\ item[k].session # "open"
         \/ item[k].st \in {"complete", "skipped"}
         \/ q.st = "gone" /\ told
  PROVE  Noted(q, srv[k], told)
<1>1. Noted(item[k], srv[k], k \in asked)
  BY DEF NotedInv, SessionsNoted, NotedAll
<1> QED BY <1>1 DEF Noted

LEMMA RowsNoted ==
  ASSUME NotedInv, UNCHANGED srv, NEW it, NEW rn, NEW paused,
         Schedule(it, rn, paused) \/ Unscheduled(it, rn),
         \A k \in Key : it[k] \in AnyRow, \A k \in asked : k \in asked',
         \A k \in Key : \/ it[k] = item[k]
                        \/ /\ it[k].session = item[k].session /\ item[k].st # "gone"
                           /\ it[k].st \notin {"gone", "complete", "skipped"}
                        \/ item[k].st # "gone" /\ item[k].session # "open"
                        \/ item[k].st \in {"complete", "skipped"}
                        \/ it[k].st = "gone" /\ k \in asked'
  PROVE  SessionsNoted'
<1>1. \A k \in Key : Noted(it[k], srv[k], k \in asked')
  BY NotedRow
<1>2. NotedAll(it, srv', asked')
  BY <1>1 DEF NotedAll
<1> QED BY <1>2, ScheduleNotes

-----------------------------------------------------------------------------
(* The steps of one runner *)

LEMMA RunNotes ==
  ASSUME NotedInv, NEW k \in Key, NEW r \in AnyRow, NEW rn, NEW paused, UNCHANGED asked,
         \A j \in Key \ {k} : srv'[j] = srv[j], Noted(r, srv'[k], k \in asked),
         Schedule(With(k, r), rn, paused) \/ Unscheduled(With(k, r), rn)
  PROVE  SessionsNoted'
<1> DEFINE it == With(k, r)
<1>1. \A j \in Key : item[j] \in AnyRow
  BY OfRow DEF NotedInv
<1>2. it[k] = r /\ \A j \in Key \ {k} : it[j] = item[j]
  BY DEF With, NotedInv, QueueIInv, InvOf, Types
<1>3. Schedule(it, rn, paused) \/ Unscheduled(it, rn)
  OBVIOUS
<1> HIDE DEF it
<1>4. NotedAll(it, srv', asked')
  BY <1>2 DEF NotedInv, SessionsNoted, NotedAll
<1>5. \A j \in Key : it[j] \in AnyRow
  BY <1>1, <1>2
<1> QED BY <1>3, <1>4, <1>5, ScheduleNotes

LEMMA RunItemNotes ==
  ASSUME NotedInv, NEW k \in Key, NEW rn, NEW paused, UNCHANGED asked,
         \A j \in Key \ {k} : srv'[j] = srv[j], Noted(item[k], srv'[k], k \in asked),
         Schedule(item, rn, paused) \/ Unscheduled(item, rn)
  PROVE  SessionsNoted'
<1>1. item[k] \in AnyRow /\ item = With(k, item[k])
  BY OfRow DEF NotedInv
<1>2. Schedule(With(k, item[k]), rn, paused) \/ Unscheduled(With(k, item[k]), rn)
  BY <1>1
<1> QED BY <1>1, <1>2, RunNotes

LEMMA ContinueNotes ==
  ASSUME NotedInv, NEW k \in Key, NEW r \in AnyRow, NEW pc, UNCHANGED asked,
         \A j \in Key \ {k} : srv'[j] = srv[j], Noted(r, srv'[k], k \in asked),
         Continue(k, With(k, r), pc)
  PROVE  SessionsNoted'
BY RunNotes DEF Continue, Ends

LEMMA ContinueItemNotes ==
  ASSUME NotedInv, NEW k \in Key, NEW pc, UNCHANGED asked,
         \A j \in Key \ {k} : srv'[j] = srv[j], Noted(item[k], srv'[k], k \in asked),
         Continue(k, item, pc)
  PROVE  SessionsNoted'
BY RunItemNotes DEF Continue, Ends

(* The step leaves no known session open that was not open before.             *)
OpensNone(k) ==
  /\ \A j \in Key \ {k} : srv'[j] = srv[j]
  /\ srv'[k] = srv[k] \/ ~Open(srv'[k])

LEMMA EndsItemNotes ==
  ASSUME NotedInv, NEW k \in Key, UNCHANGED asked, UNCHANGED srv \/ OpensNone(k), Ends(item, k)
  PROVE  SessionsNoted'
<1>1. Noted(item[k], srv'[k], k \in asked)
  BY DEF NotedInv, SessionsNoted, NotedAll, Noted, OpensNone
<1>2. \A j \in Key \ {k} : srv'[j] = srv[j]
  BY DEF OpensNone
<1> QED BY <1>1, <1>2, RunItemNotes DEF Ends

LEMMA FailsNotes ==
  ASSUME NotedInv, NEW k \in Key, NEW e \in BOOLEAN, UNCHANGED asked,
         UNCHANGED srv \/ OpensNone(k),
         runner[k].pc # "idle", ~runner[k].aborted, Ends(With(k, Failed(item[k], e)), k)
  PROVE  SessionsNoted'
<1> DEFINE r == Failed(item[k], e)
<1>1. r \in AnyRow /\ r.st = "failed" /\ r.session = item[k].session /\ item[k].st # "gone"
  BY OfRow, FailedRow, LiveRow DEF NotedInv, Needed
<1>2. Ends(With(k, r), k)
  OBVIOUS
<1> HIDE DEF r
<1>3. Noted(r, srv[k], k \in asked)
  BY <1>1, NotedRow
<1>4. Noted(r, srv'[k], k \in asked) /\ \A j \in Key \ {k} : srv'[j] = srv[j]
  BY <1>3 DEF Noted, OpensNone
<1> QED BY <1>1, <1>2, <1>4, RunNotes DEF Ends

LEMMA PermanentNotes ==
  ASSUME NotedInv, NEW k \in Key, UNCHANGED <<asked, srv>>, runner[k].pc # "idle", Permanent(k)
  PROVE  SessionsNoted'
<1>1. CASE runner[k].aborted
  BY <1>1, EndsItemNotes DEF Permanent, Stopped
<1>2. CASE ~runner[k].aborted
  <2>1. Ends(With(k, Failed(item[k], FALSE)), k)
    BY <1>2 DEF Permanent, Stopped
  <2> QED BY <1>2, <2>1, FailsNotes
<1> QED BY <1>1, <1>2

LEMMA TransientNotes ==
  ASSUME NotedInv, NEW k \in Key, UNCHANGED asked, UNCHANGED srv \/ OpensNone(k),
         runner[k].pc # "idle", Transient(k)
  PROVE  SessionsNoted'
<1>1. CASE runner[k].aborted
  BY <1>1, EndsItemNotes DEF Transient, Stopped
<1>2. CASE ~runner[k].aborted /\ ~(item[k].retries < MaxRetries)
  <2>1. Ends(With(k, Failed(item[k], TRUE)), k)
    BY <1>2 DEF Transient, Stopped
  <2> QED BY <1>2, <2>1, FailsNotes
<1>3. CASE ~runner[k].aborted /\ item[k].retries < MaxRetries
  <2> DEFINE r == [item[k] EXCEPT !.st = "retrying", !.retries = @ + 1]
  <2>1. item[k] \in AnyRow /\ item[k].st # "gone"
    BY <1>3, OfRow, LiveRow DEF NotedInv, Needed
  <2>2. "retrying" \in States /\ item[k].retries + 1 \in 0..MaxRetries
    BY <1>3, <2>1, QueueAssumption DEF States, Busy, AnyRow
  <2>3. r \in AnyRow /\ r.st = "retrying" /\ r.session = item[k].session
    BY <2>1, <2>2 DEF AnyRow
  <2>4. Unscheduled(With(k, r), At(k, "sleep"))
    BY <1>3 DEF Transient, Stopped
  <2> HIDE DEF r
  <2>5. Noted(r, srv[k], k \in asked)
    BY <2>1, <2>3, NotedRow
  <2>6. Noted(r, srv'[k], k \in asked) /\ \A j \in Key \ {k} : srv'[j] = srv[j]
    BY <2>5 DEF Noted, OpensNone
  <2> QED BY <2>3, <2>4, <2>6, RunNotes
<1> QED BY <1>1, <1>2, <1>3

LEMMA CompletesNotes ==
  ASSUME NotedInv, NEW k \in Key, UNCHANGED <<asked, srv>>, ~Open(srv[k]), Completes(k)
  PROVE  SessionsNoted'
<1> DEFINE r == Complete(item[k])
<1>1. "complete" \in States /\ 0 \in 0..MaxRetries
  BY QueueAssumption DEF States, Finished
<1>2. item[k] \in AnyRow
  BY OfRow DEF NotedInv
<1>3. r \in AnyRow
  BY <1>1, <1>2 DEF Complete, AnyRow
<1>4. Schedule(With(k, r), [runner EXCEPT ![k] = Idle], globallyPaused)
  BY DEF Completes, Ends
<1> HIDE DEF r
<1>5. Noted(r, srv'[k], k \in asked)
  BY DEF Noted
<1> QED BY <1>3, <1>4, <1>5, RunNotes

LEMMA RunsNotes == ASSUME NotedInv, NEW k \in Key, Runs(k) PROVE SessionsNoted'
<1>0. QueueIInv /\ Noted(item[k], srv[k], k \in asked) /\ item[k] \in AnyRow
  BY OfRow DEF NotedInv, SessionsNoted, NotedAll
<1>1. CASE AnswerStatus(k)
  <2>1. UNCHANGED <<asked, srv>> /\ runner[k].pc = "status" /\ item[k].st = "uploading"
    BY <1>0, <1>1, LiveRow DEF AnswerStatus, client, server, Deaf
  <2>2. CASE Permanent(k)
    BY <2>1, <2>2, PermanentNotes
  <2>3. ASSUME NEW x \in {"open", "complete"}, x = "complete" => srv[k].st = "complete",
               NEW pc, Continue(k, With(k, [item[k] EXCEPT !.session = x]), pc)
        PROVE  SessionsNoted'
    <3> DEFINE r == [item[k] EXCEPT !.session = x]
    <3>1. r \in AnyRow /\ r.st = "uploading" /\ r.session = x
      BY <1>0, <2>1 DEF AnyRow
    <3>2. Continue(k, With(k, r), pc)
      BY <2>3
    <3> HIDE DEF r
    <3>3. Noted(r, srv'[k], k \in asked)
      BY <2>1, <2>3, <3>1 DEF Noted, Open
    <3> QED BY <2>1, <3>1, <3>2, <3>3, ContinueNotes
  <2>4. CASE srv[k].st = "complete"
    BY <1>1, <2>2, <2>3, <2>4 DEF AnswerStatus
  <2>5. CASE srv[k].st # "complete"
    BY <1>1, <2>2, <2>3, <2>5 DEF AnswerStatus
  <2> QED BY <2>4, <2>5
<1>2. CASE AnswerCreate(k)
  <2>1. runner[k].pc = "create" /\ srv \in [Key -> AnySession]
    BY <1>0, <1>2 DEF AnswerCreate, QueueIInv, InvOf, Types
  <2>2. CASE Changed(k) /\ UNCHANGED <<client, server>>
    <3>1. UNCHANGED <<asked, srv>>
      BY <2>2 DEF client, server
    <3>2. CASE runner[k].aborted
      BY <2>2, <3>1, <3>2, EndsItemNotes DEF Changed, Continue, Stopped
    <3>3. CASE ~runner[k].aborted
      <4> DEFINE r == TargetChanged(item[k])
      <4>1. "checking" \in States /\ Absent \in Content /\ 0 \in 0..MaxRetries
        BY QueueAssumption DEF States, Busy, Absent, Content, Folder
      <4>2. r \in AnyRow /\ r.st = "checking" /\ r.session = item[k].session
        BY <1>0, <4>1 DEF TargetChanged, AnyRow
      <4>3. Continue(k, With(k, r), "recheck")
        BY <2>2, <3>3 DEF Changed, Stopped
      <4> HIDE DEF r
      <4>4. item[k].st # "gone"
        BY <1>0, <2>1, <3>3, LiveRow
      <4>5. Noted(r, srv'[k], k \in asked)
        BY <3>1, <4>2, <4>4, NotedRow
      <4> QED BY <3>1, <4>2, <4>3, <4>5, ContinueNotes
    <3> QED BY <3>2, <3>3
  <2>3. CASE /\ Continue(k, With(k, [item[k] EXCEPT !.session = "open"]), "put")
             /\ UNCHANGED client /\ Present(k)
             /\ srv' = [srv EXCEPT ![k] = [st |-> "open", path |-> item[k].path,
                                           want |-> Want(item[k]), known |-> TRUE]]
    <3> DEFINE r == [item[k] EXCEPT !.session = "open"]
    <3>1. r \in AnyRow /\ r.st = item[k].st /\ r.session = "open" /\ UNCHANGED asked
      BY <1>0, <2>3 DEF AnyRow, client
    <3>2. item[k].st \in {"uploading", "paused", "queued"}
      <4>1. RowOK(item[k], runner[k], approved[k], srv[k])
        BY <1>0, OfRow
      <4> QED BY <2>1, <2>3, <4>1 DEF RowOK, Agree, Present
    <3>3. Continue(k, With(k, r), "put") /\ \A j \in Key \ {k} : srv'[j] = srv[j]
      BY <2>1, <2>3
    <3> HIDE DEF r
    <3>4. Noted(r, srv'[k], k \in asked)
      BY <3>1, <3>2 DEF Noted
    <3> QED BY <3>1, <3>3, <3>4, ContinueNotes
  <2>4. CASE ~Present(k) /\ CreatedTooLate(k)
    <3>1. CASE Ends(item, k) /\ UNCHANGED <<client, server>>
      BY <3>1, EndsItemNotes DEF client, server
    <3>2. CASE /\ Ends(item, k) /\ asked' = asked \cup {k}
               /\ srv' = [srv EXCEPT ![k].st = "open", ![k].known = TRUE]
      <4>1. \A j \in Key \ {k} : srv'[j] = srv[j] /\ Noted(item[j], srv[j], j \in asked)
        BY <2>1, <3>2 DEF NotedInv, SessionsNoted, NotedAll
      <4>2. item[k].st = "gone"
        BY <1>0, <2>1, <2>4, LiveRow DEF Present
      <4>3. \A j \in Key : Noted(item[j], srv'[j], j \in asked')
        BY <3>2, <4>1, <4>2 DEF Noted
      <4>4. \A j \in Key : item[j] \in AnyRow
        BY <1>0, OfRow
      <4>5. Schedule(item, [runner EXCEPT ![k] = Idle], globallyPaused)
        BY <3>2 DEF Ends
      <4> QED BY <4>3, <4>4, <4>5, ScheduleNotes DEF NotedAll
    <3> QED BY <2>4, <3>1, <3>2 DEF CreatedTooLate
  <2> QED BY <1>2, <2>2, <2>3, <2>4 DEF AnswerCreate
<1>3. CASE AnswerPut(k)
  <2>1. runner[k].pc = "put" /\ UNCHANGED asked /\ srv \in [Key -> AnySession]
    BY <1>0, <1>3 DEF AnswerPut, client, QueueIInv, InvOf, Types
  <2>2. CASE /\ srv[k].st = "open" /\ Continue(k, item, "complete")
             /\ srv' = [srv EXCEPT ![k].st = "uploaded"]
    <3>1. \A j \in Key \ {k} : srv'[j] = srv[j]
      BY <2>1, <2>2
    <3>2. Noted(item[k], srv'[k], k \in asked)
      BY <1>0, <2>2 DEF Noted, Open
    <3> QED BY <2>1, <2>2, <3>1, <3>2, ContinueItemNotes
  <2>3. CASE UNCHANGED srv /\ Permanent(k)
    BY <2>1, <2>3, PermanentNotes
  <2>4. CASE UNCHANGED srv /\ Continue(k, item, "reconcile")
    BY <1>0, <2>1, <2>4, ContinueItemNotes
  <2> QED BY <1>3, <2>2, <2>3, <2>4 DEF AnswerPut
<1>4. CASE AnswerReconcile(k)
  BY <1>0, <1>4, ContinueItemNotes DEF AnswerReconcile, client, server
<1>5. CASE AnswerComplete(k)
  <2>1. runner[k].pc = "complete" /\ UNCHANGED asked /\ srv \in [Key -> AnySession]
    BY <1>0, <1>5 DEF AnswerComplete, QueueIInv, InvOf, Types
  <2>2. CASE /\ srv[k].st = "uploaded" /\ Continue(k, item, "deciding")
             /\ srv' = [srv EXCEPT ![k].st = "finalizing"]
    <3>1. (\A j \in Key \ {k} : srv'[j] = srv[j]) /\ srv'[k].st = "finalizing"
      BY <2>1, <2>2 DEF AnySession
    <3>2. Noted(item[k], srv'[k], k \in asked)
      BY <3>1 DEF Noted, Open
    <3> QED BY <2>1, <2>2, <3>1, <3>2, ContinueItemNotes
  <2>3. CASE srv[k].st \in {"finalizing", "complete"} /\ Completes(k) /\ UNCHANGED srv
    BY <2>1, <2>3, CompletesNotes DEF Open
  <2>4. CASE Permanent(k) /\ UNCHANGED srv
    BY <2>1, <2>4, PermanentNotes
  <2> QED BY <1>5, <2>2, <2>3, <2>4 DEF AnswerComplete
<1>6. CASE AnswerDecided(k)
  <2>1. runner[k].pc = "deciding" /\ UNCHANGED <<asked, srv>>
    BY <1>6 DEF AnswerDecided, server
  <2>2. CASE srv[k].st = "complete" /\ Completes(k)
    BY <2>1, <2>2, CompletesNotes DEF Open
  <2>3. CASE Permanent(k)
    BY <2>1, <2>3, PermanentNotes
  <2> QED BY <1>6, <2>2, <2>3 DEF AnswerDecided
<1>7. CASE NetworkFails(k)
  <2>1. runner[k].pc # "idle" /\ UNCHANGED asked /\ Transient(k)
    BY <1>7 DEF NetworkFails, client
  <2>2. UNCHANGED srv \/ srv' = [srv EXCEPT ![k] = [Unopened EXCEPT !.st = "open"]]
    BY <1>7 DEF NetworkFails
  <2>3. UNCHANGED srv \/ OpensNone(k)
    BY <1>0, <2>2 DEF OpensNone, Open, Unopened, QueueIInv, InvOf, Types
  <2> QED BY <2>1, <2>3, TransientNotes
<1>8. CASE Wake(k)
  <2> DEFINE r == [item[k] EXCEPT !.st = "uploading"]
  <2>1. r \in AnyRow /\ r.st = "uploading" /\ r.session = item[k].session
    BY <1>0, WithState DEF States, Busy
  <2>2. /\ Unscheduled(With(k, r), [runner EXCEPT ![k] = FirstRequest(item[k])])
        /\ UNCHANGED <<asked, srv>>
    BY <1>8 DEF Wake, client, server
  <2> HIDE DEF r
  <2>3. item[k].st # "gone"
    BY <1>0, <1>8, LiveRow DEF Wake, Needed, Deaf
  <2>4. Noted(r, srv'[k], k \in asked)
    BY <2>1, <2>2, <2>3, NotedRow
  <2> QED BY <2>1, <2>2, <2>4, RunNotes
<1>9. CASE Recheck(k)
  <2>1. runner[k].pc = "recheck" /\ UNCHANGED <<asked, srv>>
    BY <1>9 DEF Recheck, client, server
  <2>2. CASE item[k].st # "checking"
    <3>1. Answered({k}) = item /\ \A e \in BOOLEAN : Unanswered({k}, e) = item
      BY <1>0, <2>2 DEF Answered, Unanswered, QueueIInv, InvOf, Types
    <3>2. Ends(item, k)
      BY <1>9, <3>1 DEF Recheck
    <3> QED BY <2>1, <3>2, EndsItemNotes
  <2>3. CASE item[k].st = "checking"
    <3>1. ASSUME NEW q, Judged(item[k], q), Ends(With(k, q), k) PROVE SessionsNoted'
      <4>1. Noted(q, srv'[k], k \in asked) /\ q \in AnyRow
        BY <2>1, <2>3, <3>1, NotedRow DEF Judged
      <4> QED BY <2>1, <3>1, <4>1, RunNotes DEF Ends
    <3>2. CASE Ends(Answered({k}), k)
      <4> DEFINE q == Checked(item[k], StatusOf(item[k].path), file[item[k].path])
      <4>1. Answered({k}) = With(k, q)
        BY <1>0, <2>3 DEF Answered, With, QueueIInv, InvOf, Types
      <4>2. Judged(item[k], q)
        BY <1>0, <2>3, AnsweredRow
      <4> HIDE DEF q
      <4> QED BY <3>1, <3>2, <4>1, <4>2
    <3>3. ASSUME NEW e \in BOOLEAN, Ends(Unanswered({k}, e), k) PROVE SessionsNoted'
      <4>1. Unanswered({k}, e) = With(k, Failed(item[k], e))
        BY <1>0, <2>3 DEF Unanswered, With, QueueIInv, InvOf, Types
      <4>2. Judged(item[k], Failed(item[k], e))
        BY <1>0, UnansweredRow
      <4> QED BY <3>1, <3>3, <4>1, <4>2
    <3> QED BY <1>9, <3>2, <3>3 DEF Recheck
  <2> QED BY <2>2, <2>3
<1> QED BY <1>1, <1>2, <1>3, <1>4, <1>5, <1>6, <1>7, <1>8, <1>9 DEF Runs

-----------------------------------------------------------------------------
(* Preflight, the buttons and the server *)

LEMMA CheckNotes ==
  ASSUME NotedInv, NEW K \in checks, CheckAnswered(K) \/ CheckFails(K) PROVE SessionsNoted'
<1>0. QueueIInv /\ UNCHANGED <<asked, srv>>
  BY DEF NotedInv, CheckAnswered, CheckFails, server
<1>1. ASSUME NEW it, NEW q, \A k \in Key : it[k] = IF k \in K /\ item[k].st = "checking"
                                                    THEN q[k] ELSE item[k],
             \A k \in Key : item[k].st = "checking" => Judged(item[k], q[k]),
             NEW paused, Schedule(it, runner, paused) \/ Unscheduled(it, runner)
      PROVE  SessionsNoted'
  <2>1. ASSUME NEW k \in Key
        PROVE  /\ it[k] \in AnyRow
               /\ \/ it[k] = item[k]
                  \/ /\ it[k].session = item[k].session /\ item[k].st # "gone"
                     /\ it[k].st \notin {"gone", "complete", "skipped"}
    BY <1>0, <1>1, OfRow DEF Judged
  <2> QED BY <1>0, <1>1, <2>1, RowsNoted
<1>2. CASE CheckAnswered(K)
  <2> DEFINE q == [k \in Key |-> Checked(item[k], StatusOf(item[k].path), file[item[k].path])]
             it == Answered(K)
  <2>1. \A k \in Key : it[k] = IF k \in K /\ item[k].st = "checking" THEN q[k] ELSE item[k]
    BY DEF Answered
  <2>2. \A k \in Key : item[k].st = "checking" => Judged(item[k], q[k])
    BY <1>0, AnsweredRow
  <2>3. Schedule(it, runner, globallyPaused)
    BY <1>2 DEF CheckAnswered
  <2> HIDE DEF q, it
  <2> QED BY <1>1, <2>1, <2>2, <2>3
<1>3. CASE CheckFails(K)
  <2>1. PICK e \in BOOLEAN : Unscheduled(Unanswered(K, e), runner)
    BY <1>3 DEF CheckFails
  <2> DEFINE q == [k \in Key |-> Failed(item[k], e)]
             it == Unanswered(K, e)
  <2>2. \A k \in Key : it[k] = IF k \in K /\ item[k].st = "checking" THEN q[k] ELSE item[k]
    BY DEF Unanswered
  <2>3. \A k \in Key : item[k].st = "checking" => Judged(item[k], q[k])
    BY <1>0, UnansweredRow
  <2> HIDE DEF q, it
  <2> QED BY <1>1, <2>1, <2>2, <2>3 DEF it
<1> QED BY <1>2, <1>3

LEMMA PauseRowsNotes ==
  ASSUME NotedInv, NEW K, NEW paused, PauseRows(K, paused) PROVE SessionsNoted'
<1> DEFINE it == [k \in Key |-> IF k \in K THEN Paused(item[k]) ELSE item[k]]
<1>1. ASSUME NEW k \in Key
      PROVE  /\ it[k] \in AnyRow
             /\ \/ it[k] = item[k]
                \/ /\ it[k].session = item[k].session /\ item[k].st # "gone"
                   /\ it[k].st \notin {"gone", "complete", "skipped"}
  <2>1. item[k] \in AnyRow /\ "paused" \in States
    BY OfRow DEF NotedInv, States
  <2> DEFINE q == [item[k] EXCEPT !.st = "paused"]
  <2>2. it[k] = item[k] \/ (it[k] = q /\ item[k].st # "gone")
    BY DEF Paused
  <2>3. q \in AnyRow /\ q.st = "paused" /\ q.session = item[k].session
    BY <2>1, WithState
  <2> HIDE DEF it, q
  <2> QED BY <2>1, <2>2, <2>3
<1>2. Schedule(it, Aborted(K), paused) /\ UNCHANGED <<asked, srv>>
  BY DEF PauseRows, client
<1> HIDE DEF it
<1> QED BY <1>1, <1>2, RowsNoted

LEMMA ResumeRowsNotes ==
  ASSUME NotedInv, NEW K, NEW paused, ResumeRows(K, paused) PROVE SessionsNoted'
<1> DEFINE it == [k \in Key |-> IF k \in K THEN Resumed(item[k]) ELSE item[k]]
<1>1. ASSUME NEW k \in Key
      PROVE  /\ it[k] \in AnyRow
             /\ \/ it[k] = item[k]
                \/ /\ it[k].session = item[k].session /\ item[k].st # "gone"
                   /\ it[k].st \notin {"gone", "complete", "skipped"}
  <2>1. item[k] \in AnyRow /\ "queued" \in States
    BY OfRow DEF NotedInv, States, Busy
  <2> DEFINE q == [item[k] EXCEPT !.st = "queued"]
  <2>2. it[k] = item[k] \/ (it[k] = q /\ item[k].st # "gone")
    BY DEF Resumed
  <2>3. q \in AnyRow /\ q.st = "queued" /\ q.session = item[k].session
    BY <2>1, WithState
  <2> HIDE DEF it, q
  <2> QED BY <2>1, <2>2, <2>3
<1>2. Schedule(it, runner, paused) /\ UNCHANGED <<asked, srv>>
  BY DEF ResumeRows, client, server
<1> HIDE DEF it
<1> QED BY <1>1, <1>2, RowsNoted

(* A row that leaves has no session, has a done one, or has it cancelled.       *)
LEMMA RemoveNotes ==
  ASSUME NotedInv, NEW K, NEW S,
         \A k \in K : \/ k \in S \/ item[k].st \in {"complete", "skipped"}
                      \/ item[k].st # "gone" /\ item[k].session # "open",
         Remove(K, S)
  PROVE  SessionsNoted'
<1> DEFINE it == [k \in Key |-> IF k \in K THEN Blank("gone") ELSE item[k]]
<1>1. asked' = asked \cup S /\ UNCHANGED srv
  BY DEF Remove
<1>2. ASSUME NEW k \in Key
      PROVE  /\ it[k] \in AnyRow
             /\ \/ it[k] = item[k]
                \/ item[k].st # "gone" /\ item[k].session # "open"
                \/ item[k].st \in {"complete", "skipped"}
                \/ it[k].st = "gone" /\ k \in asked'
  <2>1. item[k] \in AnyRow /\ Blank("gone") \in AnyRow /\ Blank("gone").st = "gone"
    BY OfRow, BlankRow DEF NotedInv, States, Blank
  <2> QED BY <1>1, <2>1
<1>3. Schedule(it, Aborted(K), globallyPaused)
  BY DEF Remove
<1> HIDE DEF it
<1> QED BY <1>1, <1>2, <1>3, RowsNoted

LEMMA RetryRowsNotes ==
  ASSUME NotedInv, NEW K, \A k \in K : MayRetry(k), RetryRows(K) PROVE SessionsNoted'
<1> DEFINE it == [k \in Key |-> IF k \in K THEN Retried(item[k]) ELSE item[k]]
<1>1. ASSUME NEW k \in Key
      PROVE  /\ it[k] \in AnyRow
             /\ \/ it[k] = item[k]
                \/ /\ it[k].session = item[k].session /\ item[k].st # "gone"
                   /\ it[k].st \notin {"gone", "complete", "skipped"}
  <2>1. item[k] \in AnyRow
    BY OfRow DEF NotedInv
  <2>2. CASE k \in K
    <3>1. it[k] = Retried(item[k]) /\ item[k].st = "failed" /\ item[k].eligible
      BY <2>2 DEF MayRetry
    <3> HIDE DEF it
    <3> QED BY <2>1, <3>1, RetriedRow DEF Resettled
  <2> QED BY <2>1, <2>2
<1>2. Schedule(it, runner, globallyPaused) /\ UNCHANGED <<asked, srv>>
  BY DEF RetryRows, server
<1> HIDE DEF it
<1> QED BY <1>1, <1>2, RowsNoted

(* A row somebody decides about was never given a session.                      *)
LEMMA DecideNotes ==
  ASSUME NotedInv, NEW C, NEW S, \A k \in C \cup S : item[k].st = "needs-decision", Decide(C, S)
  PROVE  SessionsNoted'
<1> DEFINE it == [k \in Key |-> IF k \in C THEN Chosen(item[k])
                                ELSE IF k \in S THEN Skipped(item[k]) ELSE item[k]]
<1>1. ASSUME NEW k \in Key
      PROVE  /\ it[k] \in AnyRow
             /\ \/ it[k] = item[k]
                \/ item[k].st # "gone" /\ item[k].session # "open"
  <2>1. item[k] \in AnyRow /\ RowOK(item[k], runner[k], approved[k], srv[k])
    BY OfRow DEF NotedInv
  <2>2. k \in C \cup S => item[k].st # "gone" /\ item[k].session # "open"
    BY <2>1 DEF RowOK, Unasked
  <2>3. Chosen(item[k]) \in AnyRow
    <3> DEFINE q == [item[k] EXCEPT !.overwrite = item[k].target = "conflict",
                                    !.eligible = FALSE]
    <3>1. q \in AnyRow
      BY <2>1, ChoiceRow
    <3>2. "queued" \in States /\ "paused" \in States
      BY DEF States, Busy
    <3>3. Chosen(item[k]) = IF globallyPaused THEN [q EXCEPT !.st = "paused"]
                                              ELSE [q EXCEPT !.st = "queued"]
      BY DEF Chosen, Released
    <3> HIDE DEF q
    <3> QED BY <3>1, <3>2, <3>3, WithState
  <2>4. Skipped(item[k]) \in AnyRow
    BY <2>1 DEF Skipped, AnyRow, States, Finished
  <2> QED BY <2>1, <2>2, <2>3, <2>4
<1>2. Schedule(it, runner, globallyPaused) /\ UNCHANGED <<asked, srv>>
  BY DEF Decide, server
<1> HIDE DEF it
<1> QED BY <1>1, <1>2, RowsNoted

LEMMA AddNotes == ASSUME NotedInv, Add PROVE SessionsNoted'
<1>1. UNCHANGED <<asked, srv>> /\ \A k \in Key : item'[k] = item[k] \/ item[k].st = "new"
  <2>1. PICK n0 \in 0..Keys : Added = n0 /\ \A k \in Key : item[k].st = "new" <=> k > n0
    BY AddedRows DEF NotedInv
  <2>2. Added = n0
    BY <2>1
  <2>3. PICK n \in 1..(Keys - n0) :
          \E path : Unscheduled(Fresh((n0 + 1)..(n0 + n), path), runner)
    BY <2>2 DEF Add
  <2>4. \A k \in Key : k \in (n0 + 1)..(n0 + n) => item[k].st = "new"
    BY <2>1 DEF Key
  <2>5. UNCHANGED <<asked, srv>>
    BY DEF Add, server
  <2> QED BY <2>3, <2>4, <2>5 DEF Unscheduled, Fresh
<1>2. ASSUME NEW k \in Key PROVE Noted(item'[k], srv'[k], k \in asked')
  <2>1. RowOK(item[k], runner[k], approved[k], srv[k])
    BY OfRow DEF NotedInv
  <2>2. item[k].st = "new" => ~srv[k].known
    BY <2>1 DEF RowOK, Unasked, Wanted
  <2> QED BY <1>1, <2>2 DEF NotedInv, SessionsNoted, NotedAll, Noted, Open
<1> QED BY <1>2 DEF SessionsNoted, NotedAll

LEMMA RowNotes == ASSUME NotedInv, NEW k \in Key, Row(k) PROVE SessionsNoted'
<1>0. item[k] \in AnyRow
  BY OfRow DEF NotedInv
<1>1. CASE Pause(k)
  BY <1>1, PauseRowsNotes DEF Pause
<1>2. CASE Resume(k)
  BY <1>2, ResumeRowsNotes DEF Resume
<1>3. CASE Cancel(k)
  BY <1>3, RemoveNotes DEF Cancel, WithSession, MayCancel, MayPause
<1>4. CASE Dismiss(k)
  <2> DEFINE S == {j \in WithSession({k}) : item[j].st # "complete"}
  <2>1. Remove({k}, S) /\ item[k].st # "gone"
    BY <1>4 DEF Dismiss, MayDismiss, Finished
  <2>2. k \in S \/ item[k].st = "complete" \/ item[k].session # "open"
    BY DEF WithSession
  <2> HIDE DEF S
  <2> QED BY <2>1, <2>2, RemoveNotes
<1>5. CASE Retry(k)
  BY <1>5, RetryRowsNotes DEF Retry
<1>6. CASE ReplaceOne(k)
  <2> DEFINE S == IF item[k].dup THEN Rivals(k) ELSE {}
  <2>1. Decide({k}, S) /\ item[k].st = "needs-decision"
    BY <1>6 DEF ReplaceOne, MayReplace
  <2>2. \A j \in S : item[j].st = "needs-decision"
    BY DEF Rivals
  <2> HIDE DEF S
  <2> QED BY <2>1, <2>2, DecideNotes
<1>7. CASE SkipOne(k)
  BY <1>7, DecideNotes DEF SkipOne
<1> QED BY <1>1, <1>2, <1>3, <1>4, <1>5, <1>6, <1>7 DEF Row

LEMMA PanelNotes ==
  ASSUME NotedInv,
         \/ PauseAll \/ ResumeAll \/ CancelAll \/ ClearFinished \/ RetryAll
         \/ \E B \in {item[k].batch : k \in Key} : ReplaceAll(B) \/ SkipAll(B)
  PROVE  SessionsNoted'
<1>1. CASE PauseAll \/ ResumeAll
  BY <1>1, PauseRowsNotes, ResumeRowsNotes DEF PauseAll, ResumeAll
<1>2. CASE CancelAll
  <2> DEFINE K == {k \in Key : Present(k) /\ item[k].st \notin {"complete", "skipped"}}
  <2>1. Remove(K, WithSession(K))
    BY <1>2 DEF CancelAll
  <2>2. \A k \in K : k \in WithSession(K) \/ (item[k].st # "gone" /\ item[k].session # "open")
    BY DEF WithSession, Present
  <2> HIDE DEF K
  <2> QED BY <2>1, <2>2, RemoveNotes
<1>3. CASE ClearFinished
  <2> DEFINE K == In(Finished)
             S == {k \in K : item[k].st = "failed" /\ item[k].session = "open"}
  <2>1. Remove(K, S)
    BY <1>3 DEF ClearFinished
  <2>2. \A k \in K : \/ k \in S \/ item[k].st \in {"complete", "skipped"}
                     \/ item[k].st # "gone" /\ item[k].session # "open"
    BY DEF In, Finished
  <2> HIDE DEF K, S
  <2> QED BY <2>1, <2>2, RemoveNotes
<1>4. CASE RetryAll
  <2> DEFINE K == {k \in Key : MayRetry(k)}
  <2>1. (\A k \in K : MayRetry(k)) /\ RetryRows(K)
    BY <1>4 DEF RetryAll
  <2> HIDE DEF K
  <2> QED BY <2>1, RetryRowsNotes
<1>5. ASSUME NEW B, ReplaceAll(B) \/ SkipAll(B) PROVE SessionsNoted'
  BY <1>5, DecideNotes DEF ReplaceAll, SkipAll, Undecided
<1> QED BY <1>1, <1>2, <1>3, <1>4, <1>5

(* The server opens no session again, and forgets none it was not asked to.     *)
LEMMA ServerNotes ==
  ASSUME NotedInv,
         \/ \E k \in Key : Finalise(k) \/ Expire(k)
         \/ \E m \in stray : HandleStray(m[1], m[2])
         \/ \E p \in Path : OtherWrites(p)
         \/ UNCHANGED vars
  PROVE  SessionsNoted'
<1>0. srv \in [Key -> AnySession]
  BY DEF NotedInv, QueueIInv, InvOf, Types
<1>1. UNCHANGED <<item, asked>>
  BY DEF Finalise, Expire, HandleStray, OtherWrites, client, rows, vars
<1>2. \A k \in Key : srv'[k] = srv[k] \/ (Open(srv'[k]) => Open(srv[k]))
  <2>1. ASSUME NEW k \in Key, NEW s, srv' = [srv EXCEPT ![k].st = s],
               s \in {"open", "uploaded"} => srv[k].st \in {"open", "uploaded"}
        PROVE  \A j \in Key : srv'[j] = srv[j] \/ (Open(srv'[j]) => Open(srv[j]))
    BY <1>0, <2>1 DEF Open, AnySession
  <2>2. ASSUME NEW k \in Key, Finalise(k) \/ Expire(k)
        PROVE  \A j \in Key : srv'[j] = srv[j] \/ (Open(srv'[j]) => Open(srv[j]))
    BY <2>1, <2>2 DEF Finalise, Expire
  <2>3. ASSUME NEW m \in stray, HandleStray(m[1], m[2])
        PROVE  \A j \in Key : srv'[j] = srv[j] \/ (Open(srv'[j]) => Open(srv[j]))
    <3> DEFINE k == m[1]
               s == Handled(k, m[2])
    <3>1. srv' = srv \/ srv' = [srv EXCEPT ![k].st = s]
      BY <2>3 DEF HandleStray
    <3>2. s \in {"open", "uploaded"} => srv[k].st \in {"open", "uploaded"}
      BY DEF Handled
    <3> HIDE DEF k, s
    <3>3. k \notin Key => [srv EXCEPT ![k].st = s] = srv
      BY <1>0
    <3> QED BY <2>1, <3>1, <3>2, <3>3
  <2> QED BY <2>2, <2>3 DEF OtherWrites, vars, server
<1> QED BY <1>1, <1>2 DEF NotedInv, SessionsNoted, NotedAll, Noted

LEMMA NotedKept == NotedInv /\ [Next]_vars => NotedInv'
<1> SUFFICES ASSUME NotedInv, [Next]_vars PROVE SessionsNoted'
  BY NextKeeps DEF NotedInv
<1>1. ASSUME NEW k \in Key, Runs(k) \/ Row(k) PROVE SessionsNoted'
  BY <1>1, RunsNotes, RowNotes
<1>2. ASSUME NEW K \in checks, CheckAnswered(K) \/ CheckFails(K) PROVE SessionsNoted'
  BY <1>2, CheckNotes
<1>3. CASE Add
  BY <1>3, AddNotes
<1>4. CASE \/ PauseAll \/ ResumeAll \/ CancelAll \/ ClearFinished \/ RetryAll
           \/ \E B \in {item[k].batch : k \in Key} : ReplaceAll(B) \/ SkipAll(B)
  BY <1>4, PanelNotes
<1>5. CASE \/ \E k \in Key : Finalise(k) \/ Expire(k)
           \/ \E m \in stray : HandleStray(m[1], m[2])
           \/ \E p \in Path : OtherWrites(p)
           \/ UNCHANGED vars
  BY <1>5, ServerNotes
<1> QED BY <1>1, <1>2, <1>3, <1>4, <1>5 DEF Next

(* removeKeys and startUpload: no session of a row that left the queue stays    *)
(* open without having been asked to be cancelled, also when the row left       *)
(* before its session was known, for any number of rows and failures.           *)
THEOREM NoSessionForgotten == Spec => []NoForgottenSession
<1>1. Init => NotedInv
  BY Initially, NotedInitially DEF NotedInv
<1>2. NotedInv => NoForgottenSession
  BY NotedImplies DEF NotedInv
<1> QED BY <1>1, <1>2, NotedKept, PTL DEF Spec
=============================================================================
