---------------------------- MODULE UploadProofs ----------------------------
(* For any sessions, processes, requests and troubles: the state of an upload  *)
(* has its type under every fault; and as long as leases outlive their owners' *)
(* work, replies arrive and the path is left alone by others while a           *)
(* completion waits for it to be free, an upload is published once, its        *)
(* outcome is true and no file that can be seen loses its object.              *)
EXTENDS Upload, TLAPS

AnyRecord == [status : {"none", "pending", "uploading", "uploaded", "finalizing",
                        "complete", "conflict", "cancelling", "cancelled", "expired"},
              completion : Stages, owner : Process \cup {None, Gone}, live : BOOLEAN,
              uploaded : 0..Size, expect : Id \cup {None, Old},
              cleanup : {"none", "pending", "complete"}]
AnyCopy == [status : {"none", "pending", "uploading", "uploaded"},
            uploaded : 0..Size, current : BOOLEAN]

(* The two columns that tell how far a completion is, and its owner.           *)
RecordOK(r) ==
  /\ r \in AnyRecord
  /\ r.status \in {"none", "pending", "uploading", "expired"} => r.completion = "none"
  /\ r.status = "uploaded" => r.completion \in {"none", "pending"}
  /\ r.status = "finalizing" => r.completion \in {"pending", "object_ready", "published"}
  /\ r.status = "cancelling" => r.completion = "cancel_requested"
  /\ r.status \in {"complete", "conflict", "cancelled"} => r.completion = r.status
  /\ r.status = "finalizing" <=> r.owner # None
  /\ r.status \in {"uploaded", "finalizing"} => r.uploaded = Size
  /\ r.live => r.owner # None

(* What a request that is at a place may write back to the session.            *)
CopyOK(place, c) ==
  /\ c \in AnyCopy
  /\ place \in {"reconciling", "beginning", "chunk", "oversize", "chunked", "short"} =>
       /\ c.status \in {"pending", "uploading", "uploaded"}
       /\ c.status = "uploaded" => c.uploaded = Size
  /\ place \in {"beginning", "chunk", "oversize"} => c.uploaded < Size

StoredTypes ==
  /\ off \in [Id -> -1..Size] /\ obj \subseteq Id \cup {Old} /\ at \in Id \cup {None, Old}
  /\ trash \subseteq Id \cup {Old} /\ shown \subseteq Id
RestTypes == old \subseteq Id /\ driver \in Drivers /\ trouble \in 0..MaxTrouble

(* A request is of a process that serves it, for a session there is.           *)
RequestOK(p) ==
  /\ pc[p] = "idle" => task[p] = NoTask
  /\ pc[p] # "idle" => /\ task[p] \in Operations \X Id
                       /\ rec[Job(p)].status # "none"
  /\ CopyOK(pc[p], sess[p])

UploadTypes ==
  /\ rec \in [Id -> AnyRecord] /\ \A u \in Id : RecordOK(rec[u])
  /\ StoredTypes /\ RestTypes
  /\ pc \in [Process -> Places] /\ sess \in [Process -> AnyCopy]
  /\ task \in [Process -> {NoTask} \cup (Operations \X Id)]
  /\ \A p \in Process : RequestOK(p)

-----------------------------------------------------------------------------
(* What a session's record says of the path and the objects.                   *)
RecordTrue(u, r) ==
  /\ r.expect \in shown \cup {None, Old} /\ r.expect # u
  /\ u \in shown => r.completion \in {"object_ready", "published", "complete", "conflict"}
  /\ r.completion \in {"published", "complete"} => u \in shown
  /\ r.status = "finalizing" /\ u \in shown => at # r.expect
  /\ r.completion = "object_ready" /\ u \notin obj => at # r.expect
  /\ r.status = "conflict" => at # u

Completing == {"finalizing", "finalized", "publishing", "mismatch", "contested", "discarding",
               "refusing", "visible", "published", "retrying"}
Losing == {"mismatch", "contested", "discarding", "refusing"}

(* What a process at a place knows of the session u with record r it works on. *)
PlaceTrue(p, place, u, r) ==
  /\ place \in Completing => r.status = "finalizing" /\ r.owner = p /\ r.live
  /\ place \in {"finalizing", "finalized"} => r.completion = "pending"
  /\ place \in Losing \cup {"publishing", "visible"} => r.completion = "object_ready"
  /\ place = "published" => r.completion = "published"
  /\ place = "finalized" => u \in obj
  /\ place = "visible" => u \in shown
  /\ place = "retrying" => u \notin shown
  /\ place \in Losing => at # r.expect
  /\ place \in {"contested", "discarding", "refusing"} => at # u
  /\ place = "discarding" => u \notin trash
  /\ place = "unlinking" => r.expect \notin trash \cup {at, None}
  /\ place \in {"withdrawing", "erasing", "withdrawn"} => r.status \in {"cancelling", "cancelled"}

(* Whatever the path or the trash shows was published, and has its object.     *)
PathTrue ==
  /\ at \in shown \cup {None, Old} /\ at \in obj \cup {None}
  /\ trash \subseteq shown \cup {Old} /\ trash \subseteq obj

Saga ==
  /\ PathTrue
  /\ \A u \in Id : RecordTrue(u, rec[u])
  /\ \A p \in Process : pc[p] # "idle" => PlaceTrue(p, pc[p], Job(p), rec[Job(p)])
SagaInv == UploadTypes /\ Saga

-----------------------------------------------------------------------------
(* Types.                                                                      *)

Bare == {"reconciling", "beginning", "chunk", "oversize", "chunked", "short"}
Quietly == Places \ Bare

LEMMA NoCopyOK == \A place \in Quietly : CopyOK(place, NoCopy)
BY UploadAssumption DEF Quietly, Bare, CopyOK, NoCopy, AnyCopy

LEMMA StaleCopyOK ==
  ASSUME NEW place, NEW c, CopyOK(place, c)
  PROVE  CopyOK(place, [c EXCEPT !.current = FALSE])
<1> DEFINE d == [c EXCEPT !.current = FALSE]
<1>1. d \in AnyCopy /\ d.status = c.status /\ d.uploaded = c.uploaded
  BY DEF CopyOK, AnyCopy
<1> HIDE DEF d
<1>2. CopyOK(place, d)
  BY <1>1 DEF CopyOK
<1> QED BY <1>2 DEF d

LEMMA Working ==
  ASSUME UploadTypes, NEW p \in Process, pc[p] # "idle"
  PROVE  /\ task[p] \in Operations \X Id /\ Job(p) \in Id
         /\ RecordOK(rec[Job(p)]) /\ rec[Job(p)].status # "none"
         /\ CopyOK(pc[p], sess[p])
BY DEF UploadTypes, RequestOK, Job

LEMMA MoveTypes ==
  ASSUME UploadTypes, NEW p \in Process, pc[p] # "idle", NEW place \in Places, Move(p, place)
  PROVE  /\ RestTypes' /\ pc' \in [Process -> Places]
         /\ task' \in [Process -> {NoTask} \cup (Operations \X Id)]
         /\ pc'[p] = place
         /\ IF place = "idle" THEN task'[p] = NoTask ELSE task'[p] = task[p]
         /\ \A q \in Process : q # p => pc'[q] = pc[q] /\ task'[q] = task[q]
BY DEF UploadTypes, RestTypes, Move, Same

LEMMA SaveTypes ==
  ASSUME UploadTypes, NEW p \in Process, pc[p] # "idle", NEW place \in Places,
         NEW r, NEW copy, RecordOK(r), r.status # "none", CopyOK(place, copy),
         Save(p, r, copy, place), StoredTypes'
  PROVE  UploadTypes'
<1>1. /\ RestTypes' /\ pc' \in [Process -> Places]
      /\ task' \in [Process -> {NoTask} \cup (Operations \X Id)]
      /\ pc'[p] = place
      /\ IF place = "idle" THEN task'[p] = NoTask ELSE task'[p] = task[p]
      /\ \A q \in Process : q # p => pc'[q] = pc[q] /\ task'[q] = task[q]
  BY MoveTypes DEF Save
<1>2. /\ Job(p) \in Id /\ rec \in [Id -> AnyRecord] /\ \A u \in Id : RecordOK(rec[u])
      /\ rec' = [rec EXCEPT ![Job(p)] = r] /\ r \in AnyRecord
  BY Working DEF UploadTypes, Save, RecordOK
<1>3. /\ rec' \in [Id -> AnyRecord] /\ \A u \in Id : RecordOK(rec'[u])
      /\ \A u \in Id : rec[u].status # "none" => rec'[u].status # "none"
  BY <1>2
<1>4. ASSUME NEW q \in Process PROVE CopyOK(pc'[q], sess'[q])
  <2>1. CASE q = p
    BY <1>1, <2>1 DEF Save
  <2>2. CASE q # p
    <3>1. pc'[q] = pc[q] /\ CopyOK(pc[q], sess[q])
      BY <1>1, <2>2 DEF UploadTypes, RequestOK
    <3>2. sess'[q] = sess[q] \/ sess'[q] = [sess[q] EXCEPT !.current = FALSE]
      BY <2>2 DEF Save
    <3> QED BY <3>1, <3>2, StaleCopyOK
  <2> QED BY <2>1, <2>2
<1>5. sess' \in [Process -> AnyCopy]
  <2>1. \A q \in Process : sess'[q] \in AnyCopy
    BY <1>4 DEF CopyOK
  <2>2. sess' = [q \in Process |-> sess'[q]]
    BY DEF Save
  <2> QED BY <2>1, <2>2
<1>6. ASSUME NEW q \in Process PROVE RequestOK(q)'
  <2>1. RequestOK(q)
    BY DEF UploadTypes
  <2> QED BY <1>1, <1>3, <1>4, <2>1, Working DEF RequestOK, Job
<1> QED BY <1>1, <1>3, <1>5, <1>6 DEF UploadTypes

LEMMA KeepTypes ==
  ASSUME UploadTypes, NEW p \in Process, pc[p] # "idle", NEW place \in Places,
         NEW copy, CopyOK(place, copy), Keep(p, copy, place), StoredTypes'
  PROVE  UploadTypes'
<1>1. /\ RestTypes' /\ pc' \in [Process -> Places]
      /\ task' \in [Process -> {NoTask} \cup (Operations \X Id)]
      /\ pc'[p] = place
      /\ IF place = "idle" THEN task'[p] = NoTask ELSE task'[p] = task[p]
      /\ \A q \in Process : q # p => pc'[q] = pc[q] /\ task'[q] = task[q]
  BY MoveTypes DEF Keep
<1>2. /\ sess' \in [Process -> AnyCopy] /\ rec' = rec /\ sess'[p] = copy
      /\ \A q \in Process : q # p => sess'[q] = sess[q]
  BY DEF Keep, UploadTypes, CopyOK
<1>3. ASSUME NEW q \in Process PROVE RequestOK(q)'
  <2>1. RequestOK(q)
    BY DEF UploadTypes
  <2> QED BY <1>1, <1>2, <2>1, Working DEF RequestOK, Job
<1> QED BY <1>1, <1>2, <1>3 DEF UploadTypes

LEMMA StepTypes ==
  ASSUME UploadTypes, NEW p \in Process, pc[p] # "idle", NEW place \in Quietly,
         Step(p, place), StoredTypes'
  PROVE  UploadTypes'
BY KeepTypes, NoCopyOK DEF Step, Quietly

LEMMA SameStored == UploadTypes /\ UNCHANGED stored => StoredTypes'
BY DEF UploadTypes, StoredTypes, stored

LEMMA UpdateTypes ==
  ASSUME UploadTypes, NEW p \in Process, pc[p] # "idle", UNCHANGED stored,
         NEW r, NEW yes \in Quietly, NEW no \in Quietly,
         \/ RecordOK(r) /\ r.status # "none" /\ Save(p, r, NoCopy, yes)
         \/ Step(p, no)
  PROVE  UploadTypes'
BY SaveTypes, StepTypes, SameStored, NoCopyOK DEF Quietly

-----------------------------------------------------------------------------
LEMMA BlankOK ==
  RecordOK(Blank) /\ Blank.completion = "none" /\ Blank.owner = None /\ ~Blank.live
BY UploadAssumption DEF Blank, RecordOK, AnyRecord, Stages

LEMMA TypesInit == Init => UploadTypes
<1> SUFFICES ASSUME Init PROVE UploadTypes
  OBVIOUS
<1>2. /\ rec \in [Id -> AnyRecord] /\ \A u \in Id : RecordOK(rec[u])
  BY BlankOK DEF Init, RecordOK
<1>3. StoredTypes /\ RestTypes
  BY UploadAssumption DEF Init, StoredTypes, RestTypes
<1>4. CopyOK("idle", NoCopy) /\ "idle" \in Places
  BY NoCopyOK DEF Quietly, Bare, Places
<1>5. /\ pc \in [Process -> Places] /\ sess \in [Process -> AnyCopy]
      /\ task \in [Process -> {NoTask} \cup (Operations \X Id)]
      /\ \A p \in Process : RequestOK(p)
  BY <1>4 DEF Init, CopyOK, RequestOK
<1> QED BY <1>2, <1>3, <1>5 DEF UploadTypes

LEMMA FirstPlace ==
  ASSUME NEW op, NEW r, RecordOK(r)
  PROVE  /\ First(op, r) \in {"beginning", "cancelling", "asking", "cleaning", "idle"}
         /\ First(op, r) = "beginning" => CanReconcile(r) /\ r.uploaded < Size
BY DEF First

LEMMA FirstCopy ==
  ASSUME NEW op, NEW r, RecordOK(r)
  PROVE  First(op, r) \in Places /\ CopyOK(First(op, r), Copy(First(op, r), r))
<1>1. /\ First(op, r) \in {"beginning", "cancelling", "asking", "cleaning", "idle"}
      /\ First(op, r) = "beginning" => CanReconcile(r) /\ r.uploaded < Size
  BY FirstPlace
<1> DEFINE place == First(op, r)
<1> HIDE DEF place
<1>2. CASE place = "beginning"
  <2>1. Copy(place, r) = [status |-> r.status, uploaded |-> r.uploaded, current |-> TRUE]
    BY <1>2 DEF Copy
  <2>2. /\ r.status \in {"pending", "uploading"} /\ r.uploaded \in 0..Size /\ r.uploaded < Size
        /\ place \in Places
    BY <1>1, <1>2 DEF RecordOK, AnyRecord, CanReconcile, Places, place
  <2>4. Copy(place, r) \in AnyCopy
    BY <2>1, <2>2 DEF AnyCopy
  <2> QED BY <2>1, <2>2, <2>4 DEF CopyOK, place
<1>3. CASE place \in {"cancelling", "asking", "cleaning", "idle"}
  <2>1. Copy(place, r) = NoCopy /\ place \in Quietly /\ place \in Places
    BY <1>3 DEF Copy, Quietly, Bare, Places
  <2> QED BY <2>1, NoCopyOK DEF place
<1> QED BY <1>1, <1>2, <1>3 DEF place

(* A session that came to no decision yet may be written back.                 *)
LEMMA WriteBackOK ==
  ASSUME UploadTypes, NEW p \in Process, Unchanged(p),
         pc[p] \in {"reconciling", "beginning", "chunked", "short"}
  PROVE  /\ RecordOK(WriteBack(p)) /\ WriteBack(p).status = sess[p].status
         /\ WriteBack(p).status # "none" /\ WriteBack(p).completion = "none"
         /\ WriteBack(p).expect = rec[Job(p)].expect
         /\ WriteBack(p).uploaded = sess[p].uploaded
<1> DEFINE r == rec[Job(p)]
           w == WriteBack(p)
<1>1. /\ RecordOK(r) /\ r.status # "none" /\ CopyOK(pc[p], sess[p])
      /\ r.completion = "none" /\ ~InTransition(r)
  BY Working DEF Unchanged
<1>2. /\ sess[p].status \in {"pending", "uploading", "uploaded"}
      /\ sess[p].status = "uploaded" => sess[p].uploaded = Size
      /\ sess[p].uploaded \in 0..Size
  BY <1>1 DEF CopyOK, AnyCopy
<1>3. r.owner = None /\ ~r.live /\ r \in AnyRecord
  BY <1>1 DEF RecordOK, AnyRecord, InTransition
<1>4. w = [r EXCEPT !.status = sess[p].status, !.uploaded = sess[p].uploaded]
  BY DEF WriteBack
<1> HIDE DEF w, r
<1>5. /\ w \in AnyRecord /\ w.status = sess[p].status /\ w.uploaded = sess[p].uploaded
      /\ w.completion = "none" /\ w.owner = None /\ ~w.live
      /\ w.expect = r.expect
  BY <1>1, <1>2, <1>3, <1>4 DEF AnyRecord
<1>6. RecordOK(w)
  BY <1>2, <1>5 DEF RecordOK
<1> QED BY <1>2, <1>5, <1>6 DEF w, r

Reading == {"cleaning", "reconciling", "expiring", "beginning", "cancelling", "asking"}

LEMMA CopyAtOK ==
  ASSUME NEW s, NEW place,
         place = "reconciling" \/ place = "expiring",
         s.status \in {"pending", "uploading", "uploaded"}, s.uploaded \in 0..Size,
         s.status = "uploaded" => s.uploaded = Size
  PROVE  CopyOK(place, Copy(place, s))
<1>1. Copy(place, s) = [status |-> s.status, uploaded |-> s.uploaded, current |-> TRUE]
  BY DEF Copy
<1>2. Copy(place, s) \in AnyCopy
  BY <1>1 DEF AnyCopy
<1> QED BY <1>1, <1>2 DEF CopyOK

(* What a process reads is a session there is, and where it goes from there    *)
(* has nothing of the completion yet.                                          *)
LEMMA LookMeans ==
  ASSUME UploadTypes, NEW p \in Process, NEW t \in Serves[p], Look(p, t)
  PROVE  \E place \in Reading, copy \in AnyCopy :
           /\ CopyOK(place, copy) /\ t \in Operations \X Id /\ pc[p] = "idle"
           /\ rec[t[2]].status # "none"
           /\ pc' = [pc EXCEPT ![p] = place] /\ task' = [task EXCEPT ![p] = t]
           /\ sess' = [sess EXCEPT ![p] = copy]
           /\ UNCHANGED <<rec, stored, old, driver, trouble>>
<1> DEFINE u == t[2]
           r == rec[u]
           lost == driver = "gcs" /\ off[u] < 0 /\ CanReconcile(r)
           s == IF ~CanReconcile(r) \/ lost THEN r
                ELSE [r EXCEPT !.uploaded = Bytes(u),
                               !.status = IF Bytes(u) = Size THEN "uploaded"
                                          ELSE IF Bytes(u) > 0 THEN "uploading" ELSE @]
           place == IF t[1] = "recover" /\ CleanupDue(r) THEN "cleaning"
                    ELSE IF s # r THEN "reconciling"
                    ELSE IF CanExpire(r) /\ u \in old THEN "expiring"
                    ELSE IF lost THEN "idle" ELSE First(t[1], s)
<1>1. t \in Operations \X Id /\ u \in Id
  BY UploadAssumption
<1>2. /\ pc[p] = "idle" /\ r.status # "none" /\ place # "idle"
      /\ task' = [task EXCEPT ![p] = t] /\ sess' = [sess EXCEPT ![p] = Copy(place, s)]
      /\ pc' = [pc EXCEPT ![p] = place] /\ UNCHANGED <<rec, stored, old, driver, trouble>>
  BY DEF Look, At, Same
<1>3. RecordOK(r) /\ Bytes(u) \in 0..Size
  <2>1. off[u] \in -1..Size /\ Size \in Nat
    BY <1>1, UploadAssumption DEF UploadTypes, StoredTypes
  <2> QED BY <1>1, <2>1 DEF UploadTypes, Bytes
<1>4. ASSUME s # r
      PROVE  /\ s.status \in {"pending", "uploading", "uploaded"} /\ s.uploaded \in 0..Size
             /\ s.status = "uploaded" => s.uploaded = Size
  <2> DEFINE new == IF Bytes(u) = Size THEN "uploaded"
                    ELSE IF Bytes(u) > 0 THEN "uploading" ELSE r.status
  <2>1. CanReconcile(r) /\ s = [r EXCEPT !.uploaded = Bytes(u), !.status = new]
    BY <1>4
  <2>2. r \in AnyRecord /\ r.status \in {"pending", "uploading"}
    BY <1>3, <2>1 DEF RecordOK, CanReconcile
  <2>3. new \in {"pending", "uploading", "uploaded"} /\ (new = "uploaded" => Bytes(u) = Size)
    BY <2>2
  <2> HIDE DEF s, r, new
  <2>4. s.status = new /\ s.uploaded = Bytes(u)
    BY <2>1, <2>2 DEF AnyRecord
  <2> QED BY <1>3, <2>3, <2>4
<1> HIDE DEF s, r, lost
<1>5. \/ place = "cleaning"
      \/ place = "reconciling" /\ s # r
      \/ place = "expiring" /\ CanExpire(r) /\ s = r
      \/ place = First(t[1], s) /\ s = r
  BY <1>2
<1> HIDE DEF place
<1>6. place \in Reading /\ CopyOK(place, Copy(place, s))
  <2>1. CASE place = "cleaning"
    <3>1. Copy(place, s) = NoCopy /\ place \in Quietly
      BY <2>1 DEF Copy, Quietly, Bare, Places
    <3> QED BY <2>1, <3>1, NoCopyOK DEF Reading
  <2>2. CASE place = "reconciling" /\ s # r
    BY <1>4, <2>2, CopyAtOK DEF Reading
  <2>3. CASE place = "expiring" /\ CanExpire(r) /\ s = r
    <3>1. s.status \in {"pending", "uploading"} /\ s.uploaded \in 0..Size
      BY <1>3, <2>3 DEF CanExpire, RecordOK, AnyRecord
    <3> QED BY <2>3, <3>1, CopyAtOK DEF Reading
  <2>4. CASE place = First(t[1], s) /\ s = r
    BY <1>2, <1>3, <2>4, FirstCopy, FirstPlace DEF Reading
  <2> QED BY <1>5, <2>1, <2>2, <2>3, <2>4
<1>7. Copy(place, s) \in AnyCopy
  BY <1>6 DEF CopyOK
<1> QED BY <1>1, <1>2, <1>6, <1>7 DEF r, u

LEMMA LookTypes ==
  ASSUME UploadTypes, NEW p \in Process, NEW t \in Serves[p], Look(p, t)
  PROVE  UploadTypes'
<1>1. PICK place \in Reading, copy \in AnyCopy :
           /\ CopyOK(place, copy) /\ t \in Operations \X Id /\ pc[p] = "idle"
           /\ rec[t[2]].status # "none"
           /\ pc' = [pc EXCEPT ![p] = place] /\ task' = [task EXCEPT ![p] = t]
           /\ sess' = [sess EXCEPT ![p] = copy]
           /\ UNCHANGED <<rec, stored, old, driver, trouble>>
  BY LookMeans
<1>2. place \in Places /\ place # "idle" /\ copy \in AnyCopy
  BY <1>1 DEF Reading, Places, CopyOK
<1>3. /\ pc' \in [Process -> Places] /\ sess' \in [Process -> AnyCopy]
      /\ task' \in [Process -> {NoTask} \cup (Operations \X Id)]
      /\ StoredTypes' /\ RestTypes'
  BY <1>1, <1>2, SameStored DEF UploadTypes, RestTypes
<1>4. ASSUME NEW q \in Process PROVE RequestOK(q)'
  <2>1. RequestOK(q)
    BY DEF UploadTypes
  <2> QED BY <1>1, <1>2, <2>1 DEF UploadTypes, RequestOK, Job
<1> QED BY <1>1, <1>3, <1>4 DEF UploadTypes

LEMMA RequestCompletionTypes ==
  ASSUME UploadTypes, NEW p \in Process, RequestCompletion(p) PROVE UploadTypes'
<1> DEFINE r == rec[Job(p)]
           w == [r EXCEPT !.completion = "pending"]
<1>1. pc[p] # "idle" /\ RecordOK(r) /\ r.status # "none" /\ UNCHANGED stored
  BY Working DEF RequestCompletion, At, UpdateIf
<1>2. \/ (r.status = "uploaded" /\ r.completion = "none") /\ Save(p, w, NoCopy, "claiming")
      \/ \E no \in {"idle", "claiming"} : Step(p, no)
  BY DEF RequestCompletion, UpdateIf
<1> HIDE DEF r
<1>3. (r.status = "uploaded" /\ r.completion = "none") => RecordOK(w) /\ w.status # "none"
  BY <1>1 DEF RecordOK, AnyRecord, Stages
<1>4. {"idle", "claiming"} \subseteq Quietly
  BY DEF Quietly, Bare, Places
<1> HIDE DEF w
<1> QED BY <1>1, <1>2, <1>3, <1>4, UpdateTypes DEF w, r

LEMMA ClaimCompletionTypes ==
  ASSUME UploadTypes, NEW p \in Process, ClaimCompletion(p) PROVE UploadTypes'
<1> DEFINE r == rec[Job(p)]
           w == [r EXCEPT !.status = "finalizing", !.owner = p, !.live = TRUE]
<1>1. pc[p] # "idle" /\ RecordOK(r) /\ r.status # "none" /\ UNCHANGED stored
  BY Working DEF ClaimCompletion, At, UpdateIf
<1>2. \/ CompletionDue(r) /\ Save(p, w, NoCopy, Checkpoint(r.completion))
      \/ Step(p, "idle")
  BY DEF ClaimCompletion, UpdateIf
<1> HIDE DEF r
<1>3. CompletionDue(r) => RecordOK(w) /\ w.status # "none"
  BY <1>1, UploadAssumption DEF RecordOK, AnyRecord, Stages, CompletionDue
<1>4. {"idle", "finalizing", "publishing", "published"} \subseteq Quietly
  BY DEF Quietly, Bare, Places
<1>5. CompletionDue(r) => Checkpoint(r.completion) \in Quietly
  BY <1>4 DEF CompletionDue, Checkpoint
<1> HIDE DEF w
<1> QED BY <1>1, <1>2, <1>3, <1>4, <1>5, UpdateTypes DEF w, r

LEMMA MarkObjectReadyTypes ==
  ASSUME UploadTypes, NEW p \in Process, MarkObjectReady(p) PROVE UploadTypes'
<1> DEFINE r == rec[Job(p)]
           w == [r EXCEPT !.completion = "object_ready"]
<1>1. pc[p] # "idle" /\ RecordOK(r) /\ r.status # "none" /\ UNCHANGED stored
  BY Working DEF MarkObjectReady, At, UpdateIf
<1>2. \/ OwnedAt(p, {"pending", "object_ready"}) /\ Save(p, w, NoCopy, "publishing")
      \/ Step(p, "idle")
  BY DEF MarkObjectReady, UpdateIf
<1> HIDE DEF r
<1>3. OwnedAt(p, {"pending", "object_ready"}) => RecordOK(w) /\ w.status # "none"
  BY <1>1 DEF OwnedAt, r, RecordOK, AnyRecord, Stages
<1>4. {"idle", "publishing"} \subseteq Quietly
  BY DEF Quietly, Bare, Places
<1> HIDE DEF w
<1> QED BY <1>1, <1>2, <1>3, <1>4, UpdateTypes DEF w, r

LEMMA MarkConflictTypes ==
  ASSUME UploadTypes, NEW p \in Process, MarkConflict(p) PROVE UploadTypes'
<1> DEFINE r == rec[Job(p)]
           w == [Released(r) EXCEPT !.status = "conflict", !.completion = "conflict"]
<1>1. pc[p] # "idle" /\ RecordOK(r) /\ r.status # "none" /\ UNCHANGED stored
  BY Working DEF MarkConflict, At, UpdateIf
<1>2. \/ OwnedAt(p, {"pending", "object_ready", "published"}) /\ Save(p, w, NoCopy, "idle")
      \/ Step(p, "idle")
  BY DEF MarkConflict, UpdateIf
<1> HIDE DEF r
<1>3. OwnedAt(p, {"pending", "object_ready", "published"}) => RecordOK(w) /\ w.status # "none"
  BY <1>1 DEF OwnedAt, r, RecordOK, AnyRecord, Stages, Released
<1>4. {"idle"} \subseteq Quietly
  BY DEF Quietly, Bare, Places
<1> HIDE DEF w
<1> QED BY <1>1, <1>2, <1>3, <1>4, UpdateTypes DEF w, r

LEMMA MarkPublishedTypes ==
  ASSUME UploadTypes, NEW p \in Process, MarkPublished(p) PROVE UploadTypes'
<1> DEFINE r == rec[Job(p)]
           w == [r EXCEPT !.completion = "published", !.cleanup = "pending"]
<1>1. pc[p] # "idle" /\ RecordOK(r) /\ r.status # "none" /\ UNCHANGED stored
  BY Working DEF MarkPublished, At, UpdateIf
<1>2. \/ OwnedAt(p, {"object_ready", "published"}) /\ Save(p, w, NoCopy, "published")
      \/ Step(p, "idle")
  BY DEF MarkPublished, UpdateIf
<1> HIDE DEF r
<1>3. OwnedAt(p, {"object_ready", "published"}) => RecordOK(w) /\ w.status # "none"
  BY <1>1 DEF OwnedAt, r, RecordOK, AnyRecord, Stages
<1>4. {"idle", "published"} \subseteq Quietly
  BY DEF Quietly, Bare, Places
<1> HIDE DEF w
<1> QED BY <1>1, <1>2, <1>3, <1>4, UpdateTypes DEF w, r

LEMMA MarkCompleteTypes ==
  ASSUME UploadTypes, NEW p \in Process, MarkComplete(p) PROVE UploadTypes'
<1> DEFINE r == rec[Job(p)]
           w == [Released(r) EXCEPT !.status = "complete", !.completion = "complete"]
<1>1. pc[p] # "idle" /\ RecordOK(r) /\ r.status # "none" /\ UNCHANGED stored
  BY Working DEF MarkComplete, At, UpdateIf
<1>2. \/ OwnedAt(p, {"published"}) /\ Save(p, w, NoCopy, "cleaning")
      \/ Step(p, "idle")
  BY DEF MarkComplete, UpdateIf
<1> HIDE DEF r
<1>3. OwnedAt(p, {"published"}) => RecordOK(w) /\ w.status # "none"
  BY <1>1 DEF OwnedAt, r, RecordOK, AnyRecord, Stages, Released
<1>4. {"idle", "cleaning"} \subseteq Quietly
  BY DEF Quietly, Bare, Places
<1> HIDE DEF w
<1> QED BY <1>1, <1>2, <1>3, <1>4, UpdateTypes DEF w, r

LEMMA RetryTypes ==
  ASSUME UploadTypes, NEW p \in Process, Retry(p) PROVE UploadTypes'
<1> DEFINE r == rec[Job(p)]
           w == [Released(r) EXCEPT !.status = "uploaded", !.completion = "pending"]
<1>1. pc[p] # "idle" /\ RecordOK(r) /\ r.status # "none" /\ UNCHANGED stored
  BY Working DEF Retry, At, UpdateIf
<1>2. \/ (r.status = "finalizing" /\ r.owner = p) /\ Save(p, w, NoCopy, "idle")
      \/ Step(p, "idle")
  BY DEF Retry, UpdateIf
<1> HIDE DEF r
<1>3. (r.status = "finalizing" /\ r.owner = p) => RecordOK(w) /\ w.status # "none"
  BY <1>1 DEF RecordOK, AnyRecord, Stages, Released
<1>4. {"idle"} \subseteq Quietly
  BY DEF Quietly, Bare, Places
<1> HIDE DEF w
<1> QED BY <1>1, <1>2, <1>3, <1>4, UpdateTypes DEF w, r

LEMMA MarkCleanedTypes ==
  ASSUME UploadTypes, NEW p \in Process, MarkCleaned(p) PROVE UploadTypes'
<1> DEFINE r == rec[Job(p)]
           w == [r EXCEPT !.cleanup = "complete"]
<1>1. pc[p] # "idle" /\ RecordOK(r) /\ r.status # "none" /\ UNCHANGED stored
  BY Working DEF MarkCleaned, At, UpdateIf
<1>2. \/ CleanupDue(r) /\ Save(p, w, NoCopy, "idle")
      \/ Step(p, "idle")
  BY DEF MarkCleaned, UpdateIf
<1> HIDE DEF r
<1>3. CleanupDue(r) => RecordOK(w) /\ w.status # "none"
  BY <1>1 DEF RecordOK, AnyRecord, Stages
<1>4. {"idle"} \subseteq Quietly
  BY DEF Quietly, Bare, Places
<1> HIDE DEF w
<1> QED BY <1>1, <1>2, <1>3, <1>4, UpdateTypes DEF w, r

LEMMA RequestCancelTypes ==
  ASSUME UploadTypes, NEW p \in Process, RequestCancel(p) PROVE UploadTypes'
<1> DEFINE r == rec[Job(p)]
           w == [r EXCEPT !.status = "cancelling", !.completion = "cancel_requested"]
<1>1. pc[p] # "idle" /\ RecordOK(r) /\ r.status # "none" /\ UNCHANGED stored
  BY Working DEF RequestCancel, At, UpdateIf
<1>2. \/ MayCancel(r) /\ Save(p, w, NoCopy, "withdrawing")
      \/ \E no \in {"idle", "withdrawing"} : Step(p, no)
  BY DEF RequestCancel, UpdateIf
<1> HIDE DEF r
<1>3. MayCancel(r) => RecordOK(w) /\ w.status # "none"
  BY <1>1 DEF RecordOK, AnyRecord, Stages, MayCancel
<1>4. {"idle", "withdrawing"} \subseteq Quietly
  BY DEF Quietly, Bare, Places
<1> HIDE DEF w
<1> QED BY <1>1, <1>2, <1>3, <1>4, UpdateTypes DEF w, r

LEMMA MarkCancelledTypes ==
  ASSUME UploadTypes, NEW p \in Process, MarkCancelled(p) PROVE UploadTypes'
<1> DEFINE r == rec[Job(p)]
           w == [r EXCEPT !.status = "cancelled", !.completion = "cancelled"]
<1>1. pc[p] # "idle" /\ RecordOK(r) /\ r.status # "none" /\ UNCHANGED stored
  BY Working DEF MarkCancelled, At, UpdateIf
<1>2. \/ r.status = "cancelling" /\ Save(p, w, NoCopy, "idle")
      \/ Step(p, "idle")
  BY DEF MarkCancelled, UpdateIf
<1> HIDE DEF r
<1>3. r.status = "cancelling" => RecordOK(w) /\ w.status # "none"
  BY <1>1 DEF RecordOK, AnyRecord, Stages
<1>4. {"idle"} \subseteq Quietly
  BY DEF Quietly, Bare, Places
<1> HIDE DEF w
<1> QED BY <1>1, <1>2, <1>3, <1>4, UpdateTypes DEF w, r

LEMMA EndChunkTypes ==
  ASSUME UploadTypes, NEW p \in Process, EndChunk(p) PROVE UploadTypes'
<1>1. pc[p] # "idle" /\ UNCHANGED stored /\ "idle" \in Quietly
  BY DEF EndChunk, UpdateIf, Quietly, Bare, Places
<1>2. Unchanged(p) => RecordOK(WriteBack(p)) /\ WriteBack(p).status # "none"
  BY WriteBackOK DEF EndChunk
<1>3. \/ Unchanged(p) /\ Save(p, WriteBack(p), NoCopy, "idle")
      \/ Step(p, "idle")
  BY DEF EndChunk, UpdateIf
<1> QED BY <1>1, <1>2, <1>3, UpdateTypes

LEMMA FinalizeTypes ==
  ASSUME UploadTypes, NEW p \in Process, Finalize(p) PROVE UploadTypes'
<1>1. pc[p] # "idle" /\ \E place \in {"finalized", "retrying"} : Step(p, place)
  BY DEF Finalize, At
<1>2. {"finalized", "retrying"} \subseteq Quietly
  BY DEF Quietly, Bare, Places
<1>3. StoredTypes'
  BY <1>1, Working, UploadAssumption DEF UploadTypes, StoredTypes, Finalize
<1> QED BY <1>1, <1>2, <1>3, StepTypes

LEMMA PublishTypes ==
  ASSUME UploadTypes, NEW p \in Process, Publish(p) PROVE UploadTypes'
<1>1. pc[p] # "idle" /\ \E place \in {"visible", "mismatch", "retrying"} : Step(p, place)
  BY DEF Publish, At
<1>2. {"visible", "mismatch", "retrying"} \subseteq Quietly
  BY DEF Quietly, Bare, Places
<1>3. StoredTypes'
  BY <1>1, Working, UploadAssumption DEF UploadTypes, StoredTypes, Publish
<1> QED BY <1>1, <1>2, <1>3, StepTypes

LEMMA RecheckTypes ==
  ASSUME UploadTypes, NEW p \in Process, Recheck(p) PROVE UploadTypes'
<1>1. pc[p] # "idle" /\ \E place \in {"visible", "contested"} : Step(p, place)
  BY DEF Recheck, At
<1>2. {"visible", "contested"} \subseteq Quietly
  BY DEF Quietly, Bare, Places
<1>3. StoredTypes'
  BY <1>1, Working, UploadAssumption DEF UploadTypes, StoredTypes, Recheck, stored
<1> QED BY <1>1, <1>2, <1>3, StepTypes

LEMMA CheckReferencesTypes ==
  ASSUME UploadTypes, NEW p \in Process, CheckReferences(p) PROVE UploadTypes'
<1>1. pc[p] # "idle" /\ \E place \in {"refusing", "discarding"} : Step(p, place)
  BY DEF CheckReferences, At
<1>2. {"refusing", "discarding"} \subseteq Quietly
  BY DEF Quietly, Bare, Places
<1>3. StoredTypes'
  BY <1>1, Working, UploadAssumption DEF UploadTypes, StoredTypes, CheckReferences, stored
<1> QED BY <1>1, <1>2, <1>3, StepTypes

LEMMA DiscardTypes ==
  ASSUME UploadTypes, NEW p \in Process, Discard(p) PROVE UploadTypes'
<1>1. pc[p] # "idle" /\ \E place \in {"refusing", "retrying"} : Step(p, place)
  BY DEF Discard, At
<1>2. {"refusing", "retrying"} \subseteq Quietly
  BY DEF Quietly, Bare, Places
<1>3. StoredTypes'
  BY <1>1, Working, UploadAssumption DEF UploadTypes, StoredTypes, Discard
<1> QED BY <1>1, <1>2, <1>3, StepTypes

LEMMA InspectCleanupTypes ==
  ASSUME UploadTypes, NEW p \in Process, InspectCleanup(p) PROVE UploadTypes'
<1>1. pc[p] # "idle" /\ \E place \in {"cleaned", "unlinking", "idle"} : Step(p, place)
  BY DEF InspectCleanup, At
<1>2. {"cleaned", "unlinking", "idle"} \subseteq Quietly
  BY DEF Quietly, Bare, Places
<1>3. StoredTypes'
  BY <1>1, Working, UploadAssumption DEF UploadTypes, StoredTypes, InspectCleanup, stored
<1> QED BY <1>1, <1>2, <1>3, StepTypes

LEMMA UnlinkTypes ==
  ASSUME UploadTypes, NEW p \in Process, Unlink(p) PROVE UploadTypes'
<1>1. pc[p] # "idle" /\ \E place \in {"cleaned"} : Step(p, place)
  BY DEF Unlink, At
<1>2. {"cleaned"} \subseteq Quietly
  BY DEF Quietly, Bare, Places
<1>3. StoredTypes'
  BY <1>1, Working, UploadAssumption DEF UploadTypes, StoredTypes, Unlink
<1> QED BY <1>1, <1>2, <1>3, StepTypes

LEMMA WithdrawTypes ==
  ASSUME UploadTypes, NEW p \in Process, Withdraw(p) PROVE UploadTypes'
<1>1. pc[p] # "idle" /\ \E place \in {"erasing", "withdrawn"} : Step(p, place)
  BY DEF Withdraw, At
<1>2. {"erasing", "withdrawn"} \subseteq Quietly
  BY DEF Quietly, Bare, Places
<1>3. StoredTypes'
  BY <1>1, Working, UploadAssumption DEF UploadTypes, StoredTypes, Withdraw
<1> QED BY <1>1, <1>2, <1>3, StepTypes

LEMMA EraseUploadTypes ==
  ASSUME UploadTypes, NEW p \in Process, EraseUpload(p) PROVE UploadTypes'
<1>1. pc[p] # "idle" /\ \E place \in {"withdrawn"} : Step(p, place)
  BY DEF EraseUpload, At
<1>2. {"withdrawn"} \subseteq Quietly
  BY DEF Quietly, Bare, Places
<1>3. StoredTypes'
  BY <1>1, Working, UploadAssumption DEF UploadTypes, StoredTypes, EraseUpload
<1> QED BY <1>1, <1>2, <1>3, StepTypes

LEMMA ReconcileTypes ==
  ASSUME UploadTypes, NEW p \in Process, Reconcile(p) PROVE UploadTypes'
<1> DEFINE op == task[p][1]
           r == rec[Job(p)]
           w == WriteBack(p)
           next == IF CanExpire(w) /\ Job(p) \in old THEN "expiring" ELSE First(op, w)
           again == First(op, r)
<1>1. pc[p] = "reconciling" /\ RecordOK(r) /\ StoredTypes'
  BY Working, SameStored DEF Reconcile, At
<1>2. \/ Unchanged(p) /\ Save(p, w, Copy(next, w), next)
      \/ Keep(p, Copy(again, r), again)
  BY DEF Reconcile
<1>3. CASE Unchanged(p) /\ Save(p, w, Copy(next, w), next)
  <2>1. RecordOK(w) /\ w.status # "none"
    BY <1>1, <1>3, WriteBackOK
  <2>2. next \in Places /\ CopyOK(next, Copy(next, w))
    <3>1. CASE CanExpire(w) /\ Job(p) \in old
      <4>1. /\ w.status \in {"pending", "uploading", "uploaded"} /\ w.uploaded \in 0..Size
            /\ w.status # "uploaded" /\ next = "expiring"
        BY <2>1, <3>1 DEF CanExpire, RecordOK, AnyRecord
      <4> HIDE DEF next, w
      <4> QED BY <4>1, CopyAtOK DEF Places
    <3>2. CASE ~(CanExpire(w) /\ Job(p) \in old)
      BY <2>1, <3>2, FirstCopy
    <3> QED BY <3>1, <3>2
  <2> HIDE DEF next, w
  <2> QED BY <1>1, <1>3, <2>1, <2>2, SaveTypes
<1>4. CASE Keep(p, Copy(again, r), again)
  <2>1. again \in Places /\ CopyOK(again, Copy(again, r))
    BY <1>1, FirstCopy
  <2> HIDE DEF again, r
  <2> QED BY <1>1, <1>4, <2>1, KeepTypes
<1> QED BY <1>2, <1>3, <1>4

LEMMA ExpireTypes ==
  ASSUME UploadTypes, NEW p \in Process, Expire(p) PROVE UploadTypes'
<1> DEFINE op == task[p][1]
           r == rec[Job(p)]
           w == [r EXCEPT !.status = "expired"]
           mayExpire == r.completion = "none" /\ r.status \in {"pending", "uploading", "uploaded"}
<1>1. pc[p] = "expiring" /\ RecordOK(r) /\ StoredTypes'
  BY Working, SameStored DEF Expire, At
<1>2. \/ mayExpire /\ Save(p, w, NoCopy, First(op, w))
      \/ Keep(p, Copy(First(op, r), r), First(op, r))
  BY DEF Expire
<1>3. CASE mayExpire /\ Save(p, w, NoCopy, First(op, w))
  <2>1. RecordOK(w) /\ w.status = "expired"
    <3> HIDE DEF r
    <3> QED BY <1>1, <1>3 DEF RecordOK, AnyRecord
  <2>2. First(op, w) \in Places /\ First(op, w) \in Quietly
    <3> HIDE DEF w
    <3>1. First(op, w) # "beginning"
      BY <2>1, FirstPlace DEF CanReconcile
    <3> QED BY <2>1, <3>1, FirstPlace DEF Quietly, Bare, Places
  <2> HIDE DEF w
  <2> QED BY <1>1, <1>3, <2>1, <2>2, SaveTypes, NoCopyOK
<1>4. CASE Keep(p, Copy(First(op, r), r), First(op, r))
  BY <1>1, <1>4, FirstCopy, KeepTypes
<1> QED BY <1>2, <1>3, <1>4

LEMMA BeginChunkTypes ==
  ASSUME UploadTypes, NEW p \in Process, BeginChunk(p) PROVE UploadTypes'
<1> DEFINE b == WriteBack(p)
           w == [b EXCEPT !.status = "uploading"]
           copy == Copy("beginning", w)
<1>1. /\ pc[p] = "beginning" /\ StoredTypes' /\ CopyOK("beginning", sess[p])
      /\ "idle" \in Quietly /\ "chunk" \in Places
  BY Working, SameStored DEF BeginChunk, At, Quietly, Bare, Places
<1>2. \/ Unchanged(p) /\ Save(p, w, copy, "chunk")
      \/ Step(p, "idle")
  BY DEF BeginChunk
<1>3. CASE Unchanged(p) /\ Save(p, w, copy, "chunk")
  <2>1. /\ RecordOK(b) /\ b.status \in {"pending", "uploading"} /\ b.uploaded < Size
        /\ b.completion = "none"
    BY <1>1, <1>3, WriteBackOK, UploadAssumption DEF CopyOK, AnyCopy
  <2> HIDE DEF b
  <2>2. RecordOK(w) /\ w.status = "uploading" /\ w.uploaded = b.uploaded
    BY <2>1 DEF RecordOK, AnyRecord
  <2> HIDE DEF w
  <2>3. copy = [status |-> "uploading", uploaded |-> b.uploaded, current |-> TRUE]
    BY <2>2 DEF Copy
  <2>4. b.uploaded \in 0..Size
    BY <2>1 DEF RecordOK, AnyRecord
  <2> HIDE DEF copy
  <2>5. CopyOK("chunk", copy)
    BY <2>1, <2>3, <2>4 DEF CopyOK, AnyCopy
  <2> QED BY <1>1, <1>3, <2>2, <2>5, SaveTypes
<1>4. CASE Step(p, "idle")
  BY <1>1, <1>4, StepTypes
<1> QED BY <1>2, <1>3, <1>4

(* A step within a chunk: only the copy, the place and the staging file change. *)
LEMMA ChunkTypes ==
  ASSUME UploadTypes, NEW p \in Process, pc[p] \in Bare, NEW place \in Places, place # "idle",
         NEW c \in AnyCopy, CopyOK(place, c), StoredTypes',
         pc' = [pc EXCEPT ![p] = place], sess' = [sess EXCEPT ![p] = c],
         UNCHANGED <<rec, task>>, Same
  PROVE  UploadTypes'
<1>1. /\ pc' \in [Process -> Places] /\ sess' \in [Process -> AnyCopy]
      /\ task' \in [Process -> {NoTask} \cup (Operations \X Id)] /\ RestTypes'
      /\ rec' = rec /\ task' = task
  BY DEF UploadTypes, RestTypes, Same
<1>2. ASSUME NEW q \in Process PROVE RequestOK(q)'
  <2>1. RequestOK(q) /\ pc[p] # "idle"
    BY DEF UploadTypes, Bare
  <2> QED BY <1>1, <2>1 DEF UploadTypes, RequestOK, Job
<1> QED BY <1>1, <1>2 DEF UploadTypes

LEMMA StoreChunkTypes ==
  ASSUME UploadTypes, NEW p \in Process, StoreChunk(p) PROVE UploadTypes'
<1> DEFINE u == Job(p)
           from == sess[p].uploaded
           c(size, place) ==
             [sess[p] EXCEPT !.uploaded = IF place = "oversize" THEN from ELSE size,
                             !.status = IF place = "chunked" /\ size > from /\ size = Size
                                        THEN "uploaded" ELSE @]
<1>1. /\ pc[p] = "chunk" /\ u \in Id /\ CopyOK("chunk", sess[p]) /\ Size \in Nat \ {0}
      /\ off[u] \in -1..Size
  BY Working, UploadAssumption DEF StoreChunk, At, UploadTypes, StoredTypes
<1>2. /\ sess[p] \in AnyCopy /\ from \in 0..Size /\ from < Size /\ Bytes(u) \in 0..Size
      /\ sess[p].status \in {"pending", "uploading"}
  BY <1>1 DEF CopyOK, AnyCopy, Bytes
<1>3. PICK size \in 0..Size, place \in {"short", "chunked", "oversize"} :
        /\ off' = IF driver = "local" THEN [off EXCEPT ![u] = size] ELSE off
        /\ sess' = [sess EXCEPT ![p] = c(size, place)]
        /\ pc' = [pc EXCEPT ![p] = place]
        /\ UNCHANGED <<rec, obj, at, trash, shown, task>> /\ Same
  <2> DEFINE Committed(size, place) ==
               /\ off' = IF driver = "local" THEN [off EXCEPT ![u] = size] ELSE off
               /\ sess' = [sess EXCEPT ![p] = c(size, place)]
               /\ pc' = [pc EXCEPT ![p] = place]
  <2>1. \/ Committed(0, "short") \/ Committed(Bytes(u), "short") \/ Committed(from, "short")
        \/ Committed(from + 1, "chunked") \/ Committed(from + 1, "oversize")
    BY <1>1, <1>2 DEF StoreChunk, UploadTypes
  <2>2. UNCHANGED <<rec, obj, at, trash, shown, task>> /\ Same
    BY DEF StoreChunk
  <2>3. from + 1 \in 0..Size /\ 0 \in 0..Size
    BY <1>1, <1>2
  <2> QED BY <1>2, <2>1, <2>2, <2>3
<1>4. StoredTypes'
  BY <1>1, <1>3 DEF UploadTypes, StoredTypes
<1>5. c(size, place) \in AnyCopy /\ CopyOK(place, c(size, place))
  BY <1>2, <1>3 DEF AnyCopy, CopyOK
<1>6. place \in Places /\ place # "idle" /\ pc[p] \in Bare
  BY <1>1 DEF Places, Bare
<1> HIDE DEF c
<1> QED BY <1>3, <1>4, <1>5, <1>6, ChunkTypes

LEMMA RollbackChunkTypes ==
  ASSUME UploadTypes, NEW p \in Process, RollbackChunk(p) PROVE UploadTypes'
<1> DEFINE u == Job(p)
           from == sess[p].uploaded
           c == [sess[p] EXCEPT !.uploaded = IF off[u] >= from THEN from ELSE from + 1]
<1>1. /\ pc[p] = "oversize" /\ u \in Id /\ CopyOK("oversize", sess[p]) /\ Size \in Nat \ {0}
      /\ off[u] \in -1..Size
  BY Working, UploadAssumption DEF RollbackChunk, At, UploadTypes, StoredTypes
<1>2. /\ sess[p] \in AnyCopy /\ from \in 0..Size /\ from < Size
      /\ sess[p].status \in {"pending", "uploading"}
  BY <1>1 DEF CopyOK, AnyCopy
<1>3. /\ off' = IF off[u] >= from THEN [off EXCEPT ![u] = from] ELSE off
      /\ sess' = [sess EXCEPT ![p] = c]
      /\ pc' = [pc EXCEPT ![p] = "chunked"]
      /\ UNCHANGED <<rec, obj, at, trash, shown, task>> /\ Same
  BY DEF RollbackChunk
<1>4. StoredTypes'
  BY <1>1, <1>2, <1>3 DEF UploadTypes, StoredTypes
<1>5. c \in AnyCopy /\ CopyOK("chunked", c)
  <2> DEFINE n == IF off[u] >= from THEN from ELSE from + 1
  <2>1. n \in 0..Size
    BY <1>1, <1>2
  <2>2. c = [sess[p] EXCEPT !.uploaded = n]
    OBVIOUS
  <2> HIDE DEF n, c
  <2>3. c \in AnyCopy /\ c.status = sess[p].status
    BY <1>2, <2>1, <2>2 DEF AnyCopy
  <2> QED BY <1>2, <2>3 DEF CopyOK
<1>6. "chunked" \in Places /\ pc[p] \in Bare
  BY <1>1 DEF Places, Bare
<1> HIDE DEF c
<1> QED BY <1>3, <1>4, <1>5, <1>6, ChunkTypes

-----------------------------------------------------------------------------
(* Steps of sessions, of the browser and of the environment.                   *)

LEMMA RecordStepTypes ==
  ASSUME UploadTypes, StoredTypes', RestTypes', UNCHANGED <<task, sess, pc>>,
         NEW u \in Id, NEW r, RecordOK(r), r.status # "none", rec' = [rec EXCEPT ![u] = r]
  PROVE  UploadTypes'
<1>1. /\ rec' \in [Id -> AnyRecord] /\ \A v \in Id : RecordOK(rec'[v])
      /\ \A v \in Id : rec[v].status # "none" => rec'[v].status # "none"
  BY DEF UploadTypes, RecordOK
<1>2. ASSUME NEW q \in Process PROVE RequestOK(q)'
  <2>1. RequestOK(q)
    BY DEF UploadTypes
  <2> QED BY <1>1, <2>1, Working DEF RequestOK, Job
<1> QED BY <1>1, <1>2 DEF UploadTypes

LEMMA CreateTypes == ASSUME UploadTypes, NEW u \in Id, Create(u) PROVE UploadTypes'
<1> DEFINE r == [Blank EXCEPT !.status = "pending", !.expect = at]
<1>1. RecordOK(r) /\ r.status # "none"
  <2>1. at \in Id \cup {None, Old}
    BY DEF UploadTypes, StoredTypes
  <2>2. r \in AnyRecord /\ r.status = "pending" /\ r.completion = Blank.completion
        /\ r.owner = Blank.owner /\ r.live = Blank.live
    BY <2>1, BlankOK DEF RecordOK, AnyRecord
  <2> HIDE DEF r
  <2> QED BY <2>2, BlankOK DEF RecordOK
<1>2. StoredTypes' /\ RestTypes'
  BY UploadAssumption DEF Create, UploadTypes, StoredTypes, RestTypes, Same
<1>3. rec' = [rec EXCEPT ![u] = r] /\ UNCHANGED <<task, sess, pc>>
  BY DEF Create
<1> HIDE DEF r
<1> QED BY <1>1, <1>2, <1>3, RecordStepTypes

LEMMA LeaseExpiresTypes == ASSUME UploadTypes, NEW u \in Id, LeaseExpires(u) PROVE UploadTypes'
<1> DEFINE r == [rec[u] EXCEPT !.live = FALSE]
<1>1. RecordOK(rec[u]) /\ rec \in [Id -> AnyRecord]
  BY DEF UploadTypes
<1>2. RecordOK(r) /\ r.status = rec[u].status
  BY <1>1 DEF RecordOK, AnyRecord
<1>3. StoredTypes' /\ RestTypes'
  BY SameStored DEF LeaseExpires, UploadTypes, RestTypes
<1>4. rec' = [rec EXCEPT ![u] = r] /\ UNCHANGED <<task, sess, pc>>
  BY <1>1 DEF LeaseExpires
<1>5. r.status # "none"
  BY <1>1, <1>2 DEF LeaseExpires, RecordOK
<1> HIDE DEF r
<1> QED BY <1>2, <1>3, <1>4, <1>5, RecordStepTypes

LEMMA QuietTypes ==
  ASSUME UploadTypes, UNCHANGED <<rec, task, sess, pc>>, StoredTypes', RestTypes'
  PROVE  UploadTypes'
<1>1. ASSUME NEW q \in Process PROVE RequestOK(q)'
  BY DEF UploadTypes, RequestOK, Job
<1> QED BY <1>1 DEF UploadTypes

LEMMA DirectWriteTypes == ASSUME UploadTypes, NEW u \in Id, DirectWrite(u) PROVE UploadTypes'
<1>1. StoredTypes' /\ RestTypes'
  BY UploadAssumption DEF DirectWrite, UploadTypes, StoredTypes, RestTypes, Quiet
<1> QED BY <1>1, QuietTypes DEF DirectWrite, Quiet

LEMMA AgeTypes == ASSUME UploadTypes, NEW u \in Id, Age(u) PROVE UploadTypes'
<1>1. StoredTypes' /\ RestTypes'
  BY UploadAssumption DEF Age, UploadTypes, StoredTypes, RestTypes
<1> QED BY <1>1, QuietTypes DEF Age

LEMMA VacateTypes == ASSUME UploadTypes, Vacate PROVE UploadTypes'
<1>1. StoredTypes' /\ RestTypes'
  BY DEF Vacate, UploadTypes, StoredTypes, RestTypes, Quiet
<1> QED BY <1>1, QuietTypes DEF Vacate, Quiet

LEMMA ErrorTypes == ASSUME UploadTypes, NEW p \in Process, Error(p) PROVE UploadTypes'
<1>1. /\ pc[p] \in {"finalizing", "publishing", "contested", "discarding"}
      /\ pc' = [pc EXCEPT ![p] = "retrying"] /\ UNCHANGED <<rec, stored, old, driver, task, sess>>
      /\ trouble > 0 /\ trouble' = trouble - 1
  BY DEF Error
<1>2. StoredTypes' /\ RestTypes'
  BY <1>1, SameStored, UploadAssumption DEF UploadTypes, RestTypes
<1>3. pc' \in [Process -> Places]
  BY <1>1 DEF UploadTypes, Places
<1>4. ASSUME NEW q \in Process PROVE RequestOK(q)'
  <2>1. RequestOK(q)
    BY DEF UploadTypes
  <2> QED BY <1>1, <2>1 DEF UploadTypes, RequestOK, Job, CopyOK
<1> QED BY <1>1, <1>2, <1>3, <1>4 DEF UploadTypes

LEMMA CrashTypes == ASSUME UploadTypes, NEW p \in Process, Crash(p) PROVE UploadTypes'
<1> DEFINE u == Job(p)
           r == rec[u]
           w == [r EXCEPT !.owner = IF @ = p THEN Gone ELSE @]
<1>1. pc[p] # "idle" /\ u \in Id /\ RecordOK(r) /\ r.status # "none"
  BY Working DEF Crash
<1>2. /\ rec' = [rec EXCEPT ![u] = w]
      /\ pc' = [pc EXCEPT ![p] = "idle"] /\ task' = [task EXCEPT ![p] = NoTask]
      /\ sess' = [sess EXCEPT ![p] = NoCopy] /\ UNCHANGED <<stored, old, driver>>
      /\ trouble > 0 /\ trouble' = trouble - 1
  BY DEF Crash
<1>3. RecordOK(w) /\ w.status # "none"
  <2> DEFINE o == IF r.owner = p THEN Gone ELSE r.owner
  <2>1. /\ r \in AnyRecord /\ o \in Process \cup {None, Gone}
        /\ o = None <=> r.owner = None
    BY <1>1, UploadAssumption DEF RecordOK, AnyRecord
  <2>2. w = [r EXCEPT !.owner = o]
    OBVIOUS
  <2> HIDE DEF o, r
  <2> QED BY <1>1, <2>1, <2>2 DEF RecordOK, AnyRecord
<1>4. StoredTypes' /\ RestTypes'
  BY <1>2, SameStored, UploadAssumption DEF UploadTypes, RestTypes
<1> HIDE DEF w
<1>5. /\ rec' \in [Id -> AnyRecord] /\ \A v \in Id : RecordOK(rec'[v])
      /\ \A v \in Id : rec[v].status # "none" => rec'[v].status # "none"
  BY <1>1, <1>2, <1>3 DEF UploadTypes, RecordOK
<1>6. CopyOK("idle", NoCopy) /\ "idle" \in Places
  BY NoCopyOK DEF Quietly, Bare, Places
<1>7. /\ pc' \in [Process -> Places] /\ sess' \in [Process -> AnyCopy]
      /\ task' \in [Process -> {NoTask} \cup (Operations \X Id)]
  BY <1>2, <1>6 DEF UploadTypes, CopyOK
<1>8. ASSUME NEW q \in Process PROVE RequestOK(q)'
  <2>1. RequestOK(q)
    BY DEF UploadTypes
  <2> QED BY <1>2, <1>5, <1>6, <2>1, Working DEF UploadTypes, RequestOK, Job
<1> QED BY <1>4, <1>5, <1>7, <1>8 DEF UploadTypes

LEMMA NextTypes == UploadTypes /\ [Next]_vars => UploadTypes'
<1> SUFFICES ASSUME UploadTypes, [Next]_vars PROVE UploadTypes'
  OBVIOUS
<1>1. CASE UNCHANGED vars
  BY <1>1, SameStored, QuietTypes DEF vars, UploadTypes, RestTypes
<1>2. ASSUME NEW p \in Process, Continue(p) PROVE UploadTypes'
  <2>1. CASE Reconcile(p) \/ Expire(p) \/ BeginChunk(p) \/ StoreChunk(p) \/ RollbackChunk(p)
             \/ EndChunk(p)
    BY <2>1, ReconcileTypes, ExpireTypes, BeginChunkTypes, StoreChunkTypes, RollbackChunkTypes,
       EndChunkTypes
  <2>2. CASE RequestCompletion(p) \/ ClaimCompletion(p) \/ Finalize(p) \/ MarkObjectReady(p)
             \/ Publish(p) \/ Recheck(p) \/ CheckReferences(p) \/ Discard(p)
    BY <2>2, RequestCompletionTypes, ClaimCompletionTypes, FinalizeTypes, MarkObjectReadyTypes,
       PublishTypes, RecheckTypes, CheckReferencesTypes, DiscardTypes
  <2>3. CASE MarkConflict(p) \/ MarkPublished(p) \/ MarkComplete(p) \/ Retry(p)
             \/ InspectCleanup(p) \/ Unlink(p) \/ MarkCleaned(p)
    BY <2>3, MarkConflictTypes, MarkPublishedTypes, MarkCompleteTypes, RetryTypes,
       InspectCleanupTypes, UnlinkTypes, MarkCleanedTypes
  <2>4. CASE RequestCancel(p) \/ Withdraw(p) \/ EraseUpload(p) \/ MarkCancelled(p)
    BY <2>4, RequestCancelTypes, WithdrawTypes, EraseUploadTypes, MarkCancelledTypes
  <2> QED BY <1>2, <2>1, <2>2, <2>3, <2>4 DEF Continue
<1>3. ASSUME NEW p \in Process, NEW t \in Serves[p], Look(p, t) PROVE UploadTypes'
  BY <1>3, LookTypes
<1>4. ASSUME NEW p \in Process, Crash(p) \/ Error(p) PROVE UploadTypes'
  BY <1>4, CrashTypes, ErrorTypes
<1>5. ASSUME NEW u \in Id, Create(u) \/ DirectWrite(u) \/ Age(u) \/ LeaseExpires(u)
      PROVE  UploadTypes'
  BY <1>5, CreateTypes, DirectWriteTypes, AgeTypes, LeaseExpiresTypes
<1>6. CASE Vacate
  BY <1>6, VacateTypes
<1> QED BY <1>1, <1>2, <1>3, <1>4, <1>5, <1>6 DEF Next

(* Under every fault of the model the variables have their types, and a        *)
(* session's status, its completion status, its owner and its bytes agree.     *)
THEOREM TypesAlways == Spec => []TypeOK
<1>1. UploadTypes => TypeOK
  <2> SUFFICES ASSUME UploadTypes PROVE TypeOK
    OBVIOUS
  <2>1. rec \in [Id -> AnyRecord] /\ \A u \in Id : RecordOK(rec[u])
    BY DEF UploadTypes
  <2>2. ASSUME NEW u \in Id
        PROVE  LET r == rec[u] IN
                 /\ r.completion \in {"object_ready", "published"} => r.status = "finalizing"
                 /\ r.completion \in {"complete", "conflict", "cancelled"}
                      => r.status = r.completion
                 /\ r.status = "finalizing" <=> r.owner # None
                 /\ r.status \in {"uploaded", "finalizing"} => r.uploaded = Size
    BY <2>1 DEF RecordOK, AnyRecord
  <2> QED BY <2>1, <2>2 DEF UploadTypes, StoredTypes, RestTypes, TypeOK, AnyRecord, AnyCopy
<1> QED BY <1>1, TypesInit, NextTypes, PTL DEF Spec

-----------------------------------------------------------------------------
(* The saga, as long as nothing of the following happens: a lease that runs    *)
(* out while its owner works on, a reply lost after the effect, a path         *)
(* vacated under a completion that waits for it to be free.                    *)

Calm == Faults \cap {"lost_reply", "stall", "vacate"} = {}

Knowing == Completing \cup {"unlinking", "withdrawing", "erasing", "withdrawn"}

LEMMA PlainPlace ==
  ASSUME NEW p, NEW place, place \notin Knowing, NEW u, NEW r
  PROVE  PlaceTrue(p, place, u, r) /\ PlaceTrue(p, place, u, r)'
BY DEF PlaceTrue, Knowing, Completing, Losing

LEMMA SagaInit == Init => Saga
<1> SUFFICES ASSUME Init PROVE Saga
  OBVIOUS
<1>1. PathTrue
  BY DEF Init, PathTrue
<1>2. ASSUME NEW u \in Id PROVE RecordTrue(u, rec[u])
  <2>1. rec[u] = Blank /\ shown = {}
    BY DEF Init
  <2>2. Blank.expect = None /\ Blank.completion = "none" /\ Blank.status = "none"
    BY DEF Blank
  <2> HIDE DEF Blank
  <2> QED BY <2>1, <2>2, UploadAssumption DEF RecordTrue
<1> QED BY <1>1, <1>2 DEF Init, Saga

(* A process goes on; objects may be added.                                    *)
LEMMA StepSaga ==
  ASSUME UploadTypes, Saga, NEW p \in Process, pc[p] # "idle",
         NEW u, u = Job(p), NEW r, r = rec[u], NEW place \in Places, NEW copy,
         Keep(p, copy, place), at' = at, trash' = trash, shown' = shown, obj \subseteq obj',
         place # "idle" => PlaceTrue(p, place, u, r)'
  PROVE  Saga'
<1>1. /\ pc'[p] = place /\ rec' = rec
      /\ IF place = "idle" THEN task'[p] = NoTask ELSE task'[p] = task[p]
      /\ \A q \in Process : q # p => pc'[q] = pc[q] /\ task'[q] = task[q]
  BY MoveTypes DEF Keep
<1>2. PathTrue'
  BY DEF Saga, PathTrue
<1>3. ASSUME NEW v \in Id PROVE RecordTrue(v, rec[v])'
  BY <1>1 DEF Saga, RecordTrue
<1>4. ASSUME NEW q \in Process, pc'[q] # "idle"
      PROVE  PlaceTrue(q, pc[q], Job(q), rec[Job(q)])'
  <2>1. CASE q = p
    BY <1>1, <1>4, <2>1 DEF PlaceTrue, Job
  <2>2. CASE q # p
    BY <1>1, <1>4, <2>2 DEF Saga, PlaceTrue, Job
  <2> QED BY <2>1, <2>2
<1> QED BY <1>2, <1>3, <1>4 DEF Saga

(* A process stores a record of which no other process holds the completion.   *)
LEMMA SaveSaga ==
  ASSUME UploadTypes, Saga, NEW p \in Process, pc[p] # "idle",
         NEW u, u = Job(p), NEW r, r = rec[u], NEW place \in Places, NEW copy, NEW w,
         Save(p, w, copy, place), UNCHANGED stored,
         w.expect = r.expect, RecordTrue(u, w), place # "idle" => PlaceTrue(p, place, u, w),
         r.status \in {"cancelling", "cancelled"} => w.status \in {"cancelling", "cancelled"},
         \A q \in Process : q # p /\ pc[q] \in Completing => Job(q) # u
  PROVE  Saga'
<1>1. /\ pc'[p] = place
      /\ IF place = "idle" THEN task'[p] = NoTask ELSE task'[p] = task[p]
      /\ \A q \in Process : q # p => pc'[q] = pc[q] /\ task'[q] = task[q]
  BY MoveTypes DEF Save
<1>2. u \in Id /\ rec' = [rec EXCEPT ![u] = w] /\ rec \in [Id -> AnyRecord]
      /\ at' = at /\ trash' = trash /\ shown' = shown /\ obj' = obj
  BY Working DEF Save, UploadTypes, stored
<1>3. rec'[u] = w /\ \A v \in Id : v # u => rec'[v] = rec[v]
  BY <1>2
<1>4. PathTrue'
  BY <1>2 DEF Saga, PathTrue
<1>5. ASSUME NEW v \in Id PROVE RecordTrue(v, rec[v])'
  BY <1>2, <1>3 DEF Saga, RecordTrue
<1>6. ASSUME NEW q \in Process, pc'[q] # "idle"
      PROVE  PlaceTrue(q, pc[q], Job(q), rec[Job(q)])'
  <2>1. CASE q = p
    BY <1>1, <1>2, <1>3, <1>6, <2>1 DEF PlaceTrue, Job
  <2>2. CASE q # p
    <3>1. /\ pc'[q] = pc[q] /\ Job(q)' = Job(q) /\ Job(q) \in Id
          /\ PlaceTrue(q, pc[q], Job(q), rec[Job(q)])
      BY <1>1, <1>6, <2>2, Working DEF Saga, Job
    <3>2. CASE Job(q) # u
      BY <1>2, <1>3, <3>1, <3>2 DEF PlaceTrue
    <3>3. CASE Job(q) = u
      <4>1. pc[q] \notin Completing
        BY <2>2, <3>3
      <4> QED BY <1>2, <1>3, <3>1, <3>3, <4>1 DEF PlaceTrue, Completing, Losing
    <3> QED BY <3>2, <3>3
  <2> QED BY <2>1, <2>2
<1> QED BY <1>4, <1>5, <1>6 DEF Saga

(* A process deletes an object that nothing shows or relies on.                *)
LEMMA RemoveSaga ==
  ASSUME UploadTypes, Saga, NEW p \in Process, pc[p] # "idle",
         NEW u, u = Job(p), NEW r, r = rec[u], NEW place \in Places, NEW copy,
         Keep(p, copy, place), at' = at, trash' = trash, shown' = shown,
         NEW o, obj' = obj \ {o}, o # at, o \notin trash,
         o \in Id /\ rec[o].completion = "object_ready" => at # rec[o].expect,
         \A q \in Process : q # p /\ pc[q] = "finalized" => Job(q) # o,
         place # "idle" => PlaceTrue(p, place, u, r)'
  PROVE  Saga'
<1>1. /\ pc'[p] = place /\ rec' = rec
      /\ IF place = "idle" THEN task'[p] = NoTask ELSE task'[p] = task[p]
      /\ \A q \in Process : q # p => pc'[q] = pc[q] /\ task'[q] = task[q]
  BY MoveTypes DEF Keep
<1>2. PathTrue'
  BY DEF Saga, PathTrue
<1>3. ASSUME NEW v \in Id PROVE RecordTrue(v, rec[v])'
  BY <1>1 DEF Saga, RecordTrue
<1>4. ASSUME NEW q \in Process, pc'[q] # "idle"
      PROVE  PlaceTrue(q, pc[q], Job(q), rec[Job(q)])'
  <2>1. CASE q = p
    BY <1>1, <1>4, <2>1 DEF PlaceTrue, Job
  <2>2. CASE q # p
    BY <1>1, <1>4, <2>2 DEF Saga, PlaceTrue, Job
  <2> QED BY <2>1, <2>2
<1> QED BY <1>2, <1>3, <1>4 DEF Saga

(* The completion of a session is held by the process that claimed it.         *)
LEMMA Alone ==
  ASSUME Saga, NEW p, NEW q \in Process, q # p, pc[q] \in Completing, NEW u, NEW r, r = rec[u],
         r.status # "finalizing" \/ r.owner = p \/ ~r.live
  PROVE  Job(q) # u
BY DEF Saga, PlaceTrue, Completing

LEMMA Here ==
  ASSUME UploadTypes, Saga, NEW p \in Process, pc[p] # "idle", NEW u, u = Job(p), NEW r, r = rec[u]
  PROVE  u \in Id /\ RecordOK(r) /\ RecordTrue(u, r) /\ PlaceTrue(p, pc[p], u, r) /\ PathTrue
BY Working DEF Saga

(* A process goes to a place where it knows nothing of the path.               *)
LEMMA PlainStepSaga ==
  ASSUME UploadTypes, Saga, NEW p \in Process, pc[p] # "idle", NEW place \in Places \ Knowing,
         NEW copy, Keep(p, copy, place), UNCHANGED <<obj, at, trash, shown>>
  PROVE  Saga'
<1>1. PICK u, r : u = Job(p) /\ r = rec[u]
  OBVIOUS
<1>2. PlaceTrue(p, place, u, r)'
  BY PlainPlace
<1> QED BY <1>1, <1>2, StepSaga

Late == {"object_ready", "published", "complete", "conflict"}

(* A session without a completion changes into another.                        *)
LEMMA EarlySaga ==
  ASSUME UploadTypes, Saga, NEW p \in Process, pc[p] # "idle",
         NEW u, u = Job(p), NEW r, r = rec[u], NEW place \in Places \ Knowing, NEW copy, NEW w,
         Save(p, w, copy, place), UNCHANGED stored, w.expect = r.expect,
         r.completion \notin Late, w.completion \notin Late, w.status # "conflict",
         r.status \notin {"finalizing", "cancelling", "cancelled"}
  PROVE  Saga'
<1>1. RecordTrue(u, r)
  BY Here
<1>2. RecordTrue(u, w)
  BY <1>1 DEF RecordTrue, Late
<1>3. \A q \in Process : q # p /\ pc[q] \in Completing => Job(q) # u
  BY Alone
<1> QED BY <1>2, <1>3, SaveSaga, PlainPlace

LEMMA UnchangedIsEarly ==
  ASSUME UploadTypes, NEW p \in Process, pc[p] # "idle", Unchanged(p)
  PROVE  /\ rec[Job(p)].completion \notin Late
         /\ rec[Job(p)].status \notin {"finalizing", "cancelling", "cancelled"}
BY DEF Unchanged, InTransition, Late

LEMMA WriteBackSaga ==
  ASSUME UploadTypes, Saga, NEW p \in Process, Unchanged(p),
         pc[p] \in {"reconciling", "beginning", "chunked", "short"},
         NEW place \in Places \ Knowing, NEW copy,
         Save(p, WriteBack(p), copy, place), UNCHANGED stored
  PROVE  Saga'
<1>1. /\ WriteBack(p).completion \notin Late /\ WriteBack(p).status # "conflict"
      /\ WriteBack(p).expect = rec[Job(p)].expect
  BY WriteBackOK, Working DEF Late, CopyOK
<1>2. pc[p] # "idle"
  OBVIOUS
<1> QED BY <1>1, <1>2, UnchangedIsEarly, EarlySaga

LEMMA FirstIsPlain ==
  ASSUME NEW op, NEW r, RecordOK(r) PROVE First(op, r) \in Places \ Knowing
BY FirstPlace DEF Places, Knowing, Completing

LEMMA ReconcileSaga ==
  ASSUME UploadTypes, Saga, NEW p \in Process, Reconcile(p) PROVE Saga'
<1> DEFINE w == WriteBack(p)
           next == IF CanExpire(w) /\ Job(p) \in old THEN "expiring" ELSE First(task[p][1], w)
           again == First(task[p][1], rec[Job(p)])
<1>1. pc[p] = "reconciling" /\ RecordOK(rec[Job(p)]) /\ UNCHANGED stored
  BY Working DEF Reconcile, At
<1>2. \/ Unchanged(p) /\ Save(p, w, Copy(next, w), next)
      \/ Keep(p, Copy(again, rec[Job(p)]), again)
  BY DEF Reconcile
<1>3. CASE Unchanged(p) /\ Save(p, w, Copy(next, w), next)
  <2>1. RecordOK(w)
    BY <1>1, <1>3, WriteBackOK
  <2>2. next \in Places \ Knowing
    BY <2>1, FirstIsPlain DEF Places, Knowing, Completing
  <2> HIDE DEF next
  <2> QED BY <1>1, <1>3, <2>2, WriteBackSaga
<1>4. CASE Keep(p, Copy(again, rec[Job(p)]), again)
  <2>1. again \in Places \ Knowing
    BY <1>1, FirstIsPlain
  <2> HIDE DEF again
  <2> QED BY <1>1, <1>4, <2>1, PlainStepSaga DEF stored
<1> QED BY <1>2, <1>3, <1>4

LEMMA ExpireSaga ==
  ASSUME UploadTypes, Saga, NEW p \in Process, Expire(p) PROVE Saga'
<1> DEFINE r == rec[Job(p)]
           w == [r EXCEPT !.status = "expired"]
           yes == First(task[p][1], w)
           no == First(task[p][1], r)
<1>1. pc[p] = "expiring" /\ RecordOK(r) /\ UNCHANGED stored
  BY Working DEF Expire, At
<1>2. \/ /\ r.completion = "none" /\ r.status \in {"pending", "uploading", "uploaded"}
         /\ Save(p, w, NoCopy, yes)
      \/ Keep(p, Copy(no, r), no)
  BY DEF Expire
<1>3. CASE /\ r.completion = "none" /\ r.status \in {"pending", "uploading", "uploaded"}
           /\ Save(p, w, NoCopy, yes)
  <2>1. RecordOK(w) /\ w.status = "expired" /\ w.completion = "none" /\ w.expect = r.expect
    <3> HIDE DEF r
    <3> QED BY <1>1, <1>3 DEF RecordOK, AnyRecord
  <2>2. yes \in Places \ Knowing
    <3> HIDE DEF w
    <3> QED BY <2>1, FirstIsPlain
  <2> HIDE DEF w, yes
  <2> QED BY <1>1, <1>3, <2>1, <2>2, EarlySaga DEF Late
<1>4. CASE Keep(p, Copy(no, r), no)
  <2>1. no \in Places \ Knowing
    BY <1>1, FirstIsPlain
  <2> HIDE DEF no
  <2> QED BY <1>1, <1>4, <2>1, PlainStepSaga DEF stored
<1> QED BY <1>2, <1>3, <1>4

LEMMA BeginChunkSaga ==
  ASSUME UploadTypes, Saga, NEW p \in Process, BeginChunk(p) PROVE Saga'
<1> DEFINE b == WriteBack(p)
           w == [b EXCEPT !.status = "uploading"]
<1>1. pc[p] = "beginning" /\ UNCHANGED stored
  BY DEF BeginChunk, At
<1>2. {"idle", "chunk"} \subseteq Places \ Knowing
  BY DEF Places, Knowing, Completing
<1>3. \/ Unchanged(p) /\ Save(p, w, Copy("beginning", w), "chunk")
      \/ Step(p, "idle")
  BY DEF BeginChunk
<1>4. CASE Unchanged(p) /\ Save(p, w, Copy("beginning", w), "chunk")
  <2>1. RecordOK(b) /\ b.completion = "none" /\ b.expect = rec[Job(p)].expect
    BY <1>1, <1>4, WriteBackOK
  <2> HIDE DEF b
  <2>2. w.completion = "none" /\ w.status = "uploading" /\ w.expect = rec[Job(p)].expect
    BY <2>1 DEF RecordOK, AnyRecord
  <2> HIDE DEF w
  <2> QED BY <1>1, <1>2, <1>4, <2>2, UnchangedIsEarly, EarlySaga DEF Late
<1>5. CASE Step(p, "idle")
  BY <1>1, <1>2, <1>5, PlainStepSaga DEF Step, stored
<1> QED BY <1>3, <1>4, <1>5

LEMMA EndChunkSaga ==
  ASSUME UploadTypes, Saga, NEW p \in Process, EndChunk(p) PROVE Saga'
<1>1. pc[p] \in {"chunked", "short"} /\ UNCHANGED stored
  BY DEF EndChunk, UpdateIf
<1>2. "idle" \in Places \ Knowing
  BY DEF Places, Knowing, Completing
<1>3. \/ Unchanged(p) /\ Save(p, WriteBack(p), NoCopy, "idle")
      \/ Step(p, "idle")
  BY DEF EndChunk, UpdateIf
<1> QED BY <1>1, <1>2, <1>3, WriteBackSaga, PlainStepSaga DEF Step, stored

LEMMA RequestCompletionSaga ==
  ASSUME UploadTypes, Saga, NEW p \in Process, RequestCompletion(p) PROVE Saga'
<1> DEFINE r == rec[Job(p)]
           w == [r EXCEPT !.completion = "pending"]
<1>1. pc[p] = "asking" /\ RecordOK(r) /\ UNCHANGED stored
  BY Working DEF RequestCompletion, At, UpdateIf
<1>2. {"idle", "claiming"} \subseteq Places \ Knowing
  BY DEF Places, Knowing, Completing
<1>3. \/ (r.status = "uploaded" /\ r.completion = "none") /\ Save(p, w, NoCopy, "claiming")
      \/ \E no \in {"idle", "claiming"} : Step(p, no)
  BY DEF RequestCompletion, UpdateIf
<1>4. CASE (r.status = "uploaded" /\ r.completion = "none") /\ Save(p, w, NoCopy, "claiming")
  <2>1. w.completion = "pending" /\ w.status = "uploaded" /\ w.expect = r.expect
    <3> HIDE DEF r
    <3> QED BY <1>1, <1>4 DEF RecordOK, AnyRecord
  <2> HIDE DEF w
  <2> QED BY <1>1, <1>2, <1>4, <2>1, EarlySaga DEF Late
<1>5. CASE \E no \in {"idle", "claiming"} : Step(p, no)
  BY <1>1, <1>2, <1>5, PlainStepSaga DEF Step, stored
<1> QED BY <1>3, <1>4, <1>5

(* Places other than those of the completion may be taken, objects added.      *)
LEMMA FrameSaga ==
  ASSUME UploadTypes, Saga, UNCHANGED <<rec, at, trash, shown>>, obj \subseteq obj',
         \A q \in Process : (pc'[q] = pc[q] /\ task'[q] = task[q]) \/ pc'[q] \notin Knowing
  PROVE  Saga'
<1>1. PathTrue'
  BY DEF Saga, PathTrue
<1>2. ASSUME NEW v \in Id PROVE RecordTrue(v, rec[v])'
  BY DEF Saga, RecordTrue
<1>3. ASSUME NEW q \in Process, pc'[q] # "idle"
      PROVE  PlaceTrue(q, pc[q], Job(q), rec[Job(q)])'
  <2>1. CASE pc'[q] = pc[q] /\ task'[q] = task[q]
    BY <1>3, <2>1 DEF Saga, PlaceTrue, Job
  <2>2. CASE pc'[q] \notin Knowing
    BY <2>2 DEF PlaceTrue, Knowing, Completing, Losing
  <2> QED BY <2>1, <2>2
<1> QED BY <1>1, <1>2, <1>3 DEF Saga

LEMMA ChunkSaga ==
  ASSUME UploadTypes, Saga, NEW p \in Process, StoreChunk(p) \/ RollbackChunk(p) PROVE Saga'
<1>1. UNCHANGED <<rec, obj, at, trash, shown, task>>
  BY DEF StoreChunk, RollbackChunk
<1>2. \E place \in {"short", "chunked", "oversize"} : pc' = [pc EXCEPT ![p] = place]
  BY DEF StoreChunk, RollbackChunk
<1>3. {"short", "chunked", "oversize"} \cap Knowing = {}
  BY DEF Knowing, Completing
<1> QED BY <1>1, <1>2, <1>3, FrameSaga DEF UploadTypes

LEMMA LookSaga ==
  ASSUME UploadTypes, Saga, NEW p \in Process, NEW t \in Serves[p], Look(p, t) PROVE Saga'
<1>1. PICK place \in Reading : /\ pc' = [pc EXCEPT ![p] = place]
                               /\ task' = [task EXCEPT ![p] = t]
                               /\ UNCHANGED <<rec, stored>>
  BY LookMeans
<1>2. place \notin Knowing
  BY DEF Reading, Knowing, Completing
<1> QED BY <1>1, <1>2, FrameSaga DEF UploadTypes, stored

LEMMA ClaimCompletionSaga ==
  ASSUME UploadTypes, Saga, NEW p \in Process, NEW u, u = Job(p), NEW r, r = rec[u],
         ClaimCompletion(p)
  PROVE  Saga'
<1> DEFINE w == [r EXCEPT !.status = "finalizing", !.owner = p, !.live = TRUE]
           place == Checkpoint(r.completion)
<1>1. pc[p] = "claiming" /\ RecordOK(r) /\ RecordTrue(u, r) /\ UNCHANGED stored
  BY Here DEF ClaimCompletion, At, UpdateIf
<1>2. \/ CompletionDue(r) /\ Save(p, w, NoCopy, place)
      \/ Step(p, "idle")
  BY DEF ClaimCompletion, UpdateIf
<1>3. CASE CompletionDue(r) /\ Save(p, w, NoCopy, place)
  <2>1. /\ w.status = "finalizing" /\ w.owner = p /\ w.live
        /\ w.completion = r.completion /\ w.expect = r.expect
    BY <1>1 DEF RecordOK, AnyRecord
  <2>2. /\ (r.status = "uploaded" /\ r.completion = "pending") \/ r.status = "finalizing"
        /\ r.completion \in {"pending", "object_ready", "published"} /\ ~r.live
    BY <1>1, <1>3 DEF CompletionDue, RecordOK
  <2>3. RecordTrue(u, w)
    BY <1>1, <2>1, <2>2 DEF RecordTrue
  <2>4. \/ r.completion = "pending" /\ place = "finalizing"
        \/ r.completion = "object_ready" /\ place = "publishing"
        \/ r.completion = "published" /\ place = "published"
    BY <2>2 DEF Checkpoint
  <2> HIDE DEF place, w
  <2>5. PlaceTrue(p, place, u, w) /\ place \in Places
    BY <2>1, <2>4 DEF PlaceTrue, Completing, Losing, Places
  <2>6. \A q \in Process : q # p /\ pc[q] \in Completing => Job(q) # u
    BY <2>2, Alone
  <2> QED BY <1>1, <1>3, <2>1, <2>2, <2>3, <2>5, <2>6, SaveSaga
<1>4. CASE Step(p, "idle")
  BY <1>1, <1>4, PlainStepSaga DEF Step, stored, Places, Knowing, Completing
<1> QED BY <1>2, <1>3, <1>4

LEMMA FinalizeSaga ==
  ASSUME UploadTypes, Saga, NEW p \in Process, NEW u, u = Job(p), NEW r, r = rec[u], Finalize(p)
  PROVE  Saga'
<1>1. pc[p] = "finalizing" /\ RecordTrue(u, r) /\ PlaceTrue(p, "finalizing", u, r)
  BY Here DEF Finalize, At
<1>2. PICK place \in {"finalized", "retrying"} :
        /\ Step(p, place) /\ (place = "finalized" => u \in obj')
        /\ UNCHANGED <<at, trash, shown>> /\ obj \subseteq obj'
  BY DEF Finalize
<1>3. u \notin shown /\ place \in Places
  BY <1>1 DEF PlaceTrue, RecordTrue, Places
<1>4. PlaceTrue(p, place, u, r)'
  BY <1>1, <1>2, <1>3 DEF PlaceTrue, Completing, Losing
<1> QED BY <1>1, <1>2, <1>3, <1>4, StepSaga DEF Step

LEMMA MarkObjectReadySaga ==
  ASSUME UploadTypes, Saga, NEW p \in Process, NEW u, u = Job(p), NEW r, r = rec[u],
         MarkObjectReady(p)
  PROVE  Saga'
<1> DEFINE w == [r EXCEPT !.completion = "object_ready"]
<1>1. /\ pc[p] = "finalized" /\ RecordOK(r) /\ RecordTrue(u, r) /\ PlaceTrue(p, "finalized", u, r)
      /\ UNCHANGED stored
  BY Here DEF MarkObjectReady, At, UpdateIf
<1>2. Save(p, w, NoCopy, "publishing") \/ Step(p, "idle")
  BY DEF MarkObjectReady, UpdateIf
<1>3. CASE Save(p, w, NoCopy, "publishing")
  <2>1. /\ w.status = r.status /\ w.owner = r.owner /\ w.live = r.live
        /\ w.completion = "object_ready" /\ w.expect = r.expect
    BY <1>1 DEF RecordOK, AnyRecord
  <2> HIDE DEF w
  <2>2. RecordTrue(u, w) /\ PlaceTrue(p, "publishing", u, w)
    BY <1>1, <2>1 DEF RecordTrue, PlaceTrue, Completing, Losing
  <2>3. \A q \in Process : q # p /\ pc[q] \in Completing => Job(q) # u
    BY <1>1, Alone DEF PlaceTrue, Completing
  <2> QED BY <1>1, <1>3, <2>1, <2>2, <2>3, SaveSaga DEF Places
<1>4. CASE Step(p, "idle")
  BY <1>1, <1>4, PlainStepSaga DEF Step, stored, Places, Knowing, Completing
<1> QED BY <1>2, <1>3, <1>4

LEMMA PublishSaga ==
  ASSUME UploadTypes, Saga, Calm, NEW p \in Process, NEW u, u = Job(p), NEW r, r = rec[u],
         Publish(p)
  PROVE  Saga'
<1>1. /\ pc[p] = "publishing" /\ u \in Id /\ RecordOK(r) /\ RecordTrue(u, r) /\ PathTrue
      /\ PlaceTrue(p, "publishing", u, r)
  BY Here DEF Publish, At
<1>2. \/ at # r.expect /\ UNCHANGED stored /\ Step(p, "mismatch")
      \/ /\ at = r.expect /\ at' = u /\ shown' = shown \cup {u} /\ UNCHANGED <<obj, trash>>
         /\ Step(p, "visible")
  BY DEF Publish, stored, Calm
<1>3. CASE at # r.expect /\ UNCHANGED stored /\ Step(p, "mismatch")
  <2>1. PlaceTrue(p, "mismatch", u, r)'
    BY <1>1, <1>3 DEF PlaceTrue, Completing, Losing, stored
  <2> QED BY <1>1, <1>3, <2>1, StepSaga DEF Step, stored, Places
<1>4. CASE /\ at = r.expect /\ at' = u /\ shown' = shown \cup {u} /\ UNCHANGED <<obj, trash>>
           /\ Step(p, "visible")
  <2>1. u \notin shown /\ u \in obj /\ r.status = "finalizing" /\ u \notin {None, Old}
    BY <1>1, <1>4, UploadAssumption DEF RecordTrue, PlaceTrue, Completing, Losing
  <2>2. /\ pc'[p] = "visible" /\ task'[p] = task[p] /\ rec' = rec
        /\ \A q \in Process : q # p => pc'[q] = pc[q] /\ task'[q] = task[q]
    BY <1>1, <1>4, MoveTypes DEF Step, Keep, Places
  <2>3. PathTrue'
    BY <1>1, <1>4, <2>1 DEF PathTrue
  <2>4. ASSUME NEW v \in Id PROVE RecordTrue(v, rec[v])'
    <3>1. RecordTrue(v, rec[v]) /\ RecordOK(rec[v])
      BY DEF Saga, UploadTypes
    <3>2. CASE v = u
      BY <1>1, <1>4, <2>1, <2>2, <3>1, <3>2 DEF RecordTrue, PlaceTrue, Completing, Losing
    <3>3. CASE v # u
      BY <1>4, <2>1, <2>2, <3>1, <3>3 DEF RecordTrue
    <3> QED BY <3>2, <3>3
  <2>5. ASSUME NEW q \in Process, pc'[q] # "idle"
        PROVE  PlaceTrue(q, pc[q], Job(q), rec[Job(q)])'
    <3>1. CASE q = p
      BY <1>1, <1>4, <2>2, <3>1 DEF PlaceTrue, Job, Completing, Losing
    <3>2. CASE q # p
      <4>1. /\ pc'[q] = pc[q] /\ Job(q)' = Job(q) /\ Job(q) \in Id
            /\ PlaceTrue(q, pc[q], Job(q), rec[Job(q)]) /\ RecordTrue(Job(q), rec[Job(q)])
        BY <2>2, <2>5, <3>2, Working DEF Saga, Job
      <4>2. pc[q] \in Completing => Job(q) # u
        BY <1>1, <3>2, Alone DEF PlaceTrue, Completing
      <4>3. rec[Job(q)].expect # u
        BY <2>1, <4>1 DEF RecordTrue
      <4> QED BY <1>4, <2>2, <4>1, <4>2, <4>3 DEF PlaceTrue, Completing, Losing
    <3> QED BY <3>1, <3>2
  <2> QED BY <2>3, <2>4, <2>5 DEF Saga
<1> QED BY <1>2, <1>3, <1>4

LEMMA RecheckSaga ==
  ASSUME UploadTypes, Saga, NEW p \in Process, NEW u, u = Job(p), NEW r, r = rec[u], Recheck(p)
  PROVE  Saga'
<1>1. /\ pc[p] = "mismatch" /\ u \in Id /\ PlaceTrue(p, "mismatch", u, r) /\ PathTrue
      /\ UNCHANGED stored
  BY Here DEF Recheck, At
<1>2. PICK place \in {"visible", "contested"} :
        Step(p, place) /\ place = IF at = u THEN "visible" ELSE "contested"
  BY DEF Recheck
<1>3. at = u => u \in shown
  BY <1>1, UploadAssumption DEF PathTrue
<1>4. PlaceTrue(p, place, u, r)' /\ place \in Places
  BY <1>1, <1>2, <1>3 DEF PlaceTrue, Completing, Losing, stored, Places
<1> QED BY <1>1, <1>2, <1>4, StepSaga DEF Step, stored

LEMMA CheckReferencesSaga ==
  ASSUME UploadTypes, Saga, NEW p \in Process, NEW u, u = Job(p), NEW r, r = rec[u],
         CheckReferences(p)
  PROVE  Saga'
<1>1. pc[p] = "contested" /\ PlaceTrue(p, "contested", u, r) /\ UNCHANGED stored
  BY Here DEF CheckReferences, At
<1>2. PICK place \in {"refusing", "discarding"} :
        Step(p, place) /\ (place = "discarding" => u \notin trash)
  BY DEF CheckReferences, Referenced
<1>3. PlaceTrue(p, place, u, r)' /\ place \in Places
  BY <1>1, <1>2 DEF PlaceTrue, Completing, Losing, stored, Places
<1> QED BY <1>1, <1>2, <1>3, StepSaga DEF Step, stored

LEMMA DiscardSaga ==
  ASSUME UploadTypes, Saga, Calm, NEW p \in Process, NEW u, u = Job(p), NEW r, r = rec[u],
         Discard(p)
  PROVE  Saga'
<1>1. pc[p] = "discarding" /\ u \in Id /\ PlaceTrue(p, "discarding", u, r)
  BY Here DEF Discard, At
<1>2. Step(p, "refusing") /\ obj' = obj \ {u} /\ UNCHANGED <<at, trash, shown>>
  BY DEF Discard, Calm
<1>3. PlaceTrue(p, "refusing", u, r)'
  BY <1>1, <1>2 DEF PlaceTrue, Completing, Losing
<1>4. u # at /\ u \notin trash /\ at # r.expect
  BY <1>1 DEF PlaceTrue, Losing
<1>5. \A q \in Process : q # p /\ pc[q] = "finalized" => Job(q) # u
  BY <1>1, Alone DEF PlaceTrue, Completing
<1> QED BY <1>1, <1>2, <1>3, <1>4, <1>5, RemoveSaga DEF Step, Places

LEMMA MarkConflictSaga ==
  ASSUME UploadTypes, Saga, NEW p \in Process, NEW u, u = Job(p), NEW r, r = rec[u], MarkConflict(p)
  PROVE  Saga'
<1> DEFINE w == [Released(r) EXCEPT !.status = "conflict", !.completion = "conflict"]
<1>1. /\ pc[p] = "refusing" /\ RecordOK(r) /\ RecordTrue(u, r) /\ PlaceTrue(p, "refusing", u, r)
      /\ UNCHANGED stored
  BY Here DEF MarkConflict, At, UpdateIf
<1>2. Save(p, w, NoCopy, "idle") \/ Step(p, "idle")
  BY DEF MarkConflict, UpdateIf
<1>3. CASE Save(p, w, NoCopy, "idle")
  <2>1. w.status = "conflict" /\ w.completion = "conflict" /\ w.expect = r.expect
    BY <1>1 DEF RecordOK, AnyRecord, Released
  <2> HIDE DEF w
  <2>2. RecordTrue(u, w)
    BY <1>1, <2>1 DEF RecordTrue, PlaceTrue, Completing, Losing
  <2>3. r.status = "finalizing" /\ \A q \in Process : q # p /\ pc[q] \in Completing => Job(q) # u
    BY <1>1, Alone DEF PlaceTrue, Completing
  <2> QED BY <1>1, <1>3, <2>1, <2>2, <2>3, SaveSaga DEF Places
<1>4. CASE Step(p, "idle")
  BY <1>1, <1>4, PlainStepSaga DEF Step, stored, Places, Knowing, Completing
<1> QED BY <1>2, <1>3, <1>4

LEMMA MarkPublishedSaga ==
  ASSUME UploadTypes, Saga, NEW p \in Process, NEW u, u = Job(p), NEW r, r = rec[u],
         MarkPublished(p)
  PROVE  Saga'
<1> DEFINE w == [r EXCEPT !.completion = "published", !.cleanup = "pending"]
<1>1. /\ pc[p] = "visible" /\ RecordOK(r) /\ RecordTrue(u, r) /\ PlaceTrue(p, "visible", u, r)
      /\ UNCHANGED stored
  BY Here DEF MarkPublished, At, UpdateIf
<1>2. Save(p, w, NoCopy, "published") \/ Step(p, "idle")
  BY DEF MarkPublished, UpdateIf
<1>3. CASE Save(p, w, NoCopy, "published")
  <2>1. /\ w.status = r.status /\ w.owner = r.owner /\ w.live = r.live
        /\ w.completion = "published" /\ w.expect = r.expect
    BY <1>1 DEF RecordOK, AnyRecord, Released
  <2> HIDE DEF w
  <2>2. RecordTrue(u, w) /\ ("published" # "idle" => PlaceTrue(p, "published", u, w))
    BY <1>1, <2>1 DEF RecordTrue, PlaceTrue, Completing, Losing
  <2>3. r.status = "finalizing" /\ \A q \in Process : q # p /\ pc[q] \in Completing => Job(q) # u
    BY <1>1, Alone DEF PlaceTrue, Completing
  <2> QED BY <1>1, <1>3, <2>1, <2>2, <2>3, SaveSaga DEF Places
<1>4. CASE Step(p, "idle")
  BY <1>1, <1>4, PlainStepSaga DEF Step, stored, Places, Knowing, Completing
<1> QED BY <1>2, <1>3, <1>4

LEMMA MarkCompleteSaga ==
  ASSUME UploadTypes, Saga, NEW p \in Process, NEW u, u = Job(p), NEW r, r = rec[u], MarkComplete(p)
  PROVE  Saga'
<1> DEFINE w == [Released(r) EXCEPT !.status = "complete", !.completion = "complete"]
<1>1. /\ pc[p] = "published" /\ RecordOK(r) /\ RecordTrue(u, r) /\ PlaceTrue(p, "published", u, r)
      /\ UNCHANGED stored
  BY Here DEF MarkComplete, At, UpdateIf
<1>2. Save(p, w, NoCopy, "cleaning") \/ Step(p, "idle")
  BY DEF MarkComplete, UpdateIf
<1>3. CASE Save(p, w, NoCopy, "cleaning")
  <2>1. w.status = "complete" /\ w.completion = "complete" /\ w.expect = r.expect
    BY <1>1 DEF RecordOK, AnyRecord, Released
  <2> HIDE DEF w
  <2>2. RecordTrue(u, w) /\ ("cleaning" # "idle" => PlaceTrue(p, "cleaning", u, w))
    BY <1>1, <2>1 DEF RecordTrue, PlaceTrue, Completing, Losing
  <2>3. r.status = "finalizing" /\ \A q \in Process : q # p /\ pc[q] \in Completing => Job(q) # u
    BY <1>1, Alone DEF PlaceTrue, Completing
  <2> QED BY <1>1, <1>3, <2>1, <2>2, <2>3, SaveSaga DEF Places
<1>4. CASE Step(p, "idle")
  BY <1>1, <1>4, PlainStepSaga DEF Step, stored, Places, Knowing, Completing
<1> QED BY <1>2, <1>3, <1>4

LEMMA RetrySaga ==
  ASSUME UploadTypes, Saga, NEW p \in Process, NEW u, u = Job(p), NEW r, r = rec[u], Retry(p)
  PROVE  Saga'
<1> DEFINE w == [Released(r) EXCEPT !.status = "uploaded", !.completion = "pending"]
<1>1. /\ pc[p] = "retrying" /\ RecordOK(r) /\ RecordTrue(u, r) /\ PlaceTrue(p, "retrying", u, r)
      /\ UNCHANGED stored
  BY Here DEF Retry, At, UpdateIf
<1>2. Save(p, w, NoCopy, "idle") \/ Step(p, "idle")
  BY DEF Retry, UpdateIf
<1>3. CASE Save(p, w, NoCopy, "idle")
  <2>1. w.status = "uploaded" /\ w.completion = "pending" /\ w.expect = r.expect
    BY <1>1 DEF RecordOK, AnyRecord, Released
  <2> HIDE DEF w
  <2>2. RecordTrue(u, w)
    BY <1>1, <2>1 DEF RecordTrue, PlaceTrue, Completing, Losing
  <2>3. r.status = "finalizing" /\ \A q \in Process : q # p /\ pc[q] \in Completing => Job(q) # u
    BY <1>1, Alone DEF PlaceTrue, Completing
  <2> QED BY <1>1, <1>3, <2>1, <2>2, <2>3, SaveSaga DEF Places
<1>4. CASE Step(p, "idle")
  BY <1>1, <1>4, PlainStepSaga DEF Step, stored, Places, Knowing, Completing
<1> QED BY <1>2, <1>3, <1>4

LEMMA InspectCleanupSaga ==
  ASSUME UploadTypes, Saga, NEW p \in Process, NEW u, u = Job(p), NEW r, r = rec[u],
         InspectCleanup(p)
  PROVE  Saga'
<1>1. pc[p] = "cleaning" /\ RecordTrue(u, r) /\ UNCHANGED stored
  BY Here DEF InspectCleanup, At
<1>2. \/ Step(p, "idle") \/ Step(p, "cleaned")
      \/ Step(p, "unlinking") /\ at = u /\ r.expect # None /\ r.expect \notin trash
  BY DEF InspectCleanup, Referenced
<1>3. CASE Step(p, "idle") \/ Step(p, "cleaned")
  BY <1>1, <1>3, PlainStepSaga DEF Step, stored, Places, Knowing, Completing
<1>4. CASE Step(p, "unlinking") /\ at = u /\ r.expect # None /\ r.expect \notin trash
  <2>1. PlaceTrue(p, "unlinking", u, r)'
    BY <1>1, <1>4 DEF RecordTrue, PlaceTrue, Completing, Losing, stored
  <2> QED BY <1>1, <1>4, <2>1, StepSaga DEF Step, stored, Places
<1> QED BY <1>2, <1>3, <1>4

LEMMA UnlinkSaga ==
  ASSUME UploadTypes, Saga, NEW p \in Process, NEW u, u = Job(p), NEW r, r = rec[u], Unlink(p)
  PROVE  Saga'
<1>1. pc[p] = "unlinking" /\ RecordTrue(u, r) /\ PlaceTrue(p, "unlinking", u, r)
  BY Here DEF Unlink, At
<1>2. PICK o : o = r.expect
  OBVIOUS
<1>3. Step(p, "cleaned") /\ obj' = obj \ {o} /\ UNCHANGED <<at, trash, shown>>
  BY <1>2 DEF Unlink
<1>4. o # at /\ o \notin trash /\ o \in shown \cup {Old}
  BY <1>1, <1>2 DEF PlaceTrue, RecordTrue
<1>5. ASSUME o \in Id, rec[o].completion = "object_ready" PROVE at # rec[o].expect
  <2>1. RecordTrue(o, rec[o]) /\ RecordOK(rec[o]) /\ o \in shown
    BY <1>4, <1>5, UploadAssumption DEF Saga, UploadTypes
  <2> QED BY <1>5, <2>1 DEF RecordTrue, RecordOK, AnyRecord
<1>6. ASSUME NEW q \in Process, q # p, pc[q] = "finalized" PROVE Job(q) # o
  <2>1. /\ Job(q) \in Id /\ RecordTrue(Job(q), rec[Job(q)])
        /\ PlaceTrue(q, "finalized", Job(q), rec[Job(q)])
    BY <1>6, Here
  <2> QED BY <1>4, <2>1, UploadAssumption DEF RecordTrue, PlaceTrue
<1>7. PlaceTrue(p, "cleaned", u, r)'
  BY PlainPlace DEF Knowing, Completing
<1> QED BY <1>1, <1>3, <1>4, <1>5, <1>6, <1>7, RemoveSaga DEF Step, Places

LEMMA MarkCleanedSaga ==
  ASSUME UploadTypes, Saga, NEW p \in Process, NEW u, u = Job(p), NEW r, r = rec[u],
         MarkCleaned(p)
  PROVE  Saga'
<1> DEFINE w == [r EXCEPT !.cleanup = "complete"]
<1>1. pc[p] = "cleaned" /\ RecordOK(r) /\ RecordTrue(u, r) /\ UNCHANGED stored
  BY Here DEF MarkCleaned, At, UpdateIf
<1>2. \/ r.status = "complete" /\ Save(p, w, NoCopy, "idle")
      \/ Step(p, "idle")
  BY DEF MarkCleaned, UpdateIf, CleanupDue
<1>3. CASE r.status = "complete" /\ Save(p, w, NoCopy, "idle")
  <2>1. w.status = r.status /\ w.completion = r.completion /\ w.expect = r.expect
    BY <1>1 DEF RecordOK, AnyRecord
  <2> HIDE DEF w
  <2>2. RecordTrue(u, w)
    BY <1>1, <2>1 DEF RecordTrue
  <2>3. \A q \in Process : q # p /\ pc[q] \in Completing => Job(q) # u
    BY <1>3, Alone
  <2> QED BY <1>1, <1>3, <2>1, <2>2, <2>3, SaveSaga DEF Places
<1>4. CASE Step(p, "idle")
  BY <1>1, <1>4, PlainStepSaga DEF Step, stored, Places, Knowing, Completing
<1> QED BY <1>2, <1>3, <1>4

LEMMA RequestCancelSaga ==
  ASSUME UploadTypes, Saga, NEW p \in Process, NEW u, u = Job(p), NEW r, r = rec[u],
         RequestCancel(p)
  PROVE  Saga'
<1> DEFINE w == [r EXCEPT !.status = "cancelling", !.completion = "cancel_requested"]
<1>1. pc[p] = "cancelling" /\ RecordOK(r) /\ RecordTrue(u, r) /\ UNCHANGED stored
  BY Here DEF RequestCancel, At, UpdateIf
<1>2. \/ MayCancel(r) /\ Save(p, w, NoCopy, "withdrawing")
      \/ r.status = "cancelling" /\ Step(p, "withdrawing")
      \/ Step(p, "idle")
  BY DEF RequestCancel, UpdateIf
<1>3. CASE MayCancel(r) /\ Save(p, w, NoCopy, "withdrawing")
  <2>1. w.status = "cancelling" /\ w.completion = "cancel_requested" /\ w.expect = r.expect
    BY <1>1 DEF RecordOK, AnyRecord
  <2> HIDE DEF w
  <2>2. RecordTrue(u, w) /\ PlaceTrue(p, "withdrawing", u, w)
    BY <1>1, <1>3, <2>1 DEF MayCancel, RecordTrue, PlaceTrue, Completing, Losing
  <2>3. \A q \in Process : q # p /\ pc[q] \in Completing => Job(q) # u
    BY <1>3, Alone DEF MayCancel
  <2> QED BY <1>1, <1>3, <2>1, <2>2, <2>3, SaveSaga DEF Places
<1>4. CASE r.status = "cancelling" /\ Step(p, "withdrawing")
  <2>1. PlaceTrue(p, "withdrawing", u, r)'
    BY <1>4 DEF PlaceTrue, Completing, Losing
  <2> QED BY <1>1, <1>4, <2>1, StepSaga DEF Step, stored, Places
<1>5. CASE Step(p, "idle")
  BY <1>1, <1>5, PlainStepSaga DEF Step, stored, Places, Knowing, Completing
<1> QED BY <1>2, <1>3, <1>4, <1>5

LEMMA WithdrawSaga ==
  ASSUME UploadTypes, Saga, NEW p \in Process, NEW u, u = Job(p), NEW r, r = rec[u], Withdraw(p)
  PROVE  Saga'
<1>1. /\ pc[p] = "withdrawing" /\ PlaceTrue(p, "withdrawing", u, r)
      /\ UNCHANGED <<obj, at, trash, shown>>
  BY Here DEF Withdraw, At
<1>2. PICK place \in {"erasing", "withdrawn"} : Step(p, place)
  BY DEF Withdraw
<1>3. PlaceTrue(p, place, u, r)' /\ place \in Places
  BY <1>1 DEF PlaceTrue, Completing, Losing, Places
<1> QED BY <1>1, <1>2, <1>3, StepSaga DEF Step

LEMMA EraseUploadSaga ==
  ASSUME UploadTypes, Saga, NEW p \in Process, NEW u, u = Job(p), NEW r, r = rec[u],
         EraseUpload(p)
  PROVE  Saga'
<1>1. /\ pc[p] = "erasing" /\ PlaceTrue(p, "erasing", u, r) /\ u \in Id
      /\ RecordOK(r) /\ RecordTrue(u, r) /\ PathTrue
  BY Here DEF EraseUpload, At
<1>2. Step(p, "withdrawn") /\ obj' = obj \ {u} /\ UNCHANGED <<at, trash, shown>>
  BY DEF EraseUpload
<1>3. r.status \in {"cancelling", "cancelled"}
  BY <1>1 DEF PlaceTrue
<1>4. r.completion \in {"cancel_requested", "cancelled"}
  BY <1>1, <1>3 DEF RecordOK
<1>5. u # at /\ u \notin trash
  BY <1>1, <1>4, UploadAssumption DEF RecordTrue, PathTrue
<1>6. \A q \in Process : q # p /\ pc[q] = "finalized" => Job(q) # u
  BY <1>3, Alone DEF Completing
<1>7. PlaceTrue(p, "withdrawn", u, r)'
  BY <1>3 DEF PlaceTrue, Completing, Losing
<1> QED BY <1>1, <1>2, <1>4, <1>5, <1>6, <1>7, RemoveSaga DEF Step, Places

LEMMA MarkCancelledSaga ==
  ASSUME UploadTypes, Saga, NEW p \in Process, NEW u, u = Job(p), NEW r, r = rec[u],
         MarkCancelled(p)
  PROVE  Saga'
<1> DEFINE w == [r EXCEPT !.status = "cancelled", !.completion = "cancelled"]
<1>1. pc[p] = "withdrawn" /\ RecordOK(r) /\ RecordTrue(u, r) /\ UNCHANGED stored
  BY Here DEF MarkCancelled, At, UpdateIf
<1>2. \/ r.status = "cancelling" /\ Save(p, w, NoCopy, "idle")
      \/ Step(p, "idle")
  BY DEF MarkCancelled, UpdateIf
<1>3. CASE r.status = "cancelling" /\ Save(p, w, NoCopy, "idle")
  <2>1. /\ w.status = "cancelled" /\ w.completion = "cancelled" /\ w.expect = r.expect
        /\ r.completion = "cancel_requested"
    BY <1>1, <1>3 DEF RecordOK, AnyRecord
  <2> HIDE DEF w
  <2>2. RecordTrue(u, w)
    BY <1>1, <2>1 DEF RecordTrue
  <2>3. \A q \in Process : q # p /\ pc[q] \in Completing => Job(q) # u
    BY <1>3, Alone
  <2> QED BY <1>1, <1>3, <2>1, <2>2, <2>3, SaveSaga DEF Places
<1>4. CASE Step(p, "idle")
  BY <1>1, <1>4, PlainStepSaga DEF Step, stored, Places, Knowing, Completing
<1> QED BY <1>2, <1>3, <1>4

-----------------------------------------------------------------------------
LEMMA CreateSaga == ASSUME UploadTypes, Saga, NEW u \in Id, Create(u) PROVE Saga'
<1> DEFINE w == [Blank EXCEPT !.status = "pending", !.expect = at]
<1>1. /\ w.status = "pending" /\ w.completion = "none" /\ w.expect = at
  BY BlankOK DEF RecordOK, AnyRecord
<1>2. /\ rec' = [rec EXCEPT ![u] = w] /\ rec \in [Id -> AnyRecord] /\ rec[u].status = "none"
      /\ UNCHANGED <<obj, at, trash, shown, task, pc>>
  BY DEF Create, UploadTypes
<1> HIDE DEF w
<1>3. rec'[u] = w /\ \A v \in Id : v # u => rec'[v] = rec[v]
  BY <1>2
<1>4. PathTrue'
  BY <1>2 DEF Saga, PathTrue
<1>5. u \notin shown
  <2>1. RecordOK(rec[u]) /\ RecordTrue(u, rec[u])
    BY DEF UploadTypes, Saga
  <2> QED BY <1>2, <2>1 DEF RecordOK, RecordTrue
<1>6. ASSUME NEW v \in Id PROVE RecordTrue(v, rec[v])'
  <2>1. CASE v = u
    BY <1>1, <1>2, <1>3, <1>5, <2>1, UploadAssumption DEF Saga, PathTrue, RecordTrue
  <2>2. CASE v # u
    BY <1>2, <1>3, <2>2 DEF Saga, RecordTrue
  <2> QED BY <2>1, <2>2
<1>7. ASSUME NEW q \in Process, pc'[q] # "idle"
      PROVE  PlaceTrue(q, pc[q], Job(q), rec[Job(q)])'
  <2>1. /\ pc'[q] = pc[q] /\ Job(q)' = Job(q) /\ Job(q) \in Id /\ Job(q) # u
        /\ PlaceTrue(q, pc[q], Job(q), rec[Job(q)])
    BY <1>2, <1>7, Working DEF Saga, Job
  <2> QED BY <1>2, <1>3, <2>1 DEF PlaceTrue
<1> QED BY <1>4, <1>6, <1>7 DEF Saga

LEMMA DirectWriteSaga == ASSUME UploadTypes, Saga, NEW u \in Id, DirectWrite(u) PROVE Saga'
BY FrameSaga DEF DirectWrite, Quiet

LEMMA AgeSaga == ASSUME UploadTypes, Saga, NEW u \in Id, Age(u) PROVE Saga'
BY FrameSaga DEF Age

(* A record changes in its lease or its owner, and no process relied on that.  *)
LEMMA LeaseSaga ==
  ASSUME UploadTypes, Saga, NEW u \in Id, NEW r, r = rec[u], NEW w, rec' = [rec EXCEPT ![u] = w],
         w.status = r.status, w.completion = r.completion, w.expect = r.expect,
         UNCHANGED stored,
         \A q \in Process : \/ pc'[q] = "idle"
                            \/ /\ pc'[q] = pc[q] /\ task'[q] = task[q]
                               /\ pc[q] \in Completing => Job(q) # u
  PROVE  Saga'
<1>1. rec'[u] = w /\ \A v \in Id : v # u => rec'[v] = rec[v]
  BY DEF UploadTypes
<1>2. at' = at /\ trash' = trash /\ shown' = shown /\ obj' = obj
  BY DEF stored
<1>3. PathTrue'
  BY <1>2 DEF Saga, PathTrue
<1>4. ASSUME NEW v \in Id PROVE RecordTrue(v, rec[v])'
  BY <1>1, <1>2 DEF Saga, RecordTrue
<1>5. ASSUME NEW q \in Process, pc'[q] # "idle"
      PROVE  PlaceTrue(q, pc[q], Job(q), rec[Job(q)])'
  <2>1. /\ pc'[q] = pc[q] /\ Job(q)' = Job(q) /\ Job(q) \in Id
        /\ PlaceTrue(q, pc[q], Job(q), rec[Job(q)]) /\ (pc[q] \in Completing => Job(q) # u)
    BY <1>5, Working DEF Saga, Job
  <2>2. CASE Job(q) # u
    BY <1>1, <1>2, <2>1, <2>2 DEF PlaceTrue
  <2>3. CASE Job(q) = u
    BY <1>1, <1>2, <2>1, <2>3 DEF PlaceTrue, Completing, Losing
  <2> QED BY <2>2, <2>3
<1> QED BY <1>3, <1>4, <1>5 DEF Saga

LEMMA LeaseExpiresSaga ==
  ASSUME UploadTypes, Saga, Calm, NEW u \in Id, LeaseExpires(u) PROVE Saga'
<1>1. PICK r, w : r = rec[u] /\ w = [r EXCEPT !.live = FALSE]
  OBVIOUS
<1>2. r \in AnyRecord /\ r.owner = Gone
  BY <1>1 DEF LeaseExpires, Calm, UploadTypes
<1>3. w.status = r.status /\ w.completion = r.completion /\ w.expect = r.expect
  BY <1>1, <1>2 DEF AnyRecord
<1>4. rec' = [rec EXCEPT ![u] = w] /\ UNCHANGED stored /\ UNCHANGED <<pc, task>>
  BY <1>1 DEF LeaseExpires, UploadTypes
<1>5. ASSUME NEW q \in Process, pc[q] \in Completing PROVE Job(q) # u
  BY <1>1, <1>2, <1>5, UploadAssumption DEF Saga, PlaceTrue, Completing
<1> QED BY <1>1, <1>3, <1>4, <1>5, LeaseSaga

LEMMA CrashSaga == ASSUME UploadTypes, Saga, NEW p \in Process, Crash(p) PROVE Saga'
<1>1. PICK u, r : u = Job(p) /\ r = rec[u]
  OBVIOUS
<1>2. u \in Id /\ RecordOK(r) /\ pc[p] # "idle"
  BY <1>1, Here DEF Crash
<1>3. PICK w : w = [r EXCEPT !.owner = IF r.owner = p THEN Gone ELSE r.owner]
  OBVIOUS
<1>4. w.status = r.status /\ w.completion = r.completion /\ w.expect = r.expect
  BY <1>2, <1>3 DEF RecordOK, AnyRecord
<1>5. /\ rec' = [rec EXCEPT ![u] = w] /\ pc' = [pc EXCEPT ![p] = "idle"]
      /\ task' = [task EXCEPT ![p] = NoTask] /\ UNCHANGED stored
  BY <1>1, <1>3 DEF Crash
<1>6. /\ pc'[p] = "idle"
      /\ \A q \in Process : q # p => pc'[q] = pc[q] /\ task'[q] = task[q]
  BY <1>5 DEF UploadTypes
<1>7. CASE r.owner = p
  <2>1. \A q \in Process : q # p /\ pc[q] \in Completing => Job(q) # u
    BY <1>1, <1>7, Alone
  <2>2. \A q \in Process : \/ pc'[q] = "idle"
                            \/ /\ pc'[q] = pc[q] /\ task'[q] = task[q]
                               /\ pc[q] \in Completing => Job(q) # u
    BY <1>6, <2>1
  <2>3. rec' = [rec EXCEPT ![u] = w] /\ UNCHANGED stored
    BY <1>5
  <2> QED BY <1>1, <1>2, <1>4, <2>2, <2>3, LeaseSaga
<1>8. CASE r.owner # p
  <2>1. w = r
    BY <1>2, <1>3, <1>8 DEF RecordOK, AnyRecord
  <2>2. rec' = rec
    BY <1>1, <1>2, <1>5, <2>1 DEF UploadTypes
  <2> QED BY <1>5, <1>6, <2>2, FrameSaga DEF Knowing, Completing, stored
<1> QED BY <1>7, <1>8

LEMMA ErrorSaga == ASSUME UploadTypes, Saga, Calm, NEW p \in Process, Error(p) PROVE Saga'
<1>1. PICK u, r : u = Job(p) /\ r = rec[u]
  OBVIOUS
<1>2. /\ pc[p] \in Completing /\ u \notin shown
      /\ pc' = [pc EXCEPT ![p] = "retrying"] /\ UNCHANGED <<rec, stored, task>>
  BY <1>1 DEF Error, Calm, Completing
<1>3. PlaceTrue(p, pc[p], u, r) /\ pc[p] # "idle"
  BY <1>1, <1>2, Here DEF Completing
<1>4. /\ pc'[p] = "retrying" /\ \A q \in Process : q # p => pc'[q] = pc[q]
  BY <1>2 DEF UploadTypes
<1>5. PathTrue' /\ \A v \in Id : RecordTrue(v, rec[v])'
  BY <1>2 DEF Saga, PathTrue, RecordTrue, stored
<1>6. ASSUME NEW q \in Process, pc'[q] # "idle"
      PROVE  PlaceTrue(q, pc[q], Job(q), rec[Job(q)])'
  <2>1. CASE q = p
    BY <1>1, <1>2, <1>3, <1>4, <2>1 DEF PlaceTrue, Completing, Losing, Job, stored
  <2>2. CASE q # p
    BY <1>2, <1>4, <1>6, <2>2 DEF Saga, PlaceTrue, Job, stored
  <2> QED BY <2>1, <2>2
<1> QED BY <1>5, <1>6 DEF Saga

LEMMA VacateSaga == ASSUME UploadTypes, Saga, Calm, Vacate PROVE Saga'
<1>1. /\ at # None /\ at' = None /\ trash' = trash \cup {at}
      /\ UNCHANGED <<obj, shown, rec, task, pc>>
      /\ \A u \in Id : rec[u].status = "finalizing" => rec[u].expect # None
  BY DEF Vacate, Calm, Quiet
<1>2. PathTrue'
  BY <1>1 DEF Saga, PathTrue
<1>3. ASSUME NEW v \in Id PROVE RecordTrue(v, rec[v])'
  <2>1. RecordTrue(v, rec[v]) /\ RecordOK(rec[v]) /\ v # None
    BY UploadAssumption DEF Saga, UploadTypes
  <2>2. rec[v].completion = "object_ready" => rec[v].status = "finalizing"
    BY <2>1 DEF RecordOK, AnyRecord
  <2> QED BY <1>1, <2>1, <2>2 DEF RecordTrue
<1>4. ASSUME NEW q \in Process, pc'[q] # "idle"
      PROVE  PlaceTrue(q, pc[q], Job(q), rec[Job(q)])'
  <2>1. /\ Job(q) \in Id /\ PlaceTrue(q, pc[q], Job(q), rec[Job(q)]) /\ Job(q)' = Job(q)
    BY <1>1, <1>4, Working DEF Saga, Job
  <2> QED BY <1>1, <2>1, UploadAssumption DEF PlaceTrue, Completing, Losing
<1> QED BY <1>2, <1>3, <1>4 DEF Saga

LEMMA NextSaga == Calm /\ UploadTypes /\ Saga /\ [Next]_vars => Saga'
<1> SUFFICES ASSUME Calm, UploadTypes, Saga, [Next]_vars PROVE Saga'
  OBVIOUS
<1>1. CASE UNCHANGED vars
  BY <1>1, FrameSaga DEF vars, stored
<1>2. ASSUME NEW p \in Process, Continue(p) PROVE Saga'
  <2>1. PICK u, r : u = Job(p) /\ r = rec[u]
    OBVIOUS
  <2>2. CASE Reconcile(p) \/ Expire(p) \/ BeginChunk(p) \/ StoreChunk(p) \/ RollbackChunk(p)
             \/ EndChunk(p) \/ RequestCompletion(p)
    BY <2>2, ReconcileSaga, ExpireSaga, BeginChunkSaga, ChunkSaga, EndChunkSaga,
       RequestCompletionSaga
  <2>3. CASE ClaimCompletion(p) \/ Finalize(p) \/ MarkObjectReady(p)
             \/ Publish(p) \/ Recheck(p) \/ CheckReferences(p) \/ Discard(p)
    BY <2>1, <2>3, ClaimCompletionSaga, FinalizeSaga, MarkObjectReadySaga,
       PublishSaga, RecheckSaga, CheckReferencesSaga, DiscardSaga
  <2>4. CASE MarkConflict(p) \/ MarkPublished(p) \/ MarkComplete(p) \/ Retry(p)
             \/ InspectCleanup(p) \/ Unlink(p) \/ MarkCleaned(p)
    BY <2>1, <2>4, MarkConflictSaga, MarkPublishedSaga, MarkCompleteSaga, RetrySaga,
       InspectCleanupSaga, UnlinkSaga, MarkCleanedSaga
  <2>5. CASE RequestCancel(p) \/ Withdraw(p) \/ EraseUpload(p) \/ MarkCancelled(p)
    BY <2>1, <2>5, RequestCancelSaga, WithdrawSaga, EraseUploadSaga, MarkCancelledSaga
  <2> QED BY <1>2, <2>2, <2>3, <2>4, <2>5 DEF Continue
<1>3. ASSUME NEW p \in Process, NEW t \in Serves[p], Look(p, t) PROVE Saga'
  BY <1>3, LookSaga
<1>4. ASSUME NEW p \in Process, Crash(p) \/ Error(p) PROVE Saga'
  BY <1>4, CrashSaga, ErrorSaga
<1>5. ASSUME NEW u \in Id, Create(u) \/ DirectWrite(u) \/ Age(u) \/ LeaseExpires(u)
      PROVE  Saga'
  BY <1>5, CreateSaga, DirectWriteSaga, AgeSaga, LeaseExpiresSaga
<1>6. CASE Vacate
  BY <1>6, VacateSaga
<1> QED BY <1>1, <1>2, <1>3, <1>4, <1>5, <1>6 DEF Next

LEMMA SagaAlways == ASSUME Calm PROVE Spec => []SagaInv
<1>1. Init => SagaInv
  BY TypesInit, SagaInit DEF SagaInv
<1>2. SagaInv /\ [Next]_vars => SagaInv'
  BY NextTypes, NextSaga DEF SagaInv
<1> QED BY <1>1, <1>2, PTL DEF Spec

(* No discarded generation, cancelled upload or cleanup takes the object of a  *)
(* file that the path or the trash shows.                                      *)
THEOREM StoredAlways == ASSUME Calm PROVE Spec => []VisibleStored
<1>1. SagaInv => VisibleStored
  BY DEF SagaInv, Saga, PathTrue, VisibleStored
<1> QED BY <1>1, SagaAlways, PTL

(* An upload being cancelled is not published, then or ever.                   *)
THEOREM HiddenAlways == ASSUME Calm PROVE Spec => []CancelledHidden
<1>1. SagaInv => CancelledHidden
  <2> SUFFICES ASSUME SagaInv, NEW u \in Id, rec[u].status \in {"cancelling", "cancelled"}
               PROVE  ~Visible(u)
    BY DEF CancelledHidden
  <2>1. RecordOK(rec[u]) /\ RecordTrue(u, rec[u]) /\ PathTrue
    BY DEF SagaInv, UploadTypes, Saga
  <2>2. u \notin shown
    BY <2>1 DEF RecordOK, RecordTrue
  <2> QED BY <2>1, <2>2, UploadAssumption DEF PathTrue, Visible
<1> QED BY <1>1, SagaAlways, PTL

(* An upload that is reported complete has been visible, and one reported      *)
(* refused is not what the path shows.                                         *)
THEOREM OutcomeAlways == ASSUME Calm PROVE Spec => []OutcomeTrue
<1>1. SagaInv => OutcomeTrue
  <2> SUFFICES ASSUME SagaInv, NEW u \in Id
               PROVE  /\ rec[u].status = "complete" => u \in shown
                      /\ rec[u].status = "conflict" => at # u
    BY DEF OutcomeTrue
  <2>1. RecordOK(rec[u]) /\ RecordTrue(u, rec[u])
    BY DEF SagaInv, UploadTypes, Saga
  <2> QED BY <2>1 DEF RecordOK, RecordTrue
<1> QED BY <1>1, SagaAlways, PTL

LEMMA PathSteps ==
  ASSUME UploadTypes, [Next]_vars
  PROVE  at' = at \/ at' = None \/ \E p \in Process : Publish(p) /\ at' # at
<1>1. CASE UNCHANGED vars
  BY <1>1 DEF vars, stored
<1>2. ASSUME NEW p \in Process, Continue(p) PROVE at' = at \/ Publish(p)
  <2>1. CASE Publish(p)
    BY <2>1
  <2>2. CASE UNCHANGED stored
    BY <2>2 DEF stored
  <2>3. CASE StoreChunk(p) \/ RollbackChunk(p) \/ Finalize(p) \/ Discard(p)
             \/ Unlink(p) \/ Withdraw(p) \/ EraseUpload(p)
    BY <2>3 DEF StoreChunk, RollbackChunk, Finalize, Discard, Unlink, Withdraw, EraseUpload
  <2>4. CASE Reconcile(p) \/ Expire(p) \/ BeginChunk(p) \/ EndChunk(p) \/ RequestCompletion(p)
             \/ ClaimCompletion(p) \/ MarkObjectReady(p) \/ Recheck(p) \/ CheckReferences(p)
    BY <2>2, <2>4 DEF Reconcile, Expire, BeginChunk, EndChunk, RequestCompletion,
       ClaimCompletion, MarkObjectReady, Recheck, CheckReferences, UpdateIf
  <2>5. CASE MarkConflict(p) \/ MarkPublished(p) \/ MarkComplete(p) \/ Retry(p)
             \/ InspectCleanup(p) \/ MarkCleaned(p) \/ RequestCancel(p) \/ MarkCancelled(p)
    BY <2>2, <2>5 DEF MarkConflict, MarkPublished, MarkComplete, Retry, InspectCleanup,
       MarkCleaned, RequestCancel, MarkCancelled, UpdateIf
  <2> QED BY <1>2, <2>1, <2>3, <2>4, <2>5 DEF Continue
<1>3. ASSUME NEW p \in Process, NEW t \in Serves[p], Look(p, t) PROVE at' = at
  BY <1>3 DEF Look, stored
<1>4. ASSUME NEW p \in Process, Crash(p) \/ Error(p) PROVE at' = at
  BY <1>4 DEF Crash, Error, stored
<1>5. ASSUME NEW u \in Id, Create(u) \/ DirectWrite(u) \/ Age(u) \/ LeaseExpires(u)
      PROVE  at' = at
  BY <1>5 DEF Create, DirectWrite, Age, LeaseExpires, stored
<1>6. CASE Vacate
  BY <1>6 DEF Vacate
<1> QED BY <1>1, <1>2, <1>3, <1>4, <1>5, <1>6 DEF Next

(* However often its completion is run again, by whomever, an upload is        *)
(* published once.                                                             *)
THEOREM PublishedOnceAlways == ASSUME Calm PROVE Spec => PublishedOnce
<1>1. SagaInv /\ [Next]_vars => \A u \in Id : at' = u /\ at # u => u \notin shown
  <2> SUFFICES ASSUME SagaInv, [Next]_vars, NEW u \in Id, at' = u, at # u PROVE u \notin shown
    OBVIOUS
  <2>1. PICK p \in Process : Publish(p) /\ at' # at
    BY PathSteps, UploadAssumption DEF SagaInv
  <2>2. pc[p] = "publishing" /\ at = rec[Job(p)].expect /\ at' = Job(p)
    BY <2>1 DEF Publish, At
  <2>3. RecordTrue(u, rec[u]) /\ PlaceTrue(p, "publishing", u, rec[u])
    BY <2>2, Here DEF SagaInv
  <2> QED BY <2>2, <2>3 DEF RecordTrue, PlaceTrue, Completing
<1> QED BY <1>1, SagaAlways, PTL DEF PublishedOnce, Spec

-----------------------------------------------------------------------------
(* What a lost, cancelled or expired upload leaves behind.                     *)

(* An upload through the server becomes an object in its completion only, and  *)
(* one past the server has all its bytes, or no session, once they were seen.  *)
LeftRec(u, r) ==
  /\ driver = "gcs" /\ r.uploaded = Size => off[u] \notin 0..Size - 1
  /\ driver = "local" /\ (r.completion = "none" \/ r.uploaded # Size) => u \notin obj
  /\ driver = "local" /\ r.status = "cancelled" => u \notin obj
  /\ r.status = "conflict" => r.uploaded = Size /\ (u \in obj => u \in trash)
LeftAt(place, u, size) ==
  /\ place = "oversize" => driver = "local"
  /\ driver = "gcs" /\ place \in Bare /\ size = Size => off[u] \notin 0..Size - 1
  /\ place = "refusing" /\ u \in obj => u \in trash
  /\ driver = "local" /\ place = "withdrawn" => u \notin obj
Left == /\ \A u \in Id : LeftRec(u, rec[u])
        /\ \A p \in Process : LeftAt(pc[p], Job(p), sess[p].uploaded)

Telling == {"reconciling", "oversize", "chunked", "short", "refusing", "withdrawn"}

LEMMA LeftInit == Init => Left
<1> SUFFICES ASSUME Init PROVE Left
  OBVIOUS
<1>1. /\ \A u \in Id : rec[u] = Blank /\ u \notin obj
      /\ \A p \in Process : pc[p] = "idle"
  BY UploadAssumption DEF Init
<1>2. Blank.uploaded = 0 /\ Blank.status = "none" /\ Size # 0
  BY UploadAssumption DEF Blank
<1> QED BY <1>1, <1>2 DEF Left, LeftRec, LeftAt, Bare

(* What the process q knows does not rest on the absence of an object.         *)
Untold(q) == pc[q] # "refusing" /\ (driver = "local" => pc[q] # "withdrawn")

(* A step forgets nothing: bytes that are complete stay so, and what it says   *)
(* anew of a record or of a process is true.                                   *)
LEMMA LeftStep ==
  ASSUME UploadTypes, UploadTypes', Left, driver' = driver, trash \subseteq trash',
         \A v \in Id : driver = "gcs" /\ off[v] \notin 0..Size - 1 => off'[v] \notin 0..Size - 1,
         \A v \in Id : v \in obj' \ obj =>
           /\ LeftRec(v, rec[v])'
           /\ \A q \in Process : Job(q)' = v => Untold(q)',
         \A v \in Id : \/ /\ rec'[v].uploaded = rec[v].uploaded
                          /\ rec'[v].completion = "none" => rec[v].completion = "none"
                          /\ rec'[v].status \in {"cancelled", "conflict"} => rec'[v].status = rec[v].status
                       \/ LeftRec(v, rec[v])',
         \A q \in Process : \/ pc'[q] = pc[q] /\ task'[q] = task[q] /\ sess'[q].uploaded = sess[q].uploaded
                            \/ pc'[q] \notin Telling
                            \/ LeftAt(pc[q], Job(q), sess[q].uploaded)'
  PROVE  Left'
<1>1. ASSUME NEW v \in Id PROVE LeftRec(v, rec[v])'
  <2>1. LeftRec(v, rec[v])
    BY DEF Left
  <2>2. CASE v \in obj' \ obj
    BY <2>2
  <2>3. CASE v \notin obj' \ obj
    BY <2>1, <2>3 DEF LeftRec
  <2> QED BY <2>2, <2>3
<1>2. ASSUME NEW q \in Process PROVE LeftAt(pc[q], Job(q), sess[q].uploaded)'
  <2>1. LeftAt(pc[q], Job(q), sess[q].uploaded)
    BY DEF Left
  <2>2. CASE pc'[q] \notin Telling
    <3>1. pc'[q] \in Bare => sess'[q].uploaded < Size /\ sess'[q].uploaded \in Nat /\ Size \in Nat
      BY <2>2, UploadAssumption DEF UploadTypes, RequestOK, CopyOK, AnyCopy, Bare, Telling
    <3>2. pc'[q] \in Bare => sess'[q].uploaded # Size
      BY <3>1
    <3> QED BY <2>2, <3>2 DEF LeftAt, Telling
  <2>3. CASE pc'[q] \in Telling /\ pc'[q] = pc[q] /\ task'[q] = task[q]
             /\ sess'[q].uploaded = sess[q].uploaded
    <3>1. Job(q) \in Id /\ Job(q)' = Job(q)
      BY <2>3, Working DEF Telling, Job
    <3>2. pc[q] = "refusing" \/ (pc[q] = "withdrawn" /\ driver = "local") => Job(q) \notin obj' \ obj
      BY <2>3, <3>1 DEF Job, Untold
    <3> QED BY <2>1, <2>3, <3>1, <3>2 DEF LeftAt, Bare
  <2> QED BY <2>2, <2>3
<1> QED BY <1>1, <1>2 DEF Left

(* A process goes on, and may store a record.                                  *)
LEMMA OthersKeep ==
  ASSUME UploadTypes, NEW p \in Process, pc[p] # "idle", NEW place \in Places, NEW copy, NEW r,
         Save(p, r, copy, place) \/ Keep(p, copy, place)
  PROVE  /\ pc'[p] = place /\ driver' = driver /\ sess'[p] = copy
         /\ place # "idle" => task'[p] = task[p]
         /\ \A q \in Process : q # p => /\ pc'[q] = pc[q] /\ task'[q] = task[q]
                                        /\ sess'[q].uploaded = sess[q].uploaded
<1>1. Move(p, place)
  BY DEF Save, Keep
<1>2. /\ pc'[p] = place /\ (place # "idle" => task'[p] = task[p]) /\ driver' = driver
      /\ \A q \in Process : q # p => pc'[q] = pc[q] /\ task'[q] = task[q]
  BY <1>1, MoveTypes DEF Move, Same
<1>3. ASSUME NEW q \in Process, q # p PROVE sess'[q].uploaded = sess[q].uploaded
  <2>1. sess[q] \in AnyCopy /\ sess \in [Process -> AnyCopy]
    BY DEF UploadTypes
  <2>2. sess'[q] = sess[q] \/ sess'[q] = [sess[q] EXCEPT !.current = FALSE]
    BY <1>3, <2>1 DEF Save, Keep
  <2> QED BY <2>1, <2>2 DEF AnyCopy
<1>4. sess'[p] = copy
  BY DEF Save, Keep, UploadTypes
<1> QED BY <1>2, <1>3, <1>4

LEMMA KeepLeft ==
  ASSUME UploadTypes, UploadTypes', Left, NEW p \in Process, pc[p] # "idle",
         NEW place \in Places, NEW copy, Keep(p, copy, place), trash' = trash,
         \A v \in Id : driver = "gcs" /\ off[v] \notin 0..Size - 1 => off'[v] \notin 0..Size - 1,
         \A v \in Id : v \in obj' \ obj =>
           /\ LeftRec(v, rec[v])'
           /\ \A q \in Process : Job(q)' = v => Untold(q)',
         place \in Telling => LeftAt(place, Job(p), copy.uploaded)'
  PROVE  Left'
<1>1. /\ pc'[p] = place /\ driver' = driver /\ sess'[p] = copy /\ rec' = rec
      /\ place # "idle" => task'[p] = task[p]
      /\ \A q \in Process : q # p => /\ pc'[q] = pc[q] /\ task'[q] = task[q]
                                     /\ sess'[q].uploaded = sess[q].uploaded
  <2>1. ASSUME NEW r
        PROVE  /\ pc'[p] = place /\ driver' = driver /\ sess'[p] = copy
               /\ place # "idle" => task'[p] = task[p]
               /\ \A q \in Process : q # p => /\ pc'[q] = pc[q] /\ task'[q] = task[q]
                                              /\ sess'[q].uploaded = sess[q].uploaded
    BY OthersKeep
  <2>2. rec' = rec
    BY DEF Keep
  <2> QED BY <2>1, <2>2
<1>2. pc'[p] \notin Telling \/ LeftAt(pc[p], Job(p), sess[p].uploaded)'
  BY <1>1 DEF Job, LeftAt
<1> QED BY <1>1, <1>2, LeftStep

LEMMA SaveLeft ==
  ASSUME UploadTypes, UploadTypes', Left, NEW p \in Process, pc[p] # "idle",
         NEW place \in Places \ Telling, NEW copy, NEW w, NEW r, r = rec[Job(p)],
         Save(p, w, copy, place), UNCHANGED stored,
         \/ /\ w.uploaded = r.uploaded /\ (w.completion = "none" => r.completion = "none")
            /\ w.status \in {"cancelled", "conflict"} => w.status = r.status
         \/ LeftRec(Job(p), w)
  PROVE  Left'
<1>1. /\ pc'[p] = place /\ driver' = driver
      /\ \A q \in Process : q # p => /\ pc'[q] = pc[q] /\ task'[q] = task[q]
                                     /\ sess'[q].uploaded = sess[q].uploaded
  BY OthersKeep
<1>2. PICK u \in Id : u = Job(p)
  BY Working
<1>3. rec'[u] = w /\ \A v \in Id : v # u => rec'[v] = rec[v]
  BY <1>2 DEF UploadTypes, Save
<1>4. UNCHANGED <<off, obj, trash>>
  BY DEF stored
<1>5. LeftRec(u, w) => LeftRec(u, rec[u])'
  BY <1>1, <1>3, <1>4 DEF LeftRec
<1> QED BY <1>1, <1>2, <1>3, <1>4, <1>5, LeftStep

LEMMA UpdateLeft ==
  ASSUME UploadTypes, UploadTypes', Left, NEW p \in Process, pc[p] # "idle", UNCHANGED stored,
         NEW r, r = rec[Job(p)], NEW w, NEW yes \in Places \ Telling, NEW no \in Places \ Telling,
         \/ Step(p, no)
         \/ /\ Save(p, w, NoCopy, yes)
            /\ \/ /\ w.uploaded = r.uploaded /\ (w.completion = "none" => r.completion = "none")
                  /\ w.status \in {"cancelled", "conflict"} => w.status = r.status
               \/ LeftRec(Job(p), w)
  PROVE  Left'
<1>1. CASE Step(p, no)
  BY <1>1, KeepLeft DEF Step, stored
<1>2. CASE ~Step(p, no)
  BY <1>2, SaveLeft
<1> QED BY <1>1, <1>2

(* A record that only goes on to another place of its completion.              *)
LEMMA CompletionLeft ==
  ASSUME UploadTypes, UploadTypes', Left, NEW p \in Process,
         \/ RequestCompletion(p) \/ ClaimCompletion(p) \/ MarkObjectReady(p) \/ MarkPublished(p)
         \/ MarkComplete(p) \/ Retry(p) \/ MarkCleaned(p) \/ RequestCancel(p)
  PROVE  Left'
<1>1. PICK r : r = rec[Job(p)]
  OBVIOUS
<1>2. pc[p] # "idle"
  BY DEF RequestCompletion, ClaimCompletion, MarkObjectReady, MarkPublished, MarkComplete, Retry,
         MarkCleaned, RequestCancel, At
<1>3. r \in AnyRecord /\ RecordOK(r)
  BY <1>1, <1>2, Working DEF RecordOK
<1>4. PICK w \in AnyRecord, yes \in Places \ Telling, no \in Places \ Telling :
        /\ Step(p, no) \/ Save(p, w, NoCopy, yes)
        /\ w.uploaded = r.uploaded /\ (w.completion = "none" => r.completion = "none")
        /\ w.status \in {"cancelled", "conflict"} => w.status = r.status
        /\ UNCHANGED stored
  <2> DEFINE Goes(w) == /\ w \in AnyRecord /\ w.uploaded = r.uploaded
                        /\ w.completion = "none" => r.completion = "none"
                        /\ w.status \in {"cancelled", "conflict"} => w.status = r.status
  <2>1. CASE RequestCompletion(p)
    <3> DEFINE w == [r EXCEPT !.completion = "pending"]
    <3>1. Goes(w)
      BY <1>3 DEF AnyRecord, Stages
    <3>2. \/ Save(p, w, NoCopy, "claiming")
          \/ \E no \in {"idle", "claiming"} : Step(p, no)
      BY <1>1, <2>1 DEF RequestCompletion, UpdateIf
    <3> HIDE DEF w
    <3> QED BY <2>1, <3>1, <3>2 DEF RequestCompletion, UpdateIf, Places, Telling
  <2>2. CASE ClaimCompletion(p)
    <3> DEFINE w == [r EXCEPT !.status = "finalizing", !.owner = p, !.live = TRUE]
    <3>1. Goes(w)
      BY <1>3 DEF AnyRecord, Stages
    <3>2. Save(p, w, NoCopy, Checkpoint(r.completion)) \/ Step(p, "idle")
      BY <1>1, <2>2 DEF ClaimCompletion, UpdateIf
    <3>3. Checkpoint(r.completion) \in Places \ Telling
      BY DEF Checkpoint, Places, Telling
    <3> HIDE DEF w
    <3> QED BY <2>2, <3>1, <3>2, <3>3 DEF ClaimCompletion, UpdateIf, Places, Telling
  <2>3. CASE MarkObjectReady(p)
    <3> DEFINE w == [r EXCEPT !.completion = "object_ready"]
    <3>1. Goes(w)
      BY <1>3 DEF AnyRecord, Stages
    <3>2. Save(p, w, NoCopy, "publishing") \/ Step(p, "idle")
      BY <1>1, <2>3 DEF MarkObjectReady, UpdateIf
    <3> HIDE DEF w
    <3> QED BY <2>3, <3>1, <3>2 DEF MarkObjectReady, UpdateIf, Places, Telling
  <2>4. CASE MarkPublished(p)
    <3> DEFINE w == [r EXCEPT !.completion = "published", !.cleanup = "pending"]
    <3>1. Goes(w)
      BY <1>3 DEF AnyRecord, Stages
    <3>2. Save(p, w, NoCopy, "published") \/ Step(p, "idle")
      BY <1>1, <2>4 DEF MarkPublished, UpdateIf
    <3> HIDE DEF w
    <3> QED BY <2>4, <3>1, <3>2 DEF MarkPublished, UpdateIf, Places, Telling
  <2>5. CASE MarkComplete(p)
    <3> DEFINE w == [Released(r) EXCEPT !.status = "complete", !.completion = "complete"]
    <3>1. Goes(w)
      BY <1>3 DEF AnyRecord, Stages, Released
    <3>2. Save(p, w, NoCopy, "cleaning") \/ Step(p, "idle")
      BY <1>1, <2>5 DEF MarkComplete, UpdateIf
    <3> HIDE DEF w
    <3> QED BY <2>5, <3>1, <3>2 DEF MarkComplete, UpdateIf, Places, Telling
  <2>6. CASE Retry(p)
    <3> DEFINE w == [Released(r) EXCEPT !.status = "uploaded", !.completion = "pending"]
    <3>1. Goes(w)
      BY <1>3 DEF AnyRecord, Stages, Released
    <3>2. Save(p, w, NoCopy, "idle") \/ Step(p, "idle")
      BY <1>1, <2>6 DEF Retry, UpdateIf
    <3> HIDE DEF w
    <3> QED BY <2>6, <3>1, <3>2 DEF Retry, UpdateIf, Places, Telling
  <2>7. CASE MarkCleaned(p)
    <3> DEFINE w == [r EXCEPT !.cleanup = "complete"]
    <3>1. Goes(w)
      BY <1>3 DEF AnyRecord, Stages
    <3>2. Save(p, w, NoCopy, "idle") \/ Step(p, "idle")
      BY <1>1, <2>7 DEF MarkCleaned, UpdateIf
    <3> HIDE DEF w
    <3> QED BY <2>7, <3>1, <3>2 DEF MarkCleaned, UpdateIf, Places, Telling
  <2>8. CASE RequestCancel(p)
    <3> DEFINE w == [r EXCEPT !.status = "cancelling", !.completion = "cancel_requested"]
    <3>1. Goes(w)
      BY <1>3 DEF AnyRecord, Stages
    <3>2. \/ Save(p, w, NoCopy, "withdrawing")
          \/ \E no \in {"idle", "withdrawing"} : Step(p, no)
      BY <1>1, <2>8 DEF RequestCancel, UpdateIf
    <3> HIDE DEF w
    <3> QED BY <2>8, <3>1, <3>2 DEF RequestCancel, UpdateIf, Places, Telling
  <2> QED BY <2>1, <2>2, <2>3, <2>4, <2>5, <2>6, <2>7, <2>8
<1> QED BY <1>1, <1>2, <1>4, UpdateLeft

LEMMA MarkConflictLeft ==
  ASSUME UploadTypes, UploadTypes', Left, NEW p \in Process, MarkConflict(p) PROVE Left'
<1> DEFINE u == Job(p)
           r == rec[u]
           w == [Released(r) EXCEPT !.status = "conflict", !.completion = "conflict"]
<1>1. /\ pc[p] = "refusing" /\ UNCHANGED stored
      /\ (r.status = "finalizing" /\ Save(p, w, NoCopy, "idle")) \/ Step(p, "idle")
  BY DEF MarkConflict, At, UpdateIf, OwnedAt
<1>2. /\ u \in Id /\ r \in AnyRecord /\ LeftRec(u, r) /\ LeftAt("refusing", u, sess[p].uploaded)
      /\ r.status = "finalizing" => r.uploaded = Size
  BY <1>1, Working DEF Left, RecordOK
<1>3. w.uploaded = r.uploaded /\ w.status = "conflict" /\ w.completion = "conflict"
  BY <1>2 DEF AnyRecord, Released
<1> HIDE DEF w
<1>4. r.status = "finalizing" => LeftRec(u, w)
  BY <1>2, <1>3 DEF LeftRec, LeftAt
<1> QED BY <1>1, <1>4, UpdateLeft DEF Places, Telling

LEMMA MarkCancelledLeft ==
  ASSUME UploadTypes, UploadTypes', Left, NEW p \in Process, MarkCancelled(p) PROVE Left'
<1> DEFINE u == Job(p)
           r == rec[u]
           w == [r EXCEPT !.status = "cancelled", !.completion = "cancelled"]
<1>1. /\ pc[p] = "withdrawn" /\ UNCHANGED stored
      /\ Save(p, w, NoCopy, "idle") \/ Step(p, "idle")
  BY DEF MarkCancelled, At, UpdateIf
<1>2. u \in Id /\ r \in AnyRecord /\ LeftRec(u, r) /\ LeftAt("withdrawn", u, sess[p].uploaded)
  BY <1>1, Working DEF Left, RecordOK
<1>3. w.uploaded = r.uploaded /\ w.status = "cancelled" /\ w.completion = "cancelled"
  BY <1>2 DEF AnyRecord
<1> HIDE DEF w
<1>4. LeftRec(u, w)
  BY <1>2, <1>3 DEF LeftRec, LeftAt
<1> QED BY <1>1, <1>4, UpdateLeft DEF Places, Telling

(* What is written back to a session is what it had, or was seen of its bytes. *)
LEMMA WrittenBackLeft ==
  ASSUME UploadTypes, Left, NEW p \in Process, Unchanged(p),
         pc[p] \in {"reconciling", "beginning", "chunked", "short"},
         NEW w, w.uploaded = sess[p].uploaded, w.status \notin {"cancelled", "conflict"}
  PROVE  LeftRec(Job(p), w)
<1>1. LeftAt(pc[p], Job(p), sess[p].uploaded) /\ Job(p) \in Id
  BY Working DEF Left
<1>2. LeftRec(Job(p), rec[Job(p)]) /\ rec[Job(p)].completion = "none"
  BY <1>1 DEF Left, Unchanged
<1> QED BY <1>1, <1>2 DEF LeftRec, LeftAt, Bare

LEMMA ReconcileLeft ==
  ASSUME UploadTypes, UploadTypes', Left, NEW p \in Process, Reconcile(p) PROVE Left'
<1> DEFINE w == WriteBack(p)
           next == IF CanExpire(w) /\ Job(p) \in old THEN "expiring" ELSE First(task[p][1], w)
           again == First(task[p][1], rec[Job(p)])
<1>1. pc[p] = "reconciling" /\ RecordOK(rec[Job(p)]) /\ UNCHANGED stored
  BY Working DEF Reconcile, At
<1>2. \/ Unchanged(p) /\ Save(p, w, Copy(next, w), next)
      \/ Keep(p, Copy(again, rec[Job(p)]), again)
  BY DEF Reconcile
<1>3. CASE Unchanged(p) /\ Save(p, w, Copy(next, w), next)
  <2>1. /\ RecordOK(w) /\ w.status = sess[p].status /\ w.uploaded = sess[p].uploaded
        /\ sess[p].status \notin {"cancelled", "conflict"}
    BY <1>1, <1>3, WriteBackOK, Working DEF CopyOK
  <2>2. next \in Places \ Telling
    BY <2>1, FirstPlace DEF Places, Telling
  <2>3. LeftRec(Job(p), w)
    BY <1>1, <1>3, <2>1, WrittenBackLeft
  <2> HIDE DEF next, w
  <2> QED BY <1>1, <1>3, <2>2, <2>3, SaveLeft
<1>4. CASE Keep(p, Copy(again, rec[Job(p)]), again)
  <2>1. again \in Places \ Telling
    BY <1>1, FirstPlace DEF Places, Telling
  <2> HIDE DEF again
  <2> QED BY <1>1, <1>4, <2>1, KeepLeft DEF stored
<1> QED BY <1>2, <1>3, <1>4

LEMMA ExpireLeft ==
  ASSUME UploadTypes, UploadTypes', Left, NEW p \in Process, Expire(p) PROVE Left'
<1> DEFINE r == rec[Job(p)]
           w == [r EXCEPT !.status = "expired"]
           yes == First(task[p][1], w)
           no == First(task[p][1], r)
<1>1. pc[p] = "expiring" /\ RecordOK(r) /\ UNCHANGED stored
  BY Working DEF Expire, At
<1>2. \/ /\ r.completion = "none" /\ r.status \in {"pending", "uploading", "uploaded"}
         /\ Save(p, w, NoCopy, yes)
      \/ Keep(p, Copy(no, r), no)
  BY DEF Expire
<1>3. CASE /\ r.completion = "none" /\ r.status \in {"pending", "uploading", "uploaded"}
           /\ Save(p, w, NoCopy, yes)
  <2>1. RecordOK(w) /\ w.status = "expired" /\ w.uploaded = r.uploaded
    <3> HIDE DEF r
    <3> QED BY <1>1, <1>3 DEF RecordOK, AnyRecord
  <2>2. yes \in Places \ Telling
    <3> HIDE DEF w
    <3> QED BY <2>1, FirstPlace DEF Places, Telling
  <2> HIDE DEF w, yes
  <2> QED BY <1>1, <1>3, <2>1, <2>2, SaveLeft
<1>4. CASE Keep(p, Copy(no, r), no)
  <2>1. no \in Places \ Telling
    BY <1>1, FirstPlace DEF Places, Telling
  <2> HIDE DEF no
  <2> QED BY <1>1, <1>4, <2>1, KeepLeft DEF stored
<1> QED BY <1>2, <1>3, <1>4

LEMMA BeginChunkLeft ==
  ASSUME UploadTypes, UploadTypes', Left, NEW p \in Process, BeginChunk(p) PROVE Left'
<1> DEFINE b == WriteBack(p)
           w == [b EXCEPT !.status = "uploading"]
<1>1. pc[p] = "beginning" /\ UNCHANGED stored
  BY DEF BeginChunk, At
<1>2. {"idle", "chunk"} \subseteq Places \ Telling
  BY DEF Places, Telling
<1>3. \/ Unchanged(p) /\ Save(p, w, Copy("beginning", w), "chunk")
      \/ Step(p, "idle")
  BY DEF BeginChunk
<1>4. CASE Unchanged(p) /\ Save(p, w, Copy("beginning", w), "chunk")
  <2>1. RecordOK(b) /\ b.uploaded = sess[p].uploaded
    BY <1>1, <1>4, WriteBackOK
  <2> HIDE DEF b
  <2>2. w.status = "uploading" /\ w.uploaded = sess[p].uploaded
    BY <2>1 DEF RecordOK, AnyRecord
  <2> HIDE DEF w
  <2>3. LeftRec(Job(p), w)
    BY <1>1, <1>4, <2>2, WrittenBackLeft
  <2> QED BY <1>1, <1>2, <1>4, <2>3, SaveLeft
<1>5. CASE Step(p, "idle")
  BY <1>1, <1>2, <1>5, KeepLeft DEF Step, stored
<1> QED BY <1>3, <1>4, <1>5

LEMMA EndChunkLeft ==
  ASSUME UploadTypes, UploadTypes', Left, NEW p \in Process, EndChunk(p) PROVE Left'
<1>1. pc[p] \in {"chunked", "short"} /\ UNCHANGED stored
  BY DEF EndChunk, UpdateIf
<1>2. "idle" \in Places \ Telling
  BY DEF Places, Telling
<1>3. \/ Unchanged(p) /\ Save(p, WriteBack(p), NoCopy, "idle")
      \/ Step(p, "idle")
  BY DEF EndChunk, UpdateIf
<1>4. CASE Unchanged(p) /\ Save(p, WriteBack(p), NoCopy, "idle")
  <2>1. /\ WriteBack(p).status \notin {"cancelled", "conflict"}
        /\ WriteBack(p).uploaded = sess[p].uploaded
    BY <1>1, <1>4, WriteBackOK, Working DEF CopyOK
  <2>2. LeftRec(Job(p), WriteBack(p))
    BY <1>1, <1>4, <2>1, WrittenBackLeft
  <2> QED BY <1>1, <1>2, <1>4, <2>2, SaveLeft
<1>5. CASE Step(p, "idle")
  BY <1>1, <1>2, <1>5, KeepLeft DEF Step, stored
<1> QED BY <1>3, <1>4, <1>5

(* Chunks are stored by the local driver only.                                 *)
LEMMA ChunkLeft ==
  ASSUME UploadTypes, UploadTypes', Left, NEW p \in Process, StoreChunk(p) \/ RollbackChunk(p)
  PROVE  Left'
<1>1. /\ UNCHANGED <<rec, obj, trash, task, driver>> /\ pc[p] \in {"chunk", "oversize"}
      /\ LeftAt(pc[p], Job(p), sess[p].uploaded)
  BY DEF StoreChunk, RollbackChunk, Same, At, Left
<1>2. /\ pc' = [pc EXCEPT ![p] = pc'[p]] /\ \A q \in Process : q # p => sess'[q] = sess[q]
  BY DEF StoreChunk, RollbackChunk, UploadTypes
<1>3. CASE driver = "local"
  <2>1. pc'[p] \in {"short", "chunked", "oversize"}
    BY DEF StoreChunk, RollbackChunk, UploadTypes
  <2>2. LeftAt(pc[p], Job(p), sess[p].uploaded)'
    BY <1>1, <1>3, <2>1 DEF LeftAt
  <2> QED BY <1>1, <1>2, <1>3, <2>2, LeftStep DEF UploadTypes
<1>4. CASE driver # "local"
  <2>1. driver = "gcs"
    BY <1>4, UploadAssumption DEF UploadTypes, RestTypes
  <2>2. StoreChunk(p)
    BY <1>1, <1>4 DEF RollbackChunk, At, LeftAt
  <2>3. off' = off /\ pc'[p] = "short" /\ sess'[p].uploaded = 0
    BY <2>1, <2>2 DEF StoreChunk, UploadTypes, AnyCopy
  <2>4. LeftAt(pc[p], Job(p), sess[p].uploaded)'
    BY <2>1, <2>3, UploadAssumption DEF LeftAt
  <2> QED BY <1>1, <1>2, <2>3, <2>4, LeftStep DEF UploadTypes
<1> QED BY <1>3, <1>4

LEMMA LookLeft ==
  ASSUME UploadTypes, UploadTypes', Left, NEW p \in Process, NEW t \in Serves[p], Look(p, t)
  PROVE  Left'
<1>1. PICK place \in Reading, copy \in AnyCopy :
        /\ t \in Operations \X Id
        /\ pc' = [pc EXCEPT ![p] = place] /\ task' = [task EXCEPT ![p] = t]
        /\ sess' = [sess EXCEPT ![p] = copy]
        /\ UNCHANGED <<rec, stored, driver>>
  BY LookMeans
<1>2. /\ pc'[p] = place /\ sess'[p] = copy /\ task'[p] = t
      /\ \A q \in Process : q # p => pc'[q] = pc[q] /\ task'[q] = task[q] /\ sess'[q] = sess[q]
  BY <1>1 DEF UploadTypes
<1>3. CASE place # "reconciling"
  <2>1. pc'[p] \notin Telling
    BY <1>2, <1>3 DEF Reading, Telling
  <2> QED BY <1>1, <1>2, <2>1, LeftStep DEF stored
<1>4. CASE place = "reconciling"
  <2> DEFINE u == t[2]
             r == rec[u]
  <2>1. CanReconcile(r) /\ copy.uploaded = Bytes(u)
    <3> DEFINE lost == driver = "gcs" /\ off[u] < 0 /\ CanReconcile(r)
               s == IF ~CanReconcile(r) \/ lost THEN r
                    ELSE [r EXCEPT !.uploaded = Bytes(u),
                                   !.status = IF Bytes(u) = Size THEN "uploaded"
                                              ELSE IF Bytes(u) > 0 THEN "uploading" ELSE @]
               to == IF t[1] = "recover" /\ CleanupDue(r) THEN "cleaning"
                     ELSE IF s # r THEN "reconciling"
                     ELSE IF CanExpire(r) /\ u \in old THEN "expiring"
                     ELSE IF lost THEN "idle" ELSE First(t[1], s)
    <3>1. pc' = [pc EXCEPT ![p] = to] /\ sess' = [sess EXCEPT ![p] = Copy(to, s)]
      BY DEF Look
    <3>2. RecordOK(r) /\ r \in AnyRecord
      BY <1>1 DEF UploadTypes, RecordOK
    <3>3. s = r => First(t[1], s) # "reconciling"
      <4> HIDE DEF s
      <4> QED BY <3>2, FirstPlace
    <3>4. CanReconcile(r) => s = r \/ s.uploaded = Bytes(u)
      BY <3>2 DEF AnyRecord
    <3>5. ~CanReconcile(r) => s = r
      OBVIOUS
    <3> HIDE DEF s
    <3>6. to = "reconciling" /\ copy = Copy(to, s)
      <4> HIDE DEF to
      <4> QED BY <1>2, <1>4, <3>1 DEF UploadTypes
    <3>7. s # r
      BY <3>3, <3>6
    <3> QED BY <3>4, <3>5, <3>6, <3>7 DEF Copy
  <2>2. off[u] \in -1..Size /\ Size \in Nat \ {0}
    BY <1>1, UploadAssumption DEF UploadTypes, StoredTypes
  <2>3. copy.uploaded = Size => off[u] \notin 0..Size - 1
    BY <2>1, <2>2 DEF Bytes
  <2>4. LeftAt(pc[p], Job(p), sess[p].uploaded)'
    BY <1>1, <1>2, <1>4, <2>3 DEF LeftAt, Job, stored
  <2> QED BY <1>1, <1>2, <2>4, LeftStep DEF stored
<1> QED BY <1>3, <1>4

LEMMA FinalizeLeft ==
  ASSUME UploadTypes, UploadTypes', Saga, Left, NEW p \in Process, NEW u, u = Job(p),
         NEW r, r = rec[u], Finalize(p)
  PROVE  Left'
<1>1. /\ pc[p] = "finalizing" /\ u \in Id /\ RecordOK(r) /\ PlaceTrue(p, "finalizing", u, r)
      /\ LeftRec(u, r)
  BY Here DEF Finalize, At, Left
<1>2. PICK place \in {"finalized", "retrying"} : Step(p, place)
  BY DEF Finalize
<1>3. /\ trash' = trash /\ (obj' = obj \/ (obj' = obj \cup {u} /\ driver = "local"))
      /\ off' = off \/ off' = [off EXCEPT ![u] = -1]
  BY DEF Finalize
<1>4. /\ pc'[p] = place /\ rec' = rec /\ driver' = driver /\ task'[p] = task[p]
      /\ \A q \in Process : q # p => pc'[q] = pc[q] /\ task'[q] = task[q]
  BY <1>1, <1>2, MoveTypes DEF Step, Keep, Move, Same, Places
<1>5. r.status = "finalizing" /\ r.uploaded = Size /\ r.completion = "pending"
  BY <1>1 DEF PlaceTrue, Completing, RecordOK
<1>6. ASSUME NEW v \in Id, v \in obj' \ obj
      PROVE  /\ LeftRec(v, rec[v])'
             /\ \A q \in Process : Job(q)' = v => Untold(q)'
  <2>1. v = u /\ driver = "local"
    BY <1>3, <1>6
  <2>2. LeftRec(v, rec[v])'
    BY <1>4, <1>5, <2>1 DEF LeftRec
  <2>3. ASSUME NEW q \in Process, Job(q)' = v PROVE pc'[q] \notin {"refusing", "withdrawn"}
    <3>1. CASE q = p
      BY <1>4, <3>1
    <3>2. CASE q # p
      <4>1. pc'[q] = pc[q] /\ Job(q) = u
        BY <1>4, <2>1, <2>3, <3>2 DEF Job
      <4>2. pc[q] # "refusing"
        BY <1>1, <3>2, <4>1, Alone DEF PlaceTrue, Completing
      <4>3. pc[q] # "withdrawn"
        BY <1>5, <4>1 DEF Saga, PlaceTrue
      <4> QED BY <4>1, <4>2, <4>3
    <3> QED BY <3>1, <3>2
  <2> QED BY <2>2, <2>3 DEF Untold
<1>7. \A v \in Id : driver = "gcs" /\ off[v] \notin 0..Size - 1 => off'[v] \notin 0..Size - 1
  BY <1>3, UploadAssumption DEF UploadTypes, StoredTypes
<1> QED BY <1>1, <1>2, <1>3, <1>6, <1>7, KeepLeft DEF Step, Places, Telling

LEMMA PublishLeft ==
  ASSUME UploadTypes, UploadTypes', Saga, Left, NEW p \in Process, NEW u, u = Job(p),
         NEW r, r = rec[u], Publish(p) \/ Recheck(p) \/ CheckReferences(p)
  PROVE  Left'
<1>1. pc[p] # "idle" /\ UNCHANGED <<off, obj, trash>>
  BY DEF Publish, Recheck, CheckReferences, At, stored
<1>2. PICK place \in Places :
        /\ Step(p, place)
        /\ place \notin Telling \/ (place = "refusing" /\ pc[p] = "contested" /\ Referenced(u, FALSE))
  <2>1. CASE Publish(p)
    BY <2>1 DEF Publish, Places, Telling
  <2>2. CASE Recheck(p)
    BY <2>2 DEF Recheck, Places, Telling
  <2>3. CASE CheckReferences(p)
    BY <2>3 DEF CheckReferences, At, Places, Telling
  <2> QED BY <2>1, <2>2, <2>3
<1>3. place = "refusing" => u \in trash
  BY <1>1, <1>2, Here DEF PlaceTrue, Referenced, Telling
<1>4. place \in Telling => LeftAt(place, Job(p), NoCopy.uploaded)'
  <2>1. place \in Telling => place = "refusing"
    BY <1>2
  <2>2. place \in Telling => Job(p)' = u
    BY <1>1, <1>2, <2>1, MoveTypes DEF Step, Keep, Job
  <2> QED BY <1>1, <1>3, <2>1, <2>2 DEF LeftAt, Bare
<1> QED BY <1>1, <1>2, <1>4, KeepLeft DEF Step

(* Objects and sessions are removed.                                           *)
LEMMA RemoveLeft ==
  ASSUME UploadTypes, UploadTypes', Saga, Left, NEW p \in Process, NEW u, u = Job(p),
         NEW r, r = rec[u],
         Discard(p) \/ Unlink(p) \/ InspectCleanup(p) \/ Withdraw(p) \/ EraseUpload(p)
  PROVE  Left'
<1>1. /\ pc[p] # "idle" /\ trash' = trash /\ obj' \subseteq obj
      /\ off' = off \/ off' = [off EXCEPT ![u] = -1]
  BY DEF Discard, Unlink, InspectCleanup, Withdraw, EraseUpload, At, stored
<1>2. u \in Id /\ LeftRec(u, r)
  BY <1>1, Here DEF Left
<1>3. PICK place \in Places :
        /\ Step(p, place)
        /\ \/ place \notin Telling
           \/ place = "refusing" /\ u \notin obj'
           \/ place = "withdrawn" /\ (u \notin obj' \/ (r.uploaded # Size /\ obj' = obj))
  <2>1. CASE Discard(p)
    BY <2>1 DEF Discard, Places, Telling
  <2>2. CASE Unlink(p)
    BY <2>2 DEF Unlink, Places, Telling
  <2>3. CASE InspectCleanup(p)
    BY <2>3 DEF InspectCleanup, Places, Telling
  <2>4. CASE Withdraw(p)
    BY <2>4 DEF Withdraw, Places, Telling
  <2>5. CASE EraseUpload(p)
    BY <2>5 DEF EraseUpload, Places, Telling
  <2> QED BY <2>1, <2>2, <2>3, <2>4, <2>5
<1>4. place \in Telling => LeftAt(place, Job(p), NoCopy.uploaded)'
  <2>1. place \in Telling => Job(p)' = u /\ driver' = driver
    BY <1>1, <1>3, MoveTypes DEF Step, Keep, Move, Same, Job
  <2> QED BY <1>2, <1>3, <2>1 DEF LeftAt, LeftRec, Bare
<1>5. \A v \in Id : driver = "gcs" /\ off[v] \notin 0..Size - 1 => off'[v] \notin 0..Size - 1
  BY <1>1, UploadAssumption DEF UploadTypes, StoredTypes
<1> QED BY <1>1, <1>3, <1>4, <1>5, KeepLeft DEF Step

LEMMA CrashLeft ==
  ASSUME UploadTypes, UploadTypes', Left, NEW p \in Process, Crash(p) \/ Error(p) PROVE Left'
<1>1. /\ pc[p] # "idle" /\ UNCHANGED <<off, obj, trash, driver>>
      /\ pc' = [pc EXCEPT ![p] = pc'[p]] /\ pc'[p] \in {"idle", "retrying"}
  BY DEF Crash, Error, stored, UploadTypes
<1>2. ASSUME NEW v \in Id
      PROVE  /\ rec'[v].uploaded = rec[v].uploaded /\ rec'[v].completion = rec[v].completion
             /\ rec'[v].status = rec[v].status
  <2>1. rec \in [Id -> AnyRecord] /\ rec[v] \in AnyRecord /\ Job(p) \in Id
    BY <1>1, Working DEF UploadTypes
  <2>2. CASE Crash(p)
    BY <2>1, <2>2 DEF Crash, AnyRecord
  <2>3. CASE Error(p)
    BY <2>3 DEF Error
  <2> QED BY <2>2, <2>3
<1>3. ASSUME NEW q \in Process
      PROVE  \/ pc'[q] = pc[q] /\ task'[q] = task[q] /\ sess'[q].uploaded = sess[q].uploaded
             \/ pc'[q] \notin Telling
  <2>1. CASE q = p
    BY <1>1, <2>1 DEF Telling
  <2>2. CASE q # p
    BY <1>1, <2>2 DEF Crash, Error, UploadTypes
  <2> QED BY <2>1, <2>2
<1> QED BY <1>1, <1>2, <1>3, LeftStep

LEMMA CreateLeft ==
  ASSUME UploadTypes, UploadTypes', Left, NEW u \in Id, Create(u) PROVE Left'
<1> DEFINE w == [Blank EXCEPT !.status = "pending", !.expect = at]
<1>1. /\ rec' = [rec EXCEPT ![u] = w] /\ rec[u].status = "none"
      /\ off' = [off EXCEPT ![u] = IF driver = "gcs" THEN 0 ELSE -1]
      /\ UNCHANGED <<obj, trash, driver, task, sess, pc>>
  BY DEF Create, Same
<1>2. w.uploaded = 0 /\ w.status = "pending" /\ Size \in Nat \ {0}
  BY UploadAssumption DEF Blank
<1> HIDE DEF w
<1>3. rec'[u] = w /\ (\A v \in Id : v # u => rec'[v] = rec[v] /\ off'[v] = off[v])
  BY <1>1 DEF UploadTypes, StoredTypes
<1>4. LeftRec(u, rec[u]) /\ rec[u].completion = "none"
  BY <1>1 DEF Left, UploadTypes, RecordOK
<1>5. ASSUME NEW v \in Id PROVE LeftRec(v, rec[v])'
  <2>1. CASE v = u
    BY <1>1, <1>2, <1>3, <1>4, <2>1 DEF LeftRec
  <2>2. CASE v # u
    BY <1>1, <1>3, <2>2 DEF Left, LeftRec
  <2> QED BY <2>1, <2>2
<1>6. ASSUME NEW q \in Process PROVE LeftAt(pc[q], Job(q), sess[q].uploaded)'
  <2>1. LeftAt(pc[q], Job(q), sess[q].uploaded)
    BY DEF Left
  <2>2. CASE pc[q] = "idle"
    BY <1>1, <2>2 DEF LeftAt, Bare
  <2>3. CASE pc[q] # "idle"
    <3>1. Job(q) \in Id /\ Job(q) # u /\ Job(q)' = Job(q)
      BY <1>1, <2>3, Working DEF Job
    <3> QED BY <1>1, <1>3, <2>1, <3>1 DEF LeftAt
  <2> QED BY <2>2, <2>3
<1> QED BY <1>5, <1>6 DEF Left

LEMMA DirectWriteLeft ==
  ASSUME UploadTypes, UploadTypes', Saga, Left, NEW u \in Id, DirectWrite(u) PROVE Left'
<1>1. /\ driver = "gcs" /\ off[u] \in 0..Size - 1 /\ off' = [off EXCEPT ![u] = @ + 1]
      /\ obj' = obj \/ obj' = obj \cup {u}
      /\ UNCHANGED <<rec, task, sess, pc, driver, trash>>
  BY DEF DirectWrite, Quiet
<1>2. LeftRec(u, rec[u]) /\ rec[u].uploaded # Size
  BY <1>1 DEF Left, LeftRec
<1>3. rec[u].status \notin {"conflict", "finalizing"}
  BY <1>2 DEF UploadTypes, RecordOK, LeftRec
<1>4. ASSUME NEW v \in Id, v \in obj' \ obj
      PROVE  /\ LeftRec(v, rec[v])'
             /\ \A q \in Process : Job(q)' = v => Untold(q)'
  <2>1. v = u
    BY <1>1, <1>4
  <2>2. LeftRec(v, rec[v])'
    BY <1>1, <1>2, <1>3, <2>1 DEF LeftRec
  <2>3. ASSUME NEW q \in Process, Job(q)' = v PROVE pc'[q] # "refusing"
    BY <1>1, <1>3, <2>1, <2>3 DEF Saga, PlaceTrue, Completing, Job
  <2> QED BY <1>1, <2>2, <2>3 DEF Untold
<1>5. \A v \in Id : driver = "gcs" /\ off[v] \notin 0..Size - 1 => off'[v] \notin 0..Size - 1
  BY <1>1 DEF UploadTypes, StoredTypes
<1> QED BY <1>1, <1>4, <1>5, LeftStep

LEMMA OtherLeft ==
  ASSUME UploadTypes, UploadTypes', Left,
         Vacate \/ UNCHANGED vars \/ \E u \in Id : Age(u) \/ LeaseExpires(u)
  PROVE  Left'
<1>1. UNCHANGED <<obj, task, sess, pc, driver>> /\ trash \subseteq trash'
  BY DEF Vacate, Quiet, Age, LeaseExpires, vars, stored
<1>2. \A v \in Id : off'[v] \in {off[v], -1}
  BY DEF Vacate, Age, LeaseExpires, vars, stored, UploadTypes, StoredTypes
<1>3. ASSUME NEW v \in Id
      PROVE  /\ rec'[v].uploaded = rec[v].uploaded /\ rec'[v].completion = rec[v].completion
             /\ rec'[v].status = rec[v].status
  <2>1. rec \in [Id -> AnyRecord] /\ rec[v] \in AnyRecord
    BY DEF UploadTypes
  <2>2. ASSUME NEW u \in Id, LeaseExpires(u)
        PROVE  /\ rec'[v].uploaded = rec[v].uploaded /\ rec'[v].completion = rec[v].completion
               /\ rec'[v].status = rec[v].status
    BY <2>1, <2>2 DEF LeaseExpires, AnyRecord
  <2>3. rec' = rec \/ \E u \in Id : LeaseExpires(u)
    BY DEF Vacate, Quiet, Age, vars
  <2> QED BY <2>2, <2>3
<1>4. \A v \in Id : driver = "gcs" /\ off[v] \notin 0..Size - 1 => off'[v] \notin 0..Size - 1
  BY <1>2, UploadAssumption
<1> QED BY <1>1, <1>3, <1>4, LeftStep

LEMMA NextLeft == Calm /\ SagaInv /\ Left /\ [Next]_vars => Left'
<1> SUFFICES ASSUME Calm, SagaInv, Left, [Next]_vars PROVE Left'
  OBVIOUS
<1>1. UploadTypes /\ UploadTypes' /\ Saga
  BY NextTypes DEF SagaInv
<1>2. ASSUME NEW p \in Process, Continue(p) PROVE Left'
  <2>1. PICK u, r : u = Job(p) /\ r = rec[u]
    OBVIOUS
  <2>2. CASE Reconcile(p) \/ Expire(p) \/ BeginChunk(p) \/ StoreChunk(p) \/ RollbackChunk(p)
             \/ EndChunk(p)
    BY <1>1, <2>2, ReconcileLeft, ExpireLeft, BeginChunkLeft, ChunkLeft, EndChunkLeft
  <2>3. CASE RequestCompletion(p) \/ ClaimCompletion(p) \/ MarkObjectReady(p) \/ MarkPublished(p)
             \/ MarkComplete(p) \/ Retry(p) \/ MarkCleaned(p) \/ RequestCancel(p)
    BY <1>1, <2>3, CompletionLeft
  <2>4. CASE Finalize(p)
    BY <1>1, <2>1, <2>4, FinalizeLeft
  <2>5. CASE Publish(p) \/ Recheck(p) \/ CheckReferences(p)
    BY <1>1, <2>1, <2>5, PublishLeft
  <2>6. CASE Discard(p) \/ Unlink(p) \/ InspectCleanup(p) \/ Withdraw(p) \/ EraseUpload(p)
    BY <1>1, <2>1, <2>6, RemoveLeft
  <2>7. CASE MarkConflict(p) \/ MarkCancelled(p)
    BY <1>1, <2>7, MarkConflictLeft, MarkCancelledLeft
  <2> QED BY <1>2, <2>2, <2>3, <2>4, <2>5, <2>6, <2>7 DEF Continue
<1>3. ASSUME NEW p \in Process, Crash(p) \/ Error(p) \/ \E t \in Serves[p] : Look(p, t) PROVE Left'
  BY <1>1, <1>3, CrashLeft, LookLeft
<1>4. ASSUME NEW u \in Id, Create(u) \/ DirectWrite(u) \/ Age(u) \/ LeaseExpires(u) PROVE Left'
  BY <1>1, <1>4, CreateLeft, DirectWriteLeft, OtherLeft
<1>5. CASE Vacate \/ UNCHANGED vars
  BY <1>1, <1>5, OtherLeft
<1> QED BY <1>2, <1>3, <1>4, <1>5 DEF Next

(* A refused upload leaves no object that nothing refers to, and neither does  *)
(* a cancelled or expired one whose bytes came through the server.             *)
THEOREM LosersAlwaysLeaveNothing == ASSUME Calm PROVE Spec => []LosersLeaveNothing
<1>1. Init => SagaInv /\ Left
  BY TypesInit, SagaInit, LeftInit DEF SagaInv
<1>2. SagaInv /\ Left /\ [Next]_vars => (SagaInv /\ Left)'
  BY NextTypes, NextSaga, NextLeft DEF SagaInv
<1>3. SagaInv /\ Left => LosersLeaveNothing
  <2> SUFFICES ASSUME SagaInv, Left, NEW u \in Id, u \in obj,
                      \/ rec[u].status = "conflict"
                      \/ rec[u].status \in {"cancelled", "expired"} /\ driver = "local"
               PROVE  u \in trash
    BY DEF LosersLeaveNothing
  <2>1. LeftRec(u, rec[u]) /\ RecordOK(rec[u])
    BY DEF SagaInv, UploadTypes, Left
  <2> QED BY <2>1 DEF LeftRec, RecordOK
<1> QED BY <1>1, <1>2, <1>3, PTL DEF Spec
=============================================================================
