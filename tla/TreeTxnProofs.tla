--------------------------- MODULE TreeTxnProofs -----------------------------
(* Theorems about TreeTxn, for every set of shards, resources and transactions:*)
(* its types, its inductive invariant, and that it implements AtomicNamespace. *)
EXTENDS TreeTxn, TLAPS

(* What the first theorem needs of the private and shared state of one step.   *)
LEMMA SettledType == ASSUME TypeOK, NEW k \in Key
                     PROVE  View(k) \in TxOrNone /\ Settled(k) \in Envelope
  BY DEF TypeOK, View, Settled, Envelope, TxOrNone

LEMMA PendingType == ASSUME TypeOK, NEW k \in Key, NEW p \in TxOrNone
                     PROVE  [env EXCEPT ![k].pend = p] \in [Key -> Envelope]
  <1>1. env[k] \in [cur : TxOrNone, pend : TxOrNone]
    BY DEF TypeOK, Envelope
  <1>2. [env[k] EXCEPT !.pend = p] \in [cur : TxOrNone, pend : TxOrNone]
    BY <1>1
  <1> QED
    BY <1>2 DEF TypeOK, Envelope

LEMMA GotoType == ASSUME TypeOK, NEW t \in Tx, NEW phase \in Phase,
                         NEW work \in SUBSET Nat, Goto(t, phase, work)
                  PROVE  pc' \in [Tx -> Phase] /\ todo' \in [Tx -> SUBSET Nat]
  BY DEF Goto, TypeOK

LEMMA LeaveType == ASSUME TypeOK, NEW t \in Tx, NEW phase \in Phase, Leave(t, phase)
                   PROVE  /\ pc' \in [Tx -> Phase] /\ todo' \in [Tx -> SUBSET Nat]
                          /\ seen' \in [Tx -> [Key -> Snapshot]]
  <1>1. Goto(t, phase, {})
    BY DEF Leave
  <1>2. Unread \in [Key -> Snapshot]
    BY DEF Unread, Snapshot, Blank, Envelope, TxOrNone
  <1> QED
    BY <1>1, <1>2, GotoType DEF Leave, TypeOK

LEMMA RunType == ASSUME TypeOK, TxnAssumption, NEW t \in Tx, Run(t)
                 PROVE  TypeOK'
  <1> USE TxnAssumption
  <1>1. CASE Begin(t)
    <2>1. Needs[t] \in SUBSET Nat /\ Parts[t] \in SUBSET Nat
      BY DEF TxnAssumption
    <2> QED
      BY <1>1, <2>1, GotoType DEF Begin, TypeOK, Status, Phase
  <1>2. CASE Acquire(t)
    BY <1>2 DEF Acquire, TypeOK, TxOrNone
  <1>3. CASE Acquired(t) \/ Plan(t) \/ Verify(t)
    <2>1. Parts[t] \in SUBSET Nat
      BY DEF TxnAssumption
    <2> QED
      BY <1>3, <2>1, GotoType DEF Acquired, Plan, Verify, TypeOK, Phase
  <1>4. CASE Commit(t)
    BY <1>4, LeaveType DEF Commit, TypeOK, Phase, Status
  <1>5. CASE Resolve(t) \/ Released(t)
    <2>1. Leave(t, "done")
      BY <1>5 DEF Resolve, Released
    <2> QED
      BY <1>5, <2>1, LeaveType DEF Resolve, Released, TypeOK, Phase, Status
  <1>6. CASE Fail(t)
    BY <1>6, LeaveType DEF Fail, TypeOK, Phase, Status
  <1>7. CASE Release(t)
    BY <1>7 DEF Release, TypeOK, Free, TxOrNone
  <1>8. CASE Crash(t)
    BY <1>8, LeaveType DEF Crash, TypeOK, Phase
  <1>9. ASSUME NEW k \in Key, Read(t, k) PROVE TypeOK'
    <2>1. View(k) \in TxOrNone /\ Settled(k) \in Envelope /\ env[k] \in Envelope
      BY SettledType DEF TypeOK
    <2>2. Blank \in Envelope
      BY DEF Blank, Envelope, TxOrNone
    <2>3. CASE ReadVisible(t, k)
      <3>1. env' \in [Key -> Envelope]
        BY <2>1, <2>3 DEF ReadVisible, TypeOK
      <3>2. (IF t \in Fenced THEN env'[k] ELSE Blank) \in Envelope
        BY <2>2, <3>1
      <3> QED
        BY <1>9, <2>1, <2>3, <3>1, <3>2 DEF Read, ReadVisible, TypeOK, Snapshot
    <2>4. CASE ReadSnapshot(t, k)
      BY <1>9, <2>1, <2>4 DEF Read, ReadSnapshot, TypeOK, Snapshot
    <2> QED
      BY <1>9, <2>3, <2>4 DEF Read
  <1>10. ASSUME NEW k \in Key, Prepare(t, k) PROVE TypeOK'
    <2>1. ASSUME PrepareLeased(t, k) PROVE env' \in [Key -> Envelope]
      BY <2>1, PendingType DEF PrepareLeased, TxOrNone
    <2>2. ASSUME PrepareSnapshot(t, k) PROVE env' \in [Key -> Envelope]
      <3>1. seen[t][k].ver \in TxOrNone
        BY DEF TypeOK, Snapshot
      <3> QED
        BY <2>2, <3>1 DEF PrepareSnapshot, TypeOK, Envelope, TxOrNone
    <2>3. UNCHANGED <<man, jnl, lease, late, seen, pc>> /\ todo' \in [Tx -> SUBSET Nat]
      BY <1>10 DEF Prepare, TypeOK
    <2> QED
      BY <1>10, <2>1, <2>2, <2>3 DEF Prepare, TypeOK
  <1> QED
    BY <1>1, <1>2, <1>3, <1>4, <1>5, <1>6, <1>7, <1>8, <1>9, <1>10 DEF Run

(* Type correctness: every stored object keeps its shape, whoever writes it.   *)
THEOREM TypeCorrect == Spec => []TypeOK
  <1> USE TxnAssumption
  <1>1. Init => TypeOK
    BY DEF Init, TypeOK, Envelope, Blank, TxOrNone, Status, Free, Unread, Snapshot, Phase
  <1>2. TypeOK /\ [Next]_vars => TypeOK'
    <2> SUFFICES ASSUME TypeOK, [Next]_vars PROVE TypeOK'
      OBVIOUS
    <2>1. ASSUME NEW t \in Tx, Run(t) PROVE TypeOK'
      BY <2>1, RunType
    <2>2. ASSUME NEW t \in Tx, DeadlinePasses(t) PROVE TypeOK'
      BY <2>2 DEF DeadlinePasses, TypeOK
    <2>3. ASSUME NEW t \in Tx, Upkeep(t) PROVE TypeOK'
      <3>1. CASE ForceAbort(t)
        BY <3>1 DEF ForceAbort, TypeOK, Status
      <3>2. CASE Archive(t)
        BY <3>2 DEF Archive, TypeOK, Status
      <3>3. CASE Unlink(t)
        BY <3>3 DEF Unlink, TypeOK, Status
      <3> QED
        BY <2>3, <3>1, <3>2, <3>3 DEF Upkeep
    <2>4. ASSUME NEW r \in Resource, LeaseExpires(r) PROVE TypeOK'
      <3>1. lease[r] \in [owner : TxOrNone, live : BOOLEAN]
        BY DEF TypeOK
      <3>2. [lease[r] EXCEPT !.live = FALSE] \in [owner : TxOrNone, live : BOOLEAN]
        BY <3>1
      <3> QED
        BY <2>4, <3>2 DEF LeaseExpires, TypeOK
    <2>5. ASSUME NEW k \in Key, Settle(k) PROVE TypeOK'
      BY <2>5, SettledType DEF Settle, TypeOK
    <2>6. ASSUME NEW k \in Key, Discard(k) PROVE TypeOK'
      BY <2>6, PendingType DEF Discard, TypeOK, TxOrNone
    <2>7. CASE UNCHANGED vars
      BY <2>7 DEF vars, TypeOK
    <2> QED
      BY <2>1, <2>2, <2>3, <2>4, <2>5, <2>6, <2>7 DEF Next
  <1> QED
    BY <1>1, <1>2, PTL DEF Spec

-----------------------------------------------------------------------------
(* The inductive invariant of TreeTxn, proved for every set of participants,   *)
(* resources and transactions, whatever crashes and whichever replies are lost,*)
(* as long as no rename is slower than the deadline in its pending values.     *)

NoStalls == "stall" \notin Faults \/ Rename = {}

Aborted(t) == "aborted" \in {man[t], jnl[t]}

(* The part of the invariant that does not look at what was read.              *)
Protocol == /\ PendingOwned /\ PreparedHeld /\ PhaseAgrees
            /\ DecisionKept /\ LateStopped

-----------------------------------------------------------------------------
(* Decisions are final: no step takes back a commit, turns a known abort into  *)
(* a commit, or commits a transaction other than by its own Commit.            *)
LEMMA DecisionsStand ==
  ASSUME TypeOK, TxnInv, TxnAssumption, NEW t \in Tx, NEW u \in Tx,
         Run(t) \/ DeadlinePasses(t) \/ Upkeep(t) \/ UNCHANGED <<man, jnl>>
  PROVE  /\ u \in Committed => u \in Committed'
         /\ u \notin Committed /\ Aborted(u) => u \notin Committed' /\ Aborted(u)'
         /\ ~Commit(t) => (u \in Committed' => u \in Committed)
  <1> USE DEF TypeOK, TxnInv, PhaseAgrees, DecisionKept, Committed, Aborted, Decision, Status, Leased, TxnAssumption
  <1>1. CASE UNCHANGED <<man, jnl>>
    BY <1>1
  <1>2. CASE Begin(t)
    BY <1>2 DEF Begin
  <1>3. CASE Commit(t)
    BY <1>3, SMTT(30) DEF Commit
  <1>4. CASE Resolve(t) \/ Released(t)
    BY <1>4, SMTT(30) DEF Resolve, Released
  <1>5. CASE Fail(t)
    BY <1>5, SMTT(30) DEF Fail
  <1>6. CASE ForceAbort(t)
    BY <1>6 DEF ForceAbort
  <1>7. CASE Archive(t)
    BY <1>7, SMTT(30) DEF Archive
  <1>8. CASE Unlink(t)
    BY <1>8, SMTT(30) DEF Unlink
  <1>9. CASE DeadlinePasses(t) \/ Acquire(t) \/ Acquired(t) \/ Plan(t) \/ Verify(t) \/ Release(t) \/ Crash(t)
    BY <1>9, <1>1 DEF DeadlinePasses, Acquire, Acquired, Plan, Verify, Release, Crash
  <1>10. CASE \E k \in Key : Read(t, k) \/ Prepare(t, k)
    BY <1>10, <1>1 DEF Read, Prepare
  <1> QED
    BY <1>1, <1>2, <1>3, <1>4, <1>5, <1>6, <1>7, <1>8, <1>9, <1>10 DEF Run, Upkeep

-----------------------------------------------------------------------------
(* SnapshotSound survives any step that reads nothing and takes back no        *)
(* decision, and a read establishes it for what it has just read.              *)
LEMMA SnapshotStable ==
  ASSUME SnapshotSound,
         \A t \in Tx, k \in Key : HasRead(t, k)' => HasRead(t, k) /\ seen'[t][k] = seen[t][k],
         \A t \in Tx : t \in Committed => t \in Committed',
         \A t \in Tx : t \notin Committed /\ Aborted(t) => t \notin Committed' /\ Aborted(t)',
         Rename \cup Fenced \subseteq Tx
  PROVE  SnapshotSound'
  <1> SUFFICES ASSUME NEW t \in Rename \cup Fenced, NEW k \in Key, HasRead(t, k)'
               PROVE  LET s == seen'[t][k] IN
                        /\ s.gen.pend # t
                        /\ s.gen.pend = NoTx => s.ver = s.gen.cur
                        /\ t \in Rename /\ s.gen.pend \in Tx =>
                             \/ s.gen.pend \in Committed' /\ s.ver = s.gen.pend
                             \/ /\ s.gen.pend \notin Committed' /\ s.ver = s.gen.cur
                                /\ "aborted" \in {man'[s.gen.pend], jnl'[s.gen.pend]}
    BY DEF SnapshotSound, Aborted
  <1>1. HasRead(t, k) /\ seen'[t][k] = seen[t][k]
    OBVIOUS
  <1> QED
    BY <1>1 DEF SnapshotSound, Aborted

LEMMA ReadSnapshotSound ==
  ASSUME TypeOK, TxnInv, TxnAssumption, NEW t \in Tx, NEW k \in Key, Read(t, k)
  PROVE  SnapshotSound'
  <1>1. UNCHANGED <<man, jnl, pc>> /\ pc[t] = "building" /\ todo' = [todo EXCEPT ![t] = @ \ {k}]
    BY DEF Read
  <1>2. \A u \in Tx, j \in Key : <<u, j>> # <<t, k>> => seen'[u][j] = seen[u][j] /\ (HasRead(u, j)' => HasRead(u, j))
    BY <1>1 DEF Read, ReadVisible, ReadSnapshot, TypeOK, HasRead
  <1>3. env'[k].pend # t /\ env[k].pend # t
    BY SMTT(20) DEF Read, ReadVisible, ReadSnapshot, TypeOK, TxnInv, PendingOwned, Settled, TxOrNone, Envelope, TxnAssumption
  <1>4. CASE ReadVisible(t, k)
    <2>1. ASSUME t \in Fenced
          PROVE  seen'[t][k].gen = env'[k] /\ seen'[t][k].ver = View(k)
      BY <2>1, <1>4 DEF ReadVisible, TypeOK
    <2>2. env'[k].pend = NoTx => View(k) = env'[k].cur
      BY <1>4 DEF ReadVisible, TypeOK, View, PendingWon, Settled, TxnAssumption
    <2> QED
      BY <1>1, <1>2, <1>3, <2>1, <2>2, <1>4 DEF ReadVisible, SnapshotSound, TxnInv, Committed, Leased, TxnAssumption
  <1>5. CASE ReadSnapshot(t, k)
    <2>1. seen'[t][k].gen = env[k] /\ seen'[t][k].ver = View(k)
      BY <1>5 DEF ReadSnapshot, TypeOK
    <2>2. env[k].pend = NoTx => View(k) = env[k].cur
      BY DEF View, PendingWon, TxnAssumption
    <2>3. ASSUME env[k].pend \in Tx 
          PROVE  \/ env[k].pend \in Committed /\ View(k) = env[k].pend
                 \/ /\ env[k].pend \notin Committed /\ View(k) = env[k].cur
                    /\ Aborted(env[k].pend)
      <3>1. Decision(env[k].pend) \in {"committed", "aborted"}
         BY <2>3, <1>5 DEF ReadSnapshot, Decided
      <3> DEFINE u == env[k].pend
      <3>2. CASE Decision(u) = "committed"
         BY <3>2, <2>3 DEF View, PendingWon, Committed, Decision
      <3>3. CASE Decision(u) = "aborted"
         <4>1. u \notin Committed /\ Aborted(u)
           BY <3>3, <2>3 DEF Committed, Decision, Aborted, TxnInv, DecisionKept
         <4> QED
           BY <4>1, <3>3 DEF View, PendingWon
      <3> QED 
         BY <3>1, <3>2, <3>3
    <2> QED
      BY <1>1, <1>2, <1>3, <2>1, <2>2, <2>3, <1>5 DEF ReadSnapshot, SnapshotSound, TxnInv, Committed, Aborted, Leased, TxnAssumption
  <1> QED
    BY <1>4, <1>5 DEF Read

-----------------------------------------------------------------------------
(* The two steps of the building and preparing phases, seen from outside.      *)

LEMMA ReadEffect ==
  ASSUME TypeOK, NEW t \in Tx, NEW k \in Key, Read(t, k)
  PROVE  /\ pc[t] = "building" /\ todo' = [todo EXCEPT ![t] = @ \ {k}]
         /\ UNCHANGED <<man, jnl, late, pc>>
         /\ \/ env' = env
            \/ /\ env[k].pend \in Tx /\ Decision(env[k].pend) = "committed"
               /\ env' = [env EXCEPT ![k] = [cur |-> env[k].pend, pend |-> NoTx]]
  BY DEF Read, ReadSnapshot, ReadVisible, PendingWon, View, Settled

LEMMA PrepareEffect ==
  ASSUME TypeOK, TxnAssumption, NEW t \in Tx, NEW k \in Key, Prepare(t, k)
  PROVE  /\ pc[t] = "preparing" /\ k \in todo[t]
         /\ todo' = [todo EXCEPT ![t] = @ \ {k}]
         /\ UNCHANGED <<man, jnl, late, seen, pc>>
         /\ env'[k].pend = t
         /\ \A j \in Key \ {k} : env'[j] = env[j]
         /\ env[k].pend \in Tx => env[k].pend = t \/ env[k] = seen[t][k].gen
  <1>1. env[k] \in [cur : TxOrNone, pend : TxOrNone] /\ t \in TxOrNone
    BY DEF TypeOK, Envelope, TxOrNone
  <1>2. [env[k] EXCEPT !.pend = t].pend = t
    BY <1>1
  <1>3. CASE PrepareLeased(t, k)
    BY <1>1, <1>2, <1>3 DEF Prepare, PrepareLeased, TypeOK, TxOrNone, TxnAssumption
  <1>4. CASE PrepareSnapshot(t, k)
    BY <1>4 DEF Prepare, PrepareSnapshot, TypeOK
  <1> QED
    BY <1>3, <1>4 DEF Prepare

(* Preparing never takes the slot of a transaction that may still commit.      *)
LEMMA PrepareTakesFree ==
  ASSUME TypeOK, TxnInv, TxnAssumption, NEW t \in Tx, NEW k \in Key, Prepare(t, k),
         NEW u \in Tx \ {t}, env[k].pend = u,
         u \in Rename \/ man[u] = "preparing"
  PROVE  k \notin Prepared(u)
  <1>1. SUFFICES ASSUME pc[u] \in {"preparing", "deciding"} PROVE FALSE
    BY DEF Prepared
  <1>2. CASE PrepareLeased(t, k)
    BY <1>2 DEF PrepareLeased, TxnAssumption
  <1>3. CASE PrepareSnapshot(t, k)
    <2>1. t \in Rename /\ seen[t][k].gen.pend = u /\ HasRead(t, k)
      BY <1>3 DEF Prepare, PrepareSnapshot, HasRead, TxnInv, PhaseAgrees, TypeOK
    <2>2. u \in Committed \/ Aborted(u)
      BY <2>1 DEF TxnInv, SnapshotSound, Aborted
    <2>3. u \notin Committed /\ ~Aborted(u)
      BY <1>1 DEF TxnInv, PhaseAgrees, DecisionKept, Committed, Aborted, TypeOK, Status, Leased
    <2> QED
      BY <2>2, <2>3
  <1> QED
    BY <1>2, <1>3 DEF Prepare

-----------------------------------------------------------------------------
(* Protocol, one action at a time.                                             *)

LEMMA BeginProtocol ==
  ASSUME TypeOK, TxnInv, TxnAssumption, NEW t \in Tx, Begin(t)
  PROVE  Protocol'
  <1> USE DEF TxnAssumption, TypeOK, TxnInv, Begin, Goto
  <1>1. PendingOwned'
    BY DEF PendingOwned, Envelope, TxOrNone
  <1>2. PreparedHeld'
    BY SMTT(30) DEF PreparedHeld, Prepared, PendingOwned, PhaseAgrees, Leased
  <1>3. PhaseAgrees'
    BY SMTT(30) DEF PhaseAgrees, Decision, Committed, Leased, Status, Phase
  <1>4. DecisionKept'
    BY DEF DecisionKept, PhaseAgrees, PendingOwned, Status, Phase, Leased
  <1>5. LateStopped'
    BY DEF LateStopped, Committed, Leased, PhaseAgrees
  <1> QED
    BY <1>1, <1>2, <1>3, <1>4, <1>5 DEF Protocol

LEMMA ReadProtocol ==
  ASSUME TypeOK, TxnInv, TxnAssumption, NEW t \in Tx, NEW k \in Key, Read(t, k)
  PROVE  Protocol'
  <1>1. /\ pc[t] = "building" /\ todo' = [todo EXCEPT ![t] = @ \ {k}]
        /\ UNCHANGED <<man, jnl, late, pc>>
    BY ReadEffect
  <1>2. \A j \in Key : \/ env'[j] = env[j]
                      \/ /\ env[j].pend \in Tx /\ Decision(env[j].pend) = "committed"
                         /\ env'[j].pend = NoTx
    BY ReadEffect DEF TypeOK
  <1>3. UNCHANGED Committed /\ \A u \in Tx : Decision(u)' = Decision(u)
    BY <1>1 DEF Committed, Decision
  <1>4. PendingOwned'
    BY <1>1, <1>2 DEF PendingOwned, TxnInv, TxnAssumption
  <1>5. PreparedHeld'
    <2> SUFFICES ASSUME NEW u \in Tx, u \in Rename \/ man[u] = "preparing",
                        NEW j \in Prepared(u)'
                 PROVE  env'[j].pend = u
      BY <1>1 DEF PreparedHeld
    <2>1. j \in Prepared(u) /\ j \in Key /\ pc[u] \in {"preparing", "deciding"}
      BY <1>1 DEF Prepared, TypeOK, TxnAssumption
    <2>2. env[j].pend = u /\ Decision(u) # "committed"
      BY <2>1 DEF TxnInv, PreparedHeld, PhaseAgrees, Decision, Leased
    <2> QED
      BY <1>2, <2>1, <2>2
  <1>6. PhaseAgrees'
    BY <1>1, <1>3 DEF PhaseAgrees, TxnInv, TypeOK
  <1>7. DecisionKept'
    BY <1>1, <1>2 DEF DecisionKept, TxnInv, TxnAssumption
  <1>8. LateStopped'
    BY <1>1, <1>3 DEF LateStopped, TxnInv
  <1> QED
    BY <1>4, <1>5, <1>6, <1>7, <1>8 DEF Protocol

LEMMA PrepareProtocol ==
  ASSUME TypeOK, TxnInv, TxnAssumption, NEW t \in Tx, NEW k \in Key, Prepare(t, k)
  PROVE  Protocol'
  <1>1. /\ pc[t] = "preparing" /\ k \in Parts[t]
        /\ todo' = [todo EXCEPT ![t] = @ \ {k}]
        /\ UNCHANGED <<man, jnl, late, pc>>
        /\ env'[k].pend = t /\ \A j \in Key \ {k} : env'[j] = env[j]
    <2>1. pc[t] = "preparing" /\ k \in todo[t]
      BY PrepareEffect
    <2>2. k \in Parts[t]
      BY <2>1 DEF TxnInv, PhaseAgrees
    <2> QED
      BY <2>1, <2>2, PrepareEffect
  <1>2. UNCHANGED Committed /\ \A u \in Tx : Decision(u)' = Decision(u)
    BY <1>1 DEF Committed, Decision
  <1>3. PendingOwned'
    BY <1>1 DEF PendingOwned, TxnInv
  <1>4. PreparedHeld'
    <2> SUFFICES ASSUME NEW u \in Tx, u \in Rename \/ man[u] = "preparing",
                        NEW j \in Prepared(u)'
                 PROVE  env'[j].pend = u
      BY <1>1 DEF PreparedHeld
    <2>1. CASE j = k
      <3>1. CASE u # t
        <4>1. k \in Prepared(u)
          BY <1>1, <2>1, <3>1 DEF Prepared, TypeOK
        <4>2. env[k].pend = u
          BY <4>1 DEF TxnInv, PreparedHeld
        <4> QED
          BY <3>1, <4>1, <4>2, PrepareTakesFree
      <3> QED
        BY <1>1, <2>1, <3>1
    <2>2. CASE j # k
      <3>1. j \in Prepared(u) /\ j \in Key
        BY <1>1, <2>2 DEF Prepared, TypeOK, TxnAssumption
      <3>2. env[j].pend = u
        BY <3>1 DEF TxnInv, PreparedHeld
      <3> QED
        BY <1>1, <2>2, <3>1, <3>2
    <2> QED
      BY <2>1, <2>2
  <1>5. PhaseAgrees'
    BY <1>1, <1>2 DEF PhaseAgrees, TxnInv, TypeOK
  <1>6. DecisionKept'
    <2>1. ASSUME NEW u \in Tx, u # t
          PROVE  (\A j \in Key : env[j].pend # u) => \A j \in Key : env'[j].pend # u
      BY <1>1, <2>1
    <2>2. pc[t] # "unsure" /\ (jnl[t] = "none" \/ man[t] = "none" \/ man[t] = jnl[t])
      BY <1>1 DEF TxnInv, DecisionKept, PhaseAgrees, Committed, TypeOK, Status
    <2> QED
      BY <1>1, <2>1, <2>2 DEF DecisionKept, TxnInv
  <1>7. LateStopped'
    BY <1>1, <1>2 DEF LateStopped, TxnInv
  <1> QED
    BY <1>3, <1>4, <1>5, <1>6, <1>7 DEF Protocol

LEMMA RunProtocol ==
  ASSUME TypeOK, TxnInv, TxnAssumption, NoStalls, NEW t \in Tx, Run(t)
  PROVE  Protocol'
  <1> USE DEF TxnAssumption, TypeOK, TxnInv, Protocol, Leased, Status, Phase
  <1> USE DEF PendingOwned, PreparedHeld, PhaseAgrees, DecisionKept, LateStopped
  <1> USE DEF Prepared, Committed, Decision, Envelope, TxOrNone, Goto, Leave
  <1>1. CASE Begin(t)
    BY <1>1, BeginProtocol
  <1>2. CASE Acquire(t)
    BY <1>2, SMTT(60) DEF Acquire
  <1>3. CASE Acquired(t)
    BY <1>3, SMTT(60) DEF Acquired
  <1>4. CASE Plan(t)
    BY <1>4, SMTT(60) DEF Plan
  <1>5. CASE Verify(t)
    BY <1>5, SMTT(60) DEF Verify
  <1>6. CASE Commit(t)
    BY <1>6, SMTT(60) DEF Commit
  <1>7. CASE Resolve(t)
    BY <1>7, SMTT(60) DEF Resolve
  <1>8. CASE Fail(t)
    BY <1>8, SMTT(60) DEF Fail
  <1>9. CASE Release(t)
    BY <1>9, SMTT(60) DEF Release
  <1>10. CASE Released(t)
    BY <1>10, SMTT(60) DEF Released
  <1>11. CASE Crash(t)
    BY <1>11, SMTT(60) DEF Crash
  <1>12. ASSUME NEW k \in Key, Read(t, k) PROVE Protocol'
    BY <1>12, ReadProtocol
  <1>13. ASSUME NEW k \in Key, Prepare(t, k) PROVE Protocol'
    BY <1>13, PrepareProtocol
  <1> QED
    BY <1>1, <1>2, <1>3, <1>4, <1>5, <1>6, <1>7, <1>8, <1>9, <1>10, <1>11,
       <1>12, <1>13 DEF Run

LEMMA OtherProtocol ==
  ASSUME TypeOK, TxnInv, TxnAssumption, NoStalls, Next, \A t \in Tx : ~Run(t)
  PROVE  Protocol'
  <1> USE DEF TxnAssumption, TypeOK, TxnInv, Protocol, Leased, Status, Phase
  <1> USE DEF PendingOwned, PreparedHeld, PhaseAgrees, DecisionKept, LateStopped
  <1> USE DEF Prepared, Committed, Decision, Envelope, TxOrNone
  <1>1. ASSUME NEW t \in Tx, DeadlinePasses(t) PROVE Protocol'
    BY <1>1, SMTT(60) DEF DeadlinePasses, NoStalls
  <1>2. ASSUME NEW t \in Tx, ForceAbort(t) PROVE Protocol'
    BY <1>2, SMTT(60) DEF ForceAbort
  <1>3. ASSUME NEW t \in Tx, Archive(t) PROVE Protocol'
    BY <1>3, SMTT(60) DEF Archive
  <1>4. ASSUME NEW t \in Tx, Unlink(t) PROVE Protocol'
    BY <1>4, SMTT(60) DEF Unlink
  <1>5. ASSUME NEW r \in Resource, LeaseExpires(r) PROVE Protocol'
    BY <1>5, SMTT(60) DEF LeaseExpires
  <1>6. ASSUME NEW k \in Key, Settle(k) PROVE Protocol'
    BY <1>6, SMTT(60) DEF Settle, Settled, View, PendingWon, Decided
  <1>7. ASSUME NEW k \in Key, Discard(k) PROVE Protocol'
    BY <1>7, SMTT(60) DEF Discard
  <1> HIDE DEF Protocol
  <1> QED
    BY <1>1, <1>2, <1>3, <1>4, <1>5, <1>6, <1>7 DEF Next, Upkeep

-----------------------------------------------------------------------------
(* SnapshotSound and BuiltOnCurrent, and the theorem.                          *)

LEMMA SnapshotKept ==
  ASSUME TypeOK, TxnInv, TxnAssumption, Next
  PROVE  SnapshotSound'
  <1> USE DEF TxnInv
  <1>1. Rename \cup Fenced \subseteq Tx
    BY DEF TxnAssumption
  <1>2. ASSUME NEW t \in Tx, NEW k \in Key, Read(t, k) PROVE SnapshotSound'
    BY <1>2, ReadSnapshotSound
  <1>3. ASSUME NEW t \in Tx, NEW k \in Key, Prepare(t, k) PROVE SnapshotSound'
    <2>1. \A u \in Tx, j \in Key : HasRead(u, j)' => HasRead(u, j) /\ seen'[u][j] = seen[u][j]
      <3>1. /\ pc[t] = "preparing" /\ UNCHANGED <<seen, pc>>
            /\ todo' = [todo EXCEPT ![t] = @ \ {k}]
        BY <1>3, PrepareEffect
      <3> QED
        BY <3>1 DEF HasRead, TypeOK
    <2>2. UNCHANGED <<man, jnl>>
      BY <1>3, PrepareEffect
    <2> QED
      BY <1>1, <2>1, <2>2, SnapshotStable DEF Committed, Aborted
  <1>4. ASSUME NEW t \in Tx, Run(t), \A k \in Key : ~Read(t, k) /\ ~Prepare(t, k)
        PROVE  SnapshotSound'
    <2>1. \A u \in Tx, j \in Key : HasRead(u, j)' => HasRead(u, j) /\ seen'[u][j] = seen[u][j]
      <3> USE DEF TypeOK, HasRead, Goto, Leave, TxnAssumption
      <3>1. CASE Begin(t)
        BY <3>1 DEF Begin
      <3>2. CASE Acquire(t)
        BY <3>2 DEF Acquire
      <3>3. CASE Acquired(t) \/ Plan(t) \/ Verify(t)
        BY <3>3 DEF Acquired, Plan, Verify
      <3>4. CASE Commit(t) \/ Resolve(t) \/ Released(t)
        BY <3>4 DEF Commit, Resolve, Released
      <3>5. CASE Fail(t) \/ Crash(t)
        BY <3>5 DEF Fail, Crash
      <3>6. CASE Release(t)
        BY <3>6 DEF Release
      <3> QED
        BY <1>4, <3>1, <3>2, <3>3, <3>4, <3>5, <3>6 DEF Run
    <2> QED
      BY <1>1, <1>4, <2>1, DecisionsStand, SnapshotStable
  <1>5. ASSUME NEW t \in Tx, DeadlinePasses(t) \/ Upkeep(t) PROVE SnapshotSound'
    <2>1. \A u \in Tx, j \in Key : HasRead(u, j)' => HasRead(u, j) /\ seen'[u][j] = seen[u][j]
      BY <1>5 DEF DeadlinePasses, Upkeep, ForceAbort, Archive, Unlink, HasRead
    <2> QED
      BY <1>1, <1>5, <2>1, DecisionsStand, SnapshotStable
  <1>6. ASSUME UNCHANGED <<man, jnl, seen, todo, pc>> PROVE SnapshotSound'
    BY <1>1, <1>6, SnapshotStable DEF HasRead, Committed, Aborted
  <1>7. ASSUME NEW r \in Resource, LeaseExpires(r) PROVE SnapshotSound'
    BY <1>6, <1>7 DEF LeaseExpires
  <1>8. ASSUME NEW k \in Key, Settle(k) \/ Discard(k) PROVE SnapshotSound'
    BY <1>6, <1>8 DEF Settle, Discard
  <1> QED
    BY <1>2, <1>3, <1>4, <1>5, <1>7, <1>8 DEF Next

LEMMA BuiltStable ==
  ASSUME TypeOK, TxnInv, TxnAssumption,
         \A t \in Rename \cup Fenced, k \in Key :
            /\ k \in Prepared(t)' => k \in Prepared(t) /\ seen'[t][k] = seen[t][k]
            /\ k \in Prepared(t)' /\ man'[t] = "preparing" => man[t] = "preparing",
         \A k \in Key : env'[k].cur # env[k].cur => env[k].pend \notin Tx \/ Decided(env[k].pend)
  PROVE  BuiltOnCurrent'
  <1> SUFFICES ASSUME NEW t \in Rename \cup Fenced, t \in Rename \/ man'[t] = "preparing",
                      NEW k \in Prepared(t)'
               PROVE  env'[k].cur = seen'[t][k].ver
    BY DEF BuiltOnCurrent
  <1>1. t \in Tx /\ k \in Key
    BY DEF Prepared, TxnAssumption
  <1>2. k \in Prepared(t) /\ seen'[t][k] = seen[t][k] /\ (t \in Rename \/ man[t] = "preparing")
    BY <1>1
  <1>3. env[k].cur = seen[t][k].ver /\ env[k].pend = t
    BY <1>1, <1>2 DEF TxnInv, BuiltOnCurrent, PreparedHeld
  <1>4. ~Decided(t)
    <2>1. pc[t] \in {"preparing", "deciding"}
      BY <1>2 DEF Prepared
    <2>2. t \in Rename => man[t] = "none" /\ jnl[t] = "none"
      BY <1>1, <2>1 DEF TxnInv, PhaseAgrees
    <2> QED
      BY <1>2, <2>2 DEF Decided, Decision
  <1> QED
    BY <1>1, <1>2, <1>3, <1>4

LEMMA PrepareBuilt ==
  ASSUME TypeOK, TxnInv, TxnAssumption, NEW t \in Tx, NEW k \in Key, Prepare(t, k)
  PROVE  BuiltOnCurrent'
  <1>1. /\ pc[t] = "preparing" /\ k \in Parts[t]
        /\ todo' = [todo EXCEPT ![t] = @ \ {k}]
        /\ UNCHANGED <<man, seen, pc>>
        /\ \A j \in Key \ {k} : env'[j] = env[j]
    <2>1. pc[t] = "preparing" /\ k \in todo[t]
      BY PrepareEffect
    <2>2. k \in Parts[t]
      BY <2>1 DEF TxnInv, PhaseAgrees
    <2> QED
      BY <2>1, <2>2, PrepareEffect
  <1> SUFFICES ASSUME NEW u \in Rename \cup Fenced, u \in Rename \/ man[u] = "preparing",
                      NEW j \in Prepared(u)'
               PROVE  env'[j].cur = seen[u][j].ver
    BY <1>1 DEF BuiltOnCurrent
  <1>2. u \in Tx /\ j \in Key
    BY <1>1 DEF Prepared, TxnAssumption
  <1>3. CASE j # k \/ u # t
    <2>1. j \in Prepared(u)
      BY <1>1, <1>2, <1>3 DEF Prepared, TypeOK
    <2>2. env[j].pend = u /\ env[j].cur = seen[u][j].ver
      BY <1>2, <2>1 DEF TxnInv, PreparedHeld, BuiltOnCurrent
    <2>3. j # k
      BY <1>2, <1>3, <2>1, <2>2, PrepareTakesFree
    <2> QED
      BY <1>1, <1>2, <2>2, <2>3
  <1>4. CASE j = k /\ u = t
    <2>1. HasRead(t, k)
      BY <1>1 DEF HasRead
    <2>2. CASE PrepareSnapshot(t, k)
      BY <1>4, <2>2 DEF PrepareSnapshot, TypeOK
    <2>3. CASE PrepareLeased(t, k)
      <3>1. t \in Fenced /\ seen[t][k].gen = env[k] /\ env[k].pend \in {NoTx, t}
        BY <1>4, <2>3 DEF PrepareLeased, Leased
      <3>2. seen[t][k].ver = env[k].cur
        BY <2>1, <3>1 DEF TxnInv, SnapshotSound
      <3>3. env'[k].cur = env[k].cur
        BY <2>3 DEF PrepareLeased, TypeOK, Envelope
      <3> QED
        BY <1>4, <3>2, <3>3
    <2> QED
      BY <2>2, <2>3 DEF Prepare
  <1> QED
    BY <1>3, <1>4

LEMMA BuiltKept ==
  ASSUME TypeOK, TxnInv, TxnAssumption, Next
  PROVE  BuiltOnCurrent'
  <1> DEFINE Stable == \A t \in Rename \cup Fenced, k \in Key :
                         /\ k \in Prepared(t)' => k \in Prepared(t) /\ seen'[t][k] = seen[t][k]
                         /\ k \in Prepared(t)' /\ man'[t] = "preparing" => man[t] = "preparing"
             Kept == \A k \in Key : env'[k].cur # env[k].cur =>
                         env[k].pend \notin Tx \/ Decided(env[k].pend)
  <1>1. Stable /\ Kept => BuiltOnCurrent'
    BY BuiltStable
  <1> HIDE DEF Stable, Kept
  <1>2. UNCHANGED env => Kept
    BY DEF Kept
  <1>3. UNCHANGED <<man, seen, todo, pc>> => Stable
    BY DEF Stable, Prepared
  <1>4. ASSUME NEW t \in Tx, NEW k \in Key, Read(t, k) PROVE BuiltOnCurrent'
    <2>1. Kept
      BY <1>4, ReadEffect DEF Kept, Decided, TypeOK
    <2>2. \A u \in Tx, j \in Key : j \in Prepared(u)' => j \in Prepared(u) /\ u # t
      BY <1>4, ReadEffect DEF Prepared, TypeOK
    <2>3. \A u \in Tx : u # t => seen'[u] = seen[u]
      BY <1>4 DEF Read, ReadVisible, ReadSnapshot, TypeOK
    <2>4. Stable
      BY <1>4, <2>2, <2>3, ReadEffect DEF Stable, TxnAssumption
    <2> QED
      BY <1>1, <2>1, <2>4
  <1>5. ASSUME NEW t \in Tx, NEW k \in Key, Prepare(t, k) PROVE BuiltOnCurrent'
    BY <1>5, PrepareBuilt
  <1>6. ASSUME NEW t \in Tx, Run(t), \A k \in Key : ~Read(t, k) /\ ~Prepare(t, k)
        PROVE  BuiltOnCurrent'
    <2> USE DEF Stable, Prepared, TypeOK, TxnAssumption, Goto, Leave
    <2>1. CASE Begin(t)
      BY <1>1, <1>2, <2>1 DEF Begin
    <2>2. CASE Acquire(t)
      BY <1>1, <1>2, <2>2 DEF Acquire
    <2>3. CASE Acquired(t)
      BY <1>1, <1>2, <2>3 DEF Acquired
    <2>4. CASE Plan(t)
      BY <1>1, <1>2, <2>4 DEF Plan
    <2>5. CASE Verify(t)
      BY <1>1, <1>2, <2>5 DEF Verify
    <2>6. CASE Commit(t)
      BY <1>1, <1>2, <2>6 DEF Commit
    <2>7. CASE Resolve(t) \/ Released(t)
      BY <1>1, <1>2, <2>7 DEF Resolve, Released
    <2>8. CASE Fail(t)
      BY <1>1, <1>2, <2>8 DEF Fail
    <2>9. CASE Crash(t)
      BY <1>1, <1>2, <2>9 DEF Crash
    <2>10. CASE Release(t)
      BY <1>1, <1>2, <2>10 DEF Release
    <2> QED
      BY <1>6, <2>1, <2>2, <2>3, <2>4, <2>5, <2>6, <2>7, <2>8, <2>9, <2>10 DEF Run
  <1>7. ASSUME NEW t \in Tx, DeadlinePasses(t) \/ Upkeep(t) PROVE BuiltOnCurrent'
    <2>1. Stable
      BY <1>7 DEF Stable, Prepared, DeadlinePasses, Upkeep, ForceAbort, Archive, Unlink, TypeOK
    <2>2. UNCHANGED env
      BY <1>7 DEF DeadlinePasses, Upkeep, ForceAbort, Archive, Unlink
    <2> QED
      BY <1>1, <1>2, <2>1, <2>2
  <1>8. ASSUME NEW r \in Resource, LeaseExpires(r) PROVE BuiltOnCurrent'
    BY <1>1, <1>2, <1>3, <1>8 DEF LeaseExpires
  <1>9. ASSUME NEW k \in Key, Settle(k) PROVE BuiltOnCurrent'
    BY <1>1, <1>3, <1>9 DEF Settle, Kept, TypeOK
  <1>10. ASSUME NEW k \in Key, Discard(k) PROVE BuiltOnCurrent'
    <2>1. Kept
      BY <1>10 DEF Discard, Kept, TypeOK, Envelope
    <2> QED
      BY <1>1, <1>3, <1>10, <2>1 DEF Discard
  <1> QED
    BY <1>4, <1>5, <1>6, <1>7, <1>8, <1>9, <1>10 DEF Next

(* TxnInv is inductive: whatever crashes, whoever runs the janitor, whichever  *)
(* reply is lost, what a transaction has prepared stays where it is until its  *)
(* decision, and its decision is final.                                        *)
THEOREM TxnInvariant == NoStalls => (Spec => []TxnInv)
  <1> SUFFICES ASSUME NoStalls PROVE Spec => []TxnInv
    OBVIOUS
  <1> USE TxnAssumption
  <1>1. Init => TxnInv
    BY DEF Init, TxnInv, PendingOwned, PreparedHeld, PhaseAgrees, DecisionKept, LateStopped,
           SnapshotSound, BuiltOnCurrent, HasRead, Prepared, Blank, Leased, Committed, TxnAssumption
  <1>2. TypeOK /\ TxnInv /\ [Next]_vars => TxnInv'
    <2> SUFFICES ASSUME TypeOK, TxnInv, [Next]_vars PROVE TxnInv'
      OBVIOUS
    <2>1. CASE UNCHANGED vars
      BY <2>1 DEF vars, TxnInv, PendingOwned, PreparedHeld, PhaseAgrees, DecisionKept, LateStopped,
                  SnapshotSound, BuiltOnCurrent, HasRead, Prepared, Committed, Decision
    <2>2. CASE Next
      <3>1. Protocol'
        BY <2>2, RunProtocol, OtherProtocol DEF Next
      <3> QED
        BY <2>2, <3>1, SnapshotKept, BuiltKept DEF Protocol, TxnInv
    <2> QED
      BY <2>1, <2>2
  <1> QED
    BY <1>1, <1>2, TypeCorrect, PTL DEF Spec

-----------------------------------------------------------------------------
(* TreeTxn implements AtomicNamespace, and loses no update of a transaction    *)
(* that checks the generations it read: for all participants and transactions. *)

(* A reader gets the pending value exactly when its transaction is committed.  *)
Shown(k) == IF env[k].pend \in Committed THEN env[k].pend ELSE env[k].cur

LEMMA ViewShown == ASSUME TypeOK, TxnInv, NEW k \in Key
                   PROVE  View(k) = Shown(k)
  <1> DEFINE u == env[k].pend
  <1>1. ASSUME u \in Tx PROVE Decision(u) = "committed" <=> u \in Committed
    BY <1>1 DEF Decision, Committed, TxnInv, DecisionKept
  <1>2. u \in Committed => u \in Tx
    BY DEF Committed
  <1> QED
    BY <1>1, <1>2 DEF View, PendingWon, Shown

(* Nothing but Commit changes what a reader of a shard gets.                   *)
LEMMA PrepareKeepsView ==
  ASSUME TypeOK, TxnInv, TxnAssumption, NEW t \in Tx, NEW k \in Key, Prepare(t, k),
         NEW j \in Key
  PROVE  Shown(j)' = Shown(j)
  <1>1. UNCHANGED Committed
    BY DEF Prepare, Committed
  <1>2. CASE j # k
    BY <1>1, <1>2, PrepareEffect DEF Shown
  <1>3. t \notin Committed /\ env'[k].pend = t
    BY PrepareEffect DEF TxnInv, PhaseAgrees, Committed, TypeOK, Leased
  <1>4. CASE j = k /\ PrepareLeased(t, k)
    <2>1. env'[k].cur = env[k].cur /\ env[k].pend \in {NoTx, t}
      BY <1>4 DEF PrepareLeased, TypeOK, Envelope
    <2>2. NoTx \notin Committed
      BY DEF Committed, TxnAssumption
    <2> QED
      BY <1>1, <1>3, <1>4, <2>1, <2>2 DEF Shown
  <1>5. CASE j = k /\ PrepareSnapshot(t, k)
    <2>1. HasRead(t, k) /\ t \in Rename /\ seen[t][k].gen = env[k]
      BY <1>5 DEF Prepare, PrepareSnapshot, HasRead, TxnInv, PhaseAgrees, TypeOK
    <2>2. env[k].pend \in Tx \cup {NoTx}
      BY DEF TypeOK, Envelope, TxOrNone
    <2>3. seen[t][k].ver = Shown(k)
      BY <2>1, <2>2 DEF TxnInv, SnapshotSound, Shown, Committed, TxnAssumption
    <2>4. env'[k].cur = seen[t][k].ver
      BY <1>5 DEF PrepareSnapshot, TypeOK
    <2> QED
      BY <1>1, <1>3, <1>5, <2>3, <2>4 DEF Shown
  <1> QED
    BY <1>2, <1>4, <1>5 DEF Prepare

LEMMA DiscardKeepsView ==
  ASSUME TypeOK, TxnInv, TxnAssumption, NEW k \in Key, Discard(k), NEW j \in Key
  PROVE  Shown(j)' = Shown(j)
  <1>1. UNCHANGED Committed
    BY DEF Discard, Committed
  <1>2. env[k].pend \notin Committed
    BY DEF Discard, TxnInv, LateStopped, PendingOwned, PhaseAgrees, Leased
  <1>3. NoTx \notin Committed
    BY DEF Committed, TxnAssumption
  <1>4. env'[k].cur = env[k].cur /\ env'[k].pend = NoTx /\ (j # k => env'[j] = env[j])
    BY DEF Discard, TypeOK, Envelope
  <1> QED
    BY <1>1, <1>2, <1>3, <1>4 DEF Shown

LEMMA SettleKeepsView ==
  ASSUME TypeOK, TxnInv, TxnAssumption, NEW k \in Key, UNCHANGED <<man, jnl>>,
         env' = [env EXCEPT ![k] = Settled(k)], NEW j \in Key
  PROVE  Shown(j)' = Shown(j)
  <1>1. UNCHANGED Committed /\ NoTx \notin Committed
    BY DEF Committed, TxnAssumption
  <1>2. env'[k].cur = Shown(k) /\ env'[k].pend = NoTx /\ (j # k => env'[j] = env[j])
    BY ViewShown DEF Settled, TypeOK
  <1> QED
    BY <1>1, <1>2 DEF Shown

LEMMA OthersKeepView ==
  ASSUME TypeOK, TxnInv, TxnAssumption, [Next]_vars, \A t \in Tx : ~Commit(t)
  PROVE  Committed' = Committed /\ \A k \in Key : Shown(k)' = Shown(k)
  <1>1. Committed' = Committed
    <2>1. ASSUME NEW t \in Tx, Run(t) \/ DeadlinePasses(t) \/ Upkeep(t)
          PROVE  Committed' = Committed
      BY <2>1, DecisionsStand DEF Committed
    <2>2. ASSUME UNCHANGED <<man, jnl>> PROVE Committed' = Committed
      BY <2>2 DEF Committed
    <2> QED
      BY <2>1, <2>2 DEF Next, LeaseExpires, Settle, Discard, vars
  <1>2. ASSUME UNCHANGED env PROVE \A k \in Key : Shown(k)' = Shown(k)
    BY <1>1, <1>2 DEF Shown
  <1>3. ASSUME NEW t \in Tx, NEW k \in Key, Read(t, k)
        PROVE  \A j \in Key : Shown(j)' = Shown(j)
    <2>1. env' = env \/ env' = [env EXCEPT ![k] = Settled(k)]
      BY <1>3 DEF Read, ReadVisible, ReadSnapshot
    <2> QED
      BY <1>2, <1>3, <2>1, SettleKeepsView DEF Read
  <1>4. ASSUME NEW t \in Tx, Run(t) PROVE \A k \in Key : Shown(k)' = Shown(k)
    <2>1. (\E k \in Key : Read(t, k) \/ Prepare(t, k)) \/ UNCHANGED env
      BY <1>4 DEF Run, Begin, Acquire, Acquired, Plan, Verify, Commit, Resolve, Fail, Release, Released, Crash
    <2> QED
      BY <1>2, <1>3, <2>1, PrepareKeepsView
  <1>5. ASSUME NEW k \in Key, Settle(k) PROVE \A j \in Key : Shown(j)' = Shown(j)
    BY <1>5, SettleKeepsView DEF Settle
  <1>6. ASSUME NEW k \in Key, Discard(k) PROVE \A j \in Key : Shown(j)' = Shown(j)
    BY <1>6, DiscardKeepsView
  <1>7. ASSUME NEW t \in Tx, DeadlinePasses(t) \/ Upkeep(t) PROVE UNCHANGED env
    BY <1>7 DEF DeadlinePasses, Upkeep, ForceAbort, Archive, Unlink
  <1>8. ASSUME NEW r \in Resource, LeaseExpires(r) PROVE UNCHANGED env
    BY <1>8 DEF LeaseExpires
  <1>9. CASE UNCHANGED vars
    BY <1>1, <1>2, <1>9 DEF vars
  <1> QED
    BY <1>1, <1>2, <1>4, <1>5, <1>6, <1>7, <1>8, <1>9 DEF Next

(* Commit publishes all of a transaction's participants at once: they still    *)
(* hold what it prepared, and no other shard does.                             *)
LEMMA CommitPublishes ==
  ASSUME TypeOK, TxnInv, TxnAssumption, NEW t \in Tx, Commit(t)
  PROVE  /\ t \notin Committed /\ Committed' = Committed \cup {t}
         /\ \A k \in Key : Shown(k)' = IF k \in Parts[t] THEN t ELSE Shown(k)
  <1>1. t \notin Committed /\ Committed' = Committed \cup {t} /\ UNCHANGED env
    BY DEF Commit, Committed, TypeOK, TxnInv, PhaseAgrees, Leased
  <1>2. \A k \in Parts[t] : env[k].pend = t
    BY DEF Commit, TxnInv, PreparedHeld, Prepared
  <1>3. \A k \in Key : env[k].pend = t => k \in Parts[t]
    BY DEF TxnInv, PendingOwned
  <1> QED
    BY <1>1, <1>2, <1>3 DEF Shown

(* AtomicPublication for every instance: TreeTxn implements the abstract       *)
(* namespace, so readers see all of a transaction or none of it, from its      *)
(* commit on and for good.                                                     *)
THEOREM Refinement == NoStalls => (Spec => AtomicPublication)
  <1> SUFFICES ASSUME NoStalls PROVE Spec => AtomicPublication
    OBVIOUS
  <1> USE TxnAssumption
  <1>1. Init => Namespace!Init
    BY DEF Init, Namespace!Init, View, PendingWon, Blank, Committed, TxnAssumption
  <1> DEFINE Agree == \A k \in Key : View(k) = Shown(k)
  <1>2. TypeOK /\ TxnInv => Agree
    BY ViewShown
  <1>3. TypeOK /\ TxnInv /\ Agree /\ Agree' /\ [Next]_vars => [Namespace!Next]_Namespace!avars
    <2> SUFFICES ASSUME TypeOK, TxnInv, Agree, Agree', [Next]_vars
                 PROVE  [Namespace!Next]_Namespace!avars
      OBVIOUS
    <2>1. ASSUME NEW t \in Tx, Commit(t) PROVE Namespace!Publish(t)
      BY <2>1, CommitPublishes DEF Namespace!Publish
    <2>2. CASE \A t \in Tx : ~Commit(t)
      BY <2>2, OthersKeepView DEF Namespace!avars
    <2> QED
      BY <2>1, <2>2 DEF Namespace!Next
  <1> HIDE DEF Agree
  <1> QED
    BY <1>1, <1>2, <1>3, TypeCorrect, TxnInvariant, PTL DEF Spec, AtomicPublication, Namespace!Spec

-----------------------------------------------------------------------------
(* Leases.  A transaction that checks no generations loses no update if it     *)
(* shares a lease with every transaction it shares a participant with, and     *)
(* leases outlive the work done under them.                                    *)

Unfenced == Leased \ Fenced
Guarded == \A t \in Unfenced, u \in Tx :
             t # u /\ Parts[t] \cap Parts[u] # {} => Needs[t] \cap Needs[u] # {}

Holds(t) == \A r \in Needs[t] : lease[r] = [owner |-> t, live |-> TRUE]
ReadBefore(t, k) == HasRead(t, k) \/ (pc[t] = "deciding" /\ k \in Parts[t])

(* Leases that were verified are still held, and what was read under leases    *)
(* that are still held is what a reader would get.                             *)
LeasesHeld == \A t \in Leased : pc[t] = "deciding" => Holds(t)
ReadCurrent ==
  \A t \in Unfenced, k \in Key :
    ReadBefore(t, k) /\ Holds(t) => seen[t][k].ver = Shown(k)
LeaseInv == LeasesHeld /\ ReadCurrent

(* A lease a transaction holds it acquired before it began to build.           *)
LEMMA HeldBefore ==
  ASSUME TypeOK, TxnAssumption, [Next]_vars, NEW t \in Tx, pc[t] # "leasing", Holds(t)'
  PROVE  Holds(t)
  <1> SUFFICES ASSUME NEW r \in Needs[t] PROVE lease[r] = [owner |-> t, live |-> TRUE]
    BY DEF Holds
  <1>1. r \in Resource /\ lease'[r] = [owner |-> t, live |-> TRUE]
    BY DEF Holds, TxnAssumption
  <1>2. CASE UNCHANGED lease
    BY <1>1, <1>2
  <1>3. ASSUME NEW u \in Tx, Acquire(u) PROVE lease[r] = [owner |-> t, live |-> TRUE]
    <2>1. u # t
      BY <1>3 DEF Acquire
    <2>2. lease' = [lease EXCEPT ![First(todo[u])] = [owner |-> u, live |-> TRUE]]
      BY <1>3 DEF Acquire
    <2> QED
      BY <1>1, <2>1, <2>2 DEF TypeOK
  <1>4. ASSUME NEW u \in Tx, Release(u) PROVE lease[r] = [owner |-> t, live |-> TRUE]
    <2>1. PICK s \in Resource : lease' = [lease EXCEPT ![s] = Free]
      BY <1>4 DEF Release
    <2>2. lease'[r].owner # NoTx
      BY <1>1 DEF TxnAssumption
    <2> QED
      BY <1>1, <2>1, <2>2 DEF TypeOK, Free
  <1>5. ASSUME NEW s \in Resource, LeaseExpires(s) PROVE lease[r] = [owner |-> t, live |-> TRUE]
    <2>1. lease' = [lease EXCEPT ![s] = [lease[s] EXCEPT !.live = FALSE]]
      BY <1>5 DEF LeaseExpires
    <2>2. lease'[s] = [lease[s] EXCEPT !.live = FALSE] /\ lease[s] \in [owner : TxOrNone, live : BOOLEAN]
      BY <2>1 DEF TypeOK
    <2>3. ~lease'[s].live
      BY <2>2
    <2>4. r # s
      BY <1>1, <2>3
    <2> QED
      BY <1>1, <2>1, <2>4 DEF TypeOK
  <1> QED
    BY <1>2, <1>3, <1>4, <1>5
       DEF Next, Run, Upkeep, Begin, Acquired, Plan, Verify, Commit, Resolve, Fail, Released, Crash,
           Read, Prepare, DeadlinePasses, ForceAbort, Archive, Unlink, Settle, Discard, vars

LEMMA LeasesKept ==
  ASSUME TypeOK, TxnAssumption, "stall" \notin Faults, LeasesHeld, [Next]_vars
  PROVE  LeasesHeld'
  <1> SUFFICES ASSUME NEW t \in Leased, pc'[t] = "deciding", NEW r \in Needs[t]
               PROVE  lease'[r] = [owner |-> t, live |-> TRUE]
    BY DEF LeasesHeld, Holds
  <1>1. t \in Tx /\ r \in Resource
    BY DEF Leased, TxnAssumption
  <1>2. CASE Verify(t)
    BY <1>2 DEF Verify
  <1>3. CASE pc[t] = "deciding"
    <2>1. lease[r] = [owner |-> t, live |-> TRUE]
      BY <1>3 DEF LeasesHeld, Holds
    <2>2. CASE UNCHANGED lease
      BY <2>1, <2>2
    <2>3. ASSUME NEW s, NEW other, s # r, lease' = [lease EXCEPT ![s] = other]
          PROVE  lease'[r] = [owner |-> t, live |-> TRUE]
      BY <2>1, <2>3, <1>1 DEF TypeOK
    <2>4. ASSUME NEW u \in Tx, Acquire(u) PROVE lease'[r] = [owner |-> t, live |-> TRUE]
      <3>1. First(todo[u]) # r
        BY <2>1, <2>4 DEF Acquire
      <3>2. lease' = [lease EXCEPT ![First(todo[u])] = [owner |-> u, live |-> TRUE]]
        BY <2>4 DEF Acquire
      <3> QED
        BY <2>3, <3>1, <3>2
    <2>5. ASSUME NEW u \in Tx, Release(u) PROVE lease'[r] = [owner |-> t, live |-> TRUE]
      <3>1. PICK s \in Resource : lease[s].owner = u /\ lease' = [lease EXCEPT ![s] = Free]
        BY <2>5 DEF Release
      <3>2. pc[u] = "releasing"
        BY <2>5 DEF Release
      <3>3. s # r
        BY <1>3, <2>1, <3>1, <3>2
      <3> QED
        BY <2>3, <3>1, <3>3
    <2>6. ASSUME NEW s \in Resource, LeaseExpires(s) PROVE lease'[r] = [owner |-> t, live |-> TRUE]
      <3>1. pc[lease[s].owner] # "deciding"
        BY <2>6 DEF LeaseExpires
      <3>2. s # r
        BY <1>3, <2>1, <3>1
      <3>3. lease' = [lease EXCEPT ![s] = [lease[s] EXCEPT !.live = FALSE]]
        BY <2>6 DEF LeaseExpires
      <3> QED
        BY <2>3, <3>2, <3>3
    <2> QED
      BY <2>2, <2>4, <2>5, <2>6
         DEF Next, Run, Upkeep, Begin, Acquired, Plan, Verify, Commit, Resolve, Fail, Released, Crash,
             Read, Prepare, DeadlinePasses, ForceAbort, Archive, Unlink, Settle, Discard, vars
  <1>4. pc[t] = "deciding" \/ Verify(t)
    <2>1. ASSUME NEW u \in Tx, Run(u) PROVE pc[t] = "deciding" \/ Verify(t)
      <3>1. u = t \/ pc'[t] = pc[t]
        BY <2>1, <1>1 DEF Run, Begin, Acquire, Acquired, Plan, Verify, Commit, Resolve, Fail, Release,
           Released, Crash, Read, Prepare, Goto, Leave, TypeOK
      <3>2. CASE u = t
        BY <2>1, <3>2, <1>1 DEF Run, Begin, Acquire, Acquired, Plan, Commit, Resolve, Fail, Release,
           Released, Crash, Read, Prepare, Goto, Leave, TypeOK
      <3> QED
        BY <3>1, <3>2
    <2>2. CASE UNCHANGED pc
      BY <2>2
    <2> QED
      BY <2>1, <2>2 DEF Next, Upkeep, DeadlinePasses, ForceAbort, Archive, Unlink, LeaseExpires,
         Settle, Discard, vars
  <1> QED
    BY <1>2, <1>3, <1>4

(* Whatever is read later was read before, but for what Read itself reads.     *)
LEMMA ReadGrows ==
  ASSUME TypeOK, TxnAssumption, TxnInv, [Next]_vars, NEW t \in Leased, NEW k \in Key, ~Read(t, k),
         ReadBefore(t, k)'
  PROVE  ReadBefore(t, k) /\ seen'[t][k] = seen[t][k] /\ ~Commit(t)
  <1>1. t \in Tx
    BY DEF Leased
  <1>2. ASSUME NEW u \in Tx, Run(u), u # t
        PROVE  pc'[t] = pc[t] /\ todo'[t] = todo[t] /\ seen'[t] = seen[t]
    BY <1>1, <1>2 DEF Run, Begin, Acquire, Acquired, Plan, Verify, Commit, Resolve, Fail, Release,
       Released, Crash, Read, ReadVisible, ReadSnapshot, Prepare, Goto, Leave, TypeOK
  <1>3. ASSUME Run(t), \A j \in Key : ~Read(t, j)
        PROVE  ReadBefore(t, k) /\ seen'[t][k] = seen[t][k] /\ ~Commit(t)
    <2> USE <1>1, <1>3 DEF ReadBefore, HasRead, TypeOK, Goto, Leave, Leased
    <2>1. CASE Begin(t) \/ Acquire(t) \/ Acquired(t)
      BY <2>1 DEF Begin, Acquire, Acquired, Commit
    <2>2. CASE Plan(t) \/ Verify(t)
      BY <2>2 DEF Plan, Verify, Commit
    <2>3. CASE Commit(t) \/ Resolve(t) \/ Fail(t) \/ Released(t) \/ Crash(t)
      BY <2>3 DEF Commit, Resolve, Fail, Released, Crash
    <2>4. CASE Release(t)
      BY <2>4 DEF Release
    <2>5. ASSUME NEW j \in Key, Prepare(t, j) PROVE ReadBefore(t, k) /\ seen'[t][k] = seen[t][k] /\ ~Commit(t)
      BY <2>5 DEF Prepare, Commit
    <2> QED
      BY <2>1, <2>2, <2>3, <2>4, <2>5 DEF Run
  <1>4. ASSUME NEW j \in Key, Read(t, j)
        PROVE  ReadBefore(t, k) /\ seen'[t][k] = seen[t][k] /\ ~Commit(t)
    <2>1. j # k
      BY <1>4
    <2>2. pc[t] = "building" /\ pc' = pc /\ todo' = [todo EXCEPT ![t] = @ \ {j}]
      BY <1>1, <1>4, ReadEffect
    <2>3. seen'[t][k] = seen[t][k]
      BY <1>1, <1>4, <2>1 DEF Read, ReadVisible, ReadSnapshot, TypeOK
    <2>4. ~Commit(t)
      BY <2>2 DEF Commit
    <2> QED
      BY <1>1, <2>1, <2>2, <2>3, <2>4 DEF ReadBefore, HasRead, TypeOK
  <1>5. ASSUME UNCHANGED <<pc, todo, seen>>
        PROVE  ReadBefore(t, k) /\ seen'[t][k] = seen[t][k] /\ ~Commit(t)
    BY <1>1, <1>5 DEF ReadBefore, HasRead, Commit, Leave, Goto, TypeOK
  <1>6. ASSUME NEW u \in Tx, Run(u)
        PROVE  ReadBefore(t, k) /\ seen'[t][k] = seen[t][k] /\ ~Commit(t)
    <2>1. CASE u = t
      BY <1>3, <1>4, <1>6, <2>1
    <2>2. CASE u # t
      <3>1. pc'[t] = pc[t] /\ todo'[t] = todo[t] /\ seen'[t] = seen[t]
        BY <1>2, <1>6, <2>2
      <3>2. pc[t] \in {"building", "preparing", "deciding"}
        BY <3>1 DEF ReadBefore, HasRead
      <3>3. ~Commit(t)
        BY <1>1, <3>1, <3>2 DEF Commit, Leave, Goto, TypeOK
      <3> QED
        BY <3>1, <3>3 DEF ReadBefore, HasRead
    <2> QED
      BY <2>1, <2>2
  <1> QED
    BY <1>5, <1>6 DEF Next, Upkeep, DeadlinePasses, ForceAbort, Archive, Unlink, LeaseExpires,
       Settle, Discard, vars

LEMMA ReadsKept ==
  ASSUME TypeOK, TxnAssumption, TxnInv, Guarded, LeaseInv, [Next]_vars
  PROVE  ReadCurrent'
  <1> SUFFICES ASSUME NEW t \in Unfenced, NEW k \in Key, ReadBefore(t, k)', Holds(t)'
               PROVE  seen'[t][k].ver = Shown(k)'
    BY DEF ReadCurrent
  <1>1. t \in Tx /\ t \in Leased /\ t \notin Fenced
    BY DEF Unfenced, Leased
  <1>2. CASE Read(t, k)
    <2>1. seen'[t][k].ver = View(k)
      BY <1>1, <1>2 DEF Read, ReadVisible, ReadSnapshot, TypeOK
    <2>2. \A u \in Tx : ~Commit(u)
      <3> SUFFICES ASSUME NEW u \in Tx, Commit(u) PROVE FALSE
        OBVIOUS
      <3>1. pc'[u] # pc[u]
        BY DEF Commit, Leave, Goto, TypeOK
      <3> QED
        BY <1>2, <3>1 DEF Read
    <2>3. Shown(k)' = Shown(k)
      BY <2>2, OthersKeepView
    <2> QED
      BY <2>1, <2>3, ViewShown
  <1>3. CASE ~Read(t, k)
    <2>1. ReadBefore(t, k) /\ seen'[t][k] = seen[t][k] /\ ~Commit(t)
      BY <1>1, <1>3, ReadGrows
    <2>2. k \in Parts[t] /\ pc[t] # "leasing"
      BY <2>1 DEF ReadBefore, HasRead
    <2>3. Holds(t)
      BY <1>1, <2>2, HeldBefore
    <2>4. seen[t][k].ver = Shown(k)
      BY <2>1, <2>3 DEF LeaseInv, ReadCurrent
    <2>5. ASSUME NEW u \in Tx, Commit(u) PROVE Shown(k)' = Shown(k)
      <3>1. u # t
        BY <2>1, <2>5
      <3>2. Holds(u)
        <4>1. CASE u \in Leased
          BY <2>5, <4>1 DEF Commit, LeaseInv, LeasesHeld, Leased
        <4>2. CASE u \in Rename
          BY <4>2 DEF Holds, TxnAssumption
        <4> QED
          BY <4>1, <4>2 DEF Leased
      <3>3. Needs[t] \cap Needs[u] = {}
        <4> SUFFICES ASSUME NEW r \in Needs[t] \cap Needs[u] PROVE FALSE
          OBVIOUS
        <4>1. lease[r].owner = t /\ lease[r].owner = u
          BY <2>3, <3>2 DEF Holds
        <4> QED
          BY <3>1, <4>1
      <3>4. k \notin Parts[u]
        BY <2>2, <3>1, <3>3 DEF Guarded
      <3> QED
        BY <2>5, <3>4, CommitPublishes
    <2>6. Shown(k)' = Shown(k)
      BY <2>5, OthersKeepView
    <2> QED
      BY <2>1, <2>4, <2>6
  <1> QED
    BY <1>2, <1>3

LEMMA LeaseInvariant == "stall" \notin Faults /\ Guarded => (Spec => []LeaseInv)
  <1> SUFFICES ASSUME "stall" \notin Faults, Guarded PROVE Spec => []LeaseInv
    OBVIOUS
  <1> USE TxnAssumption
  <1>1. Init => LeaseInv
    BY DEF Init, LeaseInv, LeasesHeld, ReadCurrent, ReadBefore, HasRead, Leased, Unfenced
  <1>2. TypeOK /\ TxnInv /\ LeaseInv /\ [Next]_vars => LeaseInv'
    BY LeasesKept, ReadsKept DEF LeaseInv
  <1>3. NoStalls
    BY DEF NoStalls
  <1> QED
    BY <1>1, <1>2, <1>3, TypeCorrect, TxnInvariant, PTL DEF Spec

(* What a transaction that checks generations replaces when it commits is what *)
(* it read.                                                                    *)
LEMMA CheckerReplacesRead ==
  ASSUME TypeOK, TxnInv, TxnAssumption, NEW t \in Rename \cup Fenced, Commit(t),
         NEW k \in Parts[t]
  PROVE  seen[t][k].ver = View(k)
  <1>1. k \in Key /\ t \in Tx
    BY DEF TxnAssumption
  <1>2. k \in Prepared(t) /\ (t \in Rename \/ man[t] = "preparing")
    BY DEF Commit, Prepared
  <1>3. env[k].cur = seen[t][k].ver /\ env[k].pend = t
    BY <1>2 DEF TxnInv, BuiltOnCurrent, PreparedHeld
  <1> QED
    BY <1>1, <1>3, CommitPublishes, ViewShown DEF Shown

LEMMA OneCommits ==
  ASSUME TypeOK, TxnInv, TxnAssumption, [Next]_vars, NEW t \in Committed' \ Committed
  PROVE  t \in Tx /\ Commit(t)
  <1>1. ASSUME NEW u \in Tx, Commit(u) PROVE Committed' = Committed \cup {u}
    BY <1>1, CommitPublishes
  <1>2. CASE \A u \in Tx : ~Commit(u)
    BY <1>2, OthersKeepView
  <1> QED
    BY <1>1, <1>2

(* NoLostUpdate of the transactions that compare the generations they read     *)
(* (same-parent renames and renamePath), whatever the others do and even if no *)
(* lease is worth anything: what one of them replaces is what it read.         *)
THEOREM CheckersLoseNoUpdate ==
  NoStalls => (Spec => [][\A t \in (Committed' \ Committed) \cap (Rename \cup Fenced) :
                             \A k \in Parts[t] : seen[t][k].ver = View(k)]_vars)
  <1> SUFFICES ASSUME NoStalls
               PROVE  Spec => [][\A t \in (Committed' \ Committed) \cap (Rename \cup Fenced) :
                                    \A k \in Parts[t] : seen[t][k].ver = View(k)]_vars
    OBVIOUS
  <1> USE TxnAssumption
  <1> DEFINE Replaces == \A t \in (Committed' \ Committed) \cap (Rename \cup Fenced) :
                            \A k \in Parts[t] : seen[t][k].ver = View(k)
  <1>1. TypeOK /\ TxnInv /\ [Next]_vars => Replaces
    BY CheckerReplacesRead, OneCommits
  <1> QED
    BY <1>1, TypeCorrect, TxnInvariant, PTL DEF Spec

(* What any transaction replaces is what it read, where leases protect those   *)
(* that check nothing.                                                         *)
LEMMA ReplacesRead ==
  ASSUME TypeOK, TxnInv, TxnAssumption, LeaseInv, [Next]_vars
  PROVE  \A t \in Committed' \ Committed : \A k \in Parts[t] : seen[t][k].ver = View(k)
  <1>1. ASSUME NEW t \in Tx, Commit(t), NEW k \in Parts[t] PROVE seen[t][k].ver = View(k)
    <2>1. k \in Key
      BY DEF TxnAssumption
    <2>2. CASE t \in Unfenced
      <3>1. ReadBefore(t, k) /\ Holds(t)
        BY <1>1, <2>2 DEF Commit, ReadBefore, LeaseInv, LeasesHeld, Unfenced, Leased
      <3> QED
        BY <2>1, <2>2, <3>1, ViewShown DEF LeaseInv, ReadCurrent
    <2>3. CASE t \in Rename \cup Fenced
      BY <1>1, <2>3, CheckerReplacesRead
    <2> QED
      BY <2>2, <2>3 DEF Unfenced, Leased
  <1> QED
    BY <1>1, OneCommits

(* NoLostUpdate of all, also of those that compare nothing (replaceFile,       *)
(* deletePath and the others) while leases outlive their work: such a          *)
(* transaction is protected by its leases from those it shares one with, and   *)
(* so must share one with whoever shares a participant with it.                *)
THEOREM LeasesLoseNoUpdate ==
  "stall" \notin Faults /\ Guarded => (Spec => NoLostUpdate)
  <1> SUFFICES ASSUME "stall" \notin Faults, Guarded PROVE Spec => NoLostUpdate
    OBVIOUS
  <1> USE TxnAssumption
  <1> DEFINE Replaces == \A t \in Committed' \ Committed :
                            \A k \in Parts[t] : seen[t][k].ver = View(k)
  <1>1. TypeOK /\ TxnInv /\ LeaseInv /\ [Next]_vars => Replaces
    BY ReplacesRead
  <1>2. NoStalls
    BY DEF NoStalls
  <1> QED
    BY <1>1, <1>2, TypeCorrect, TxnInvariant, LeaseInvariant, PTL DEF Spec, NoLostUpdate
=============================================================================
