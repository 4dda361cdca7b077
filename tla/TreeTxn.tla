------------------------------ MODULE TreeTxn ------------------------------
(* The transaction protocol of the v4 metadata namespace                       *)
(* (internal/db/tree_v4.go).  Metadata lives in an object store that offers    *)
(* only conditional writes on one object.  A mutation of several objects goes  *)
(* through three kinds of object:                                              *)
(*   - a participant holds an envelope: its current value and at most one      *)
(*     pending value, tagged with the transaction that wrote it;               *)
(*   - a manifest under transactions/active/ holds the transaction's status,   *)
(*     and its copy under journal/ outlives it;                                *)
(*   - a lease per resource serialises the transactions that ask for it.       *)
(* Same-parent renames skip leases and write no manifest before their          *)
(* decision.  A value is named by the transaction that wrote it, and a         *)
(* generation by the content it stands for (what the local backend does; on    *)
(* GCS generations only distinguish more), so every conditional write is one   *)
(* atomic step whose guard compares contents.                                  *)
EXTENDS Integers, FiniteSets

CONSTANTS
  Key,       \* participant objects, numbered in the order of their keys
  Resource,  \* lease resources, numbered in acquisition order
  Tx,        \* transaction ids: one per attempt, a retry draws a fresh one
  NoTx,      \* no transaction: the writer of initial values
  Rename,    \* the ids drawn by renameSameParentOptimisticAttempts
  Fenced,    \* leased ids whose mutations set enforceGeneration (renamePath)
  Parts,     \* Parts[t]: the participants t writes
  Needs,     \* Needs[t]: the resources t leases (none for a rename)
  Faults     \* faults beyond crashes and conflicts: "stall", "lost_reply"

ASSUME TxnAssumption ==
  /\ Key \subseteq Nat /\ Resource \subseteq Nat
  /\ NoTx \notin Tx
  /\ Rename \subseteq Tx
  /\ Fenced \subseteq Tx \ Rename
  /\ Parts \in [Tx -> SUBSET Key]
  /\ Needs \in [Tx -> SUBSET Resource]
  /\ \A t \in Rename : Needs[t] = {}
  /\ Faults \subseteq {"stall", "lost_reply"}

VARIABLES
  env,    \* env[k]: the envelope stored at participant k
  man,    \* man[t]: status in t's active manifest, "none" when there is none
  jnl,    \* jnl[t]: status in t's journal copy, "none" when there is none
  lease,  \* lease[r]: the lease object of resource r
  late,   \* transactions whose LeaseUntil has passed
  seen,   \* seen[t][k]: version t built on and generation it read it at
  todo,   \* todo[t]: what is left of t's phase: resources, then keys
  pc      \* pc[t]: phase of the process that runs t

vars == <<env, man, jnl, lease, late, seen, todo, pc>>

TxOrNone == Tx \cup {NoTx}
Envelope == [cur : TxOrNone, pend : TxOrNone]
Snapshot == [ver : TxOrNone, gen : Envelope]
Status == {"none", "preparing", "committed", "aborted"}
Phase == {"idle", "leasing", "building", "preparing", "deciding", "unsure",
          "releasing", "done", "crashed"}

Blank == [cur |-> NoTx, pend |-> NoTx]
Free == [owner |-> NoTx, live |-> FALSE]

Leased == Tx \ Rename

(* readTransactionDecision: the active manifest wins over the journal copy.    *)
Decision(t) == IF man[t] # "none" THEN man[t] ELSE jnl[t]

Decided(t) == Decision(t) \in {"committed", "aborted"}

(* visibleEnvelope: a pending value counts once its transaction is committed.  *)
PendingWon(k) == env[k].pend \in Tx /\ Decision(env[k].pend) = "committed"

View(k) == IF PendingWon(k) THEN env[k].pend ELSE env[k].cur

Settled(k) == [cur |-> View(k), pend |-> NoTx]

Unread == [k \in Key |-> [ver |-> NoTx, gen |-> Blank]]

First(S) == CHOOSE x \in S : \A y \in S : x <= y

Init ==
  /\ env = [k \in Key |-> Blank]
  /\ man = [t \in Tx |-> "none"]
  /\ jnl = [t \in Tx |-> "none"]
  /\ lease = [r \in Resource |-> Free]
  /\ late = {}
  /\ seen = [t \in Tx |-> Unread]
  /\ todo = [t \in Tx |-> {}]
  /\ pc = [t \in Tx |-> "idle"]

Goto(t, phase, work) == /\ pc' = [pc EXCEPT ![t] = phase]
                        /\ todo' = [todo EXCEPT ![t] = work]

(* The last phases need nothing of what was read.                              *)
Leave(t, phase) == /\ Goto(t, phase, {})
                   /\ seen' = [seen EXCEPT ![t] = Unread]

-----------------------------------------------------------------------------
(* The process that runs a transaction.                                        *)

(* transactOnce writes the manifest before it asks for leases; a rename only   *)
(* draws an id and a deadline.                                                 *)
Begin(t) ==
  /\ pc[t] = "idle"
  /\ \/ /\ t \in Leased
        /\ man' = [man EXCEPT ![t] = "preparing"]
        /\ Goto(t, "leasing", Needs[t])
     \/ /\ t \in Rename
        /\ Goto(t, "building", Parts[t])
        /\ UNCHANGED man
  /\ UNCHANGED <<env, jnl, lease, late, seen>>

(* Mutant: a lease is taken only when it is free, never taken over.            *)
AcquireFreeOnly(t) ==
  /\ pc[t] = "leasing" /\ todo[t] # {}
  /\ LET r == First(todo[t])
     IN /\ lease[r].owner = NoTx
        /\ lease' = [lease EXCEPT ![r] = [owner |-> t, live |-> TRUE]]
        /\ todo' = [todo EXCEPT ![t] = @ \ {r}]
  /\ UNCHANGED <<env, man, jnl, late, seen, pc>>

(* acquireLease, one resource at a time in sorted order: waits while another   *)
(* owner's lease is unexpired, takes over a missing or expired one.            *)
Acquire(t) ==
  /\ pc[t] = "leasing" /\ todo[t] # {}
  /\ LET r == First(todo[t])
     IN /\ ~lease[r].live
        /\ lease' = [lease EXCEPT ![r] = [owner |-> t, live |-> TRUE]]
        /\ todo' = [todo EXCEPT ![t] = @ \ {r}]
  /\ UNCHANGED <<env, man, jnl, late, seen, pc>>

Acquired(t) ==
  /\ pc[t] = "leasing" /\ todo[t] = {}
  /\ Goto(t, "building", Parts[t])
  /\ UNCHANGED <<env, man, jnl, lease, late, seen>>

(* A leased build reads through visibleEnvelope, which also tries to promote   *)
(* a committed pending value and reports the promoted generation when it could.*)
(* Only Fenced transactions keep the generation.                               *)
ReadVisible(t, k) ==
  /\ t \in Leased
  /\ \/ env' = env
     \/ PendingWon(k) /\ env' = [env EXCEPT ![k] = Settled(k)]
  /\ seen' = [seen EXCEPT ![t][k] = [ver |-> View(k),
                                     gen |-> IF t \in Fenced THEN env'[k] ELSE Blank]]

(* readShardMutationSnapshot: an undecided pending value is a conflict, or is  *)
(* normalised first; a decided one is resolved in memory and left in place.    *)
ReadSnapshot(t, k) ==
  /\ t \in Rename
  /\ env[k].pend \in Tx => Decided(env[k].pend)
  /\ seen' = [seen EXCEPT ![t][k] = [ver |-> View(k), gen |-> env[k]]]
  /\ UNCHANGED env

Read(t, k) ==
  /\ pc[t] = "building" /\ k \in todo[t]
  /\ ReadVisible(t, k) \/ ReadSnapshot(t, k)
  /\ todo' = [todo EXCEPT ![t] = @ \ {k}]
  /\ UNCHANGED <<man, jnl, lease, late, pc>>

(* The new values are computed; a leased transaction records its participants  *)
(* in the manifest, which fails when somebody has aborted it meanwhile.        *)
Plan(t) ==
  /\ pc[t] = "building" /\ todo[t] = {}
  /\ t \in Leased => man[t] = "preparing"
  /\ Goto(t, "preparing", Parts[t])
  /\ UNCHANGED <<env, man, jnl, lease, late, seen>>

(* Mutant: what another transaction left pending is overwritten unnormalised.  *)
PrepareOverPending(t, k) ==
  /\ t \in Leased
  /\ k = First(todo[t])
  /\ t \in Fenced => env[k] = seen[t][k].gen
  /\ env' = [env EXCEPT ![k].pend = t]

(* Mutant: enforceGeneration is not honoured.                                  *)
PrepareUnfenced(t, k) ==
  /\ t \in Leased
  /\ k = First(todo[t])
  /\ env[k].pend \in {NoTx, t}
  /\ env' = [env EXCEPT ![k].pend = t]

(* prepareMutation: the pending slot must be free or its own; what others left *)
(* there is normalised first.  Only Fenced mutations compare the generation    *)
(* the value was built on.                                                     *)
PrepareLeased(t, k) ==
  /\ t \in Leased
  /\ k = First(todo[t])
  /\ env[k].pend \in {NoTx, t}
  /\ t \in Fenced => env[k] = seen[t][k].gen
  /\ env' = [env EXCEPT ![k].pend = t]

(* prepareShardSnapshot: one write, conditional on the snapshot's generation,  *)
(* folds the resolved value into Current and adds the pending one.             *)
PrepareSnapshot(t, k) ==
  /\ t \in Rename
  /\ env[k] = seen[t][k].gen
  /\ env' = [env EXCEPT ![k] = [cur |-> seen[t][k].ver, pend |-> t]]

Prepare(t, k) ==
  /\ pc[t] = "preparing" /\ k \in todo[t]
  /\ PrepareLeased(t, k) \/ PrepareSnapshot(t, k)
  /\ todo' = [todo EXCEPT ![t] = @ \ {k}]
  /\ UNCHANGED <<man, jnl, lease, late, seen, pc>>

(* Mutant: leases are not verified again before the decision.                  *)
VerifySkipped(t) ==
  /\ t \in Leased
  /\ pc[t] = "preparing" /\ todo[t] = {}
  /\ Goto(t, "deciding", {})
  /\ UNCHANGED <<env, man, jnl, lease, late, seen>>

(* verifyLeases: every lease is still the one acquired, and unexpired.         *)
Verify(t) ==
  /\ t \in Leased
  /\ pc[t] = "preparing" /\ todo[t] = {}
  /\ \A r \in Needs[t] : lease[r] = [owner |-> t, live |-> TRUE]
  /\ Goto(t, "deciding", {})
  /\ UNCHANGED <<env, man, jnl, lease, late, seen>>

(* The commit point.  Leased: the manifest turns from preparing to committed.  *)
(* Rename: the manifest is created as committed.  A rename whose reply is lost *)
(* still has to find out what happened.                                        *)
Commit(t) ==
  /\ \/ /\ t \in Leased
        /\ pc[t] = "deciding" /\ man[t] = "preparing"
        /\ Leave(t, "releasing")
     \/ /\ t \in Rename
        /\ pc[t] = "preparing" /\ todo[t] = {} /\ man[t] = "none"
        /\ \E phase \in IF "lost_reply" \in Faults THEN {"done", "unsure"} ELSE {"done"} :
              Leave(t, phase)
  /\ man' = [man EXCEPT ![t] = "committed"]
  /\ UNCHANGED <<env, jnl, lease, late>>

(* A rename that lost the reply re-reads the active manifest and, unless it    *)
(* sees its commit there, publishes an abort by creating the manifest.         *)
Resolve(t) ==
  /\ pc[t] = "unsure"
  /\ Leave(t, "done")
  /\ \/ UNCHANGED man
     \/ /\ man[t] = "none"
        /\ man' = [man EXCEPT ![t] = "aborted"]
  /\ UNCHANGED <<env, jnl, lease, late>>

(* Any error or conflict before the commit point: the abort is recorded, which *)
(* may itself fail unnoticed, and the leases are released.  A transaction that *)
(* does not get its leases releases first and records the abort afterwards     *)
(* (Release); a rename that has not prepared anything just gives up its id.    *)
Fail(t) ==
  /\ pc[t] \in {"leasing", "building", "preparing", "deciding"}
  /\ Leave(t, IF t \in Rename THEN "done" ELSE "releasing")
  /\ \/ UNCHANGED man
     \/ /\ \/ t \in Leased /\ pc[t] \in {"building", "preparing"} /\ man[t] = "preparing"
           \/ t \in Rename /\ pc[t] = "preparing" /\ man[t] = "none"
        /\ man' = [man EXCEPT ![t] = "aborted"]
  /\ UNCHANGED <<env, jnl, lease, late>>

(* releaseLeases: in reverse order, each only if it is still the one acquired. *)
Release(t) ==
  /\ pc[t] = "releasing"
  /\ \E r \in Resource :
        /\ lease[r].owner = t
        /\ \A s \in Resource : lease[s].owner = t => s <= r
        /\ lease' = [lease EXCEPT ![r] = Free]
  /\ UNCHANGED <<env, man, jnl, late, seen, todo, pc>>

Released(t) ==
  /\ pc[t] = "releasing" /\ \A r \in Resource : lease[r].owner # t
  /\ Leave(t, "done")
  /\ \/ UNCHANGED man
     \/ /\ man[t] = "preparing"
        /\ man' = [man EXCEPT ![t] = "aborted"]
  /\ UNCHANGED <<env, jnl, lease, late>>

(* The process stops for good, at any point.                                   *)
Crash(t) ==
  /\ pc[t] \notin {"idle", "done", "crashed"}
  /\ Leave(t, "crashed")
  /\ UNCHANGED <<env, man, jnl, lease, late>>

-----------------------------------------------------------------------------
(* Time.  Deadlines pass for whoever is slow.  Without "stall", a process that *)
(* has not stopped reaches its decision in time: a rename before the deadline  *)
(* in its pending values, a leased transaction before its verified leases run  *)
(* out.                                                                        *)

DeadlinePasses(t) ==
  /\ t \notin late /\ pc[t] # "idle"
  /\ t \in Rename => /\ Decision(t) = "none"
                     /\ "stall" \in Faults \/ pc[t] \in {"done", "crashed"}
  /\ late' = late \cup {t}
  /\ UNCHANGED <<env, man, jnl, lease, seen, todo, pc>>

(* A manifest's deadline is set before its leases', so it passes first.        *)
LeaseExpires(r) ==
  /\ lease[r].live /\ lease[r].owner \in late
  /\ "stall" \in Faults \/ pc[lease[r].owner] # "deciding"
  /\ lease' = [lease EXCEPT ![r].live = FALSE]
  /\ UNCHANGED <<env, man, jnl, late, seen, todo, pc>>

-----------------------------------------------------------------------------
(* Steps any process takes on somebody else's transaction: readers,            *)
(* finalizers, later writers that normalise an envelope, and the janitor.      *)
(* Each is one conditional write.                                              *)

(* A committed pending value becomes the current one, an aborted one goes.     *)
Settle(k) ==
  /\ env[k].pend \in Tx /\ Decided(env[k].pend)
  /\ env' = [env EXCEPT ![k] = Settled(k)]
  /\ UNCHANGED <<man, jnl, lease, late, seen, todo, pc>>

(* Mutant: the deadline in a rename's pending value is not looked at.          *)
DiscardEarly(k) ==
  /\ env[k].pend \in Tx
  /\ Decision(env[k].pend) = "none"
  /\ env' = [env EXCEPT ![k].pend = NoTx]
  /\ UNCHANGED <<man, jnl, lease, late, seen, todo, pc>>

(* normalizeEnvelope drops a pending value whose transaction it finds nowhere, *)
(* once the deadline in the pending value has passed.  The decision may appear *)
(* between that look-up and the write.                                         *)
Discard(k) ==
  /\ env[k].pend \in Tx
  /\ IF env[k].pend \in Rename
       THEN env[k].pend \in late
       ELSE Decision(env[k].pend) = "none"
  /\ env' = [env EXCEPT ![k].pend = NoTx]
  /\ UNCHANGED <<man, jnl, lease, late, seen, todo, pc>>

(* Mutant: the janitor writes a status nobody else knows.                      *)
ForceExpire(t) ==
  /\ man[t] = "preparing" /\ t \in late
  /\ man' = [man EXCEPT ![t] = "expired"]
  /\ UNCHANGED <<env, jnl, lease, late, seen, todo, pc>>

(* recoverTransactions: a manifest still preparing past its deadline.          *)
ForceAbort(t) ==
  /\ man[t] = "preparing" /\ t \in late
  /\ man' = [man EXCEPT ![t] = "aborted"]
  /\ UNCHANGED <<env, jnl, lease, late, seen, todo, pc>>

(* Mutant: the janitor archives before it has settled the participants.        *)
ArchiveUnsettled(t) ==
  /\ man[t] \in {"committed", "aborted"} /\ jnl[t] = "none"
  /\ jnl' = [jnl EXCEPT ![t] = man[t]]
  /\ UNCHANGED <<env, man, lease, late, seen, todo, pc>>

(* Mutant: only committed transactions are archived.                           *)
ArchiveCommitted(t) ==
  /\ man[t] = "committed" /\ jnl[t] = "none"
  /\ pc[t] = "unsure" => \A k \in Parts[t] : env[k].pend # t
  /\ jnl' = [jnl EXCEPT ![t] = man[t]]
  /\ UNCHANGED <<env, man, lease, late, seen, todo, pc>>

(* archiveTransaction: the journal copy first, then the active manifest goes.  *)
(* While a rename does not know its own outcome only the janitor archives it,  *)
(* and the janitor settles the participants first.                             *)
Archive(t) ==
  /\ man[t] \in {"committed", "aborted"} /\ jnl[t] = "none"
  /\ pc[t] = "unsure" => \A k \in Parts[t] : env[k].pend # t
  /\ jnl' = [jnl EXCEPT ![t] = man[t]]
  /\ UNCHANGED <<env, man, lease, late, seen, todo, pc>>

Unlink(t) ==
  /\ man[t] \in {"committed", "aborted"} /\ jnl[t] # "none"
  /\ man' = [man EXCEPT ![t] = "none"]
  /\ UNCHANGED <<env, jnl, lease, late, seen, todo, pc>>

-----------------------------------------------------------------------------
Run(t) == \/ Begin(t) \/ Acquire(t) \/ Acquired(t) \/ Plan(t) \/ Verify(t)
          \/ Commit(t) \/ Resolve(t) \/ Fail(t) \/ Release(t)
          \/ Released(t) \/ Crash(t)
          \/ \E k \in Key : Read(t, k) \/ Prepare(t, k)

Upkeep(t) == ForceAbort(t) \/ Archive(t) \/ Unlink(t)

Next == \/ \E t \in Tx : Run(t) \/ DeadlinePasses(t) \/ Upkeep(t)
        \/ \E r \in Resource : LeaseExpires(r)
        \/ \E k \in Key : Settle(k) \/ Discard(k)

Spec == Init /\ [][Next]_vars

(* The reducer loop runs the janitor every few seconds, clocks advance, and a  *)
(* process that waits for a lease polls it.  Nothing obliges a process that    *)
(* holds a lease to go on.                                                     *)
Fairness == /\ \A t \in Tx : WF_vars(Upkeep(t)) /\ WF_vars(DeadlinePasses(t))
            /\ \A t \in Tx : WF_vars(Acquire(t)) /\ WF_vars(Acquired(t))
            /\ \A r \in Resource : WF_vars(LeaseExpires(r))

FairSpec == Spec /\ Fairness

-----------------------------------------------------------------------------
(* Properties.                                                                 *)

(* The shape of every stored object and of every process's private state.      *)
TypeOK ==
  /\ env \in [Key -> Envelope]
  /\ man \in [Tx -> Status]
  /\ jnl \in [Tx -> Status]
  /\ lease \in [Resource -> [owner : TxOrNone, live : BOOLEAN]]
  /\ late \subseteq Tx
  /\ seen \in [Tx -> [Key -> Snapshot]]
  /\ todo \in [Tx -> SUBSET Nat]
  /\ pc \in [Tx -> Phase]

(* The protocol implements the abstract namespace: what readers resolve        *)
(* through envelopes and manifests changes for all participants of a           *)
(* transaction at once, exactly when its decision becomes committed, and is    *)
(* never undone or lost by settling, discarding, archiving or aborting.        *)
Committed == {t \in Tx : "committed" \in {man[t], jnl[t]}}

Namespace == INSTANCE AtomicNamespace
               WITH view <- [k \in Key |-> View(k)], published <- Committed

AtomicPublication == Namespace!Spec

(* A transaction that commits replaces the very versions it was built from: no *)
(* committed mutation of a shard is overwritten by one that never saw it.      *)
NoLostUpdate ==
  [][\A t \in Committed' \ Committed :
       \A k \in Parts[t] : seen[t][k].ver = View(k)]_vars

(* The inductive core of AtomicPublication.  A pending value belongs to a      *)
(* transaction that got as far as preparing it and is one of its participants; *)
(* what a transaction has prepared stays in place until its decision; a leased *)
(* transaction is resolvable from the moment it begins, so its pending values  *)
(* are never discarded; a rename whose deadline has passed will not commit;    *)
(* and a commit that an unsure rename contradicts has no pending value left.   *)
Prepared(t) == CASE pc[t] = "preparing" -> Parts[t] \ todo[t]
                 [] pc[t] = "deciding" -> Parts[t]
                 [] OTHER -> {}

PendingOwned ==
  \A k \in Key : env[k].pend \in Tx =>
     /\ k \in Parts[env[k].pend]
     /\ pc[env[k].pend] \notin {"idle", "leasing", "building"}

PreparedHeld ==
  \A t \in Tx : t \in Rename \/ man[t] = "preparing" =>
     \A k \in Prepared(t) : env[k].pend = t

PhaseAgrees ==
  \A t \in Tx :
     /\ pc[t] = "idle" => man[t] = "none" /\ jnl[t] = "none"
     /\ pc[t] \in {"building", "preparing"} => todo[t] \subseteq Parts[t]
     /\ IF t \in Rename
          THEN /\ pc[t] \notin {"leasing", "deciding", "releasing"}
               /\ man[t] # "preparing"
               /\ pc[t] \in {"building", "preparing"} => man[t] = "none" /\ jnl[t] = "none"
               /\ pc[t] = "unsure" => "committed" \in {man[t], jnl[t]}
          ELSE /\ pc[t] # "unsure"
               /\ pc[t] # "idle" => Decision(t) # "none"
               /\ pc[t] \in {"leasing", "building", "preparing", "deciding"}
                    => t \notin Committed

DecisionKept ==
  \A t \in Tx :
     /\ jnl[t] # "preparing"
     /\ jnl[t] # "none" /\ man[t] # jnl[t] =>
          \/ man[t] = "none"
          \/ man[t] = "aborted" /\ \A k \in Key : env[k].pend # t
     /\ jnl[t] = "committed" /\ pc[t] = "unsure" => \A k \in Key : env[k].pend # t

LateStopped ==
  \A t \in Rename \cap late : pc[t] \in {"done", "crashed"} /\ t \notin Committed

(* What a rename or a generation-checked transaction has read still describes  *)
(* the participant for as long as the participant is unchanged.                *)
HasRead(t, k) == \/ pc[t] = "building" /\ k \in Parts[t] \ todo[t]
                 \/ pc[t] = "preparing" /\ k \in Parts[t]

SnapshotSound ==
  \A t \in Rename \cup Fenced : \A k \in Key : HasRead(t, k) =>
     LET s == seen[t][k] IN
     /\ s.gen.pend # t
     /\ s.gen.pend = NoTx => s.ver = s.gen.cur
     /\ t \in Rename /\ s.gen.pend \in Tx =>
          \/ s.gen.pend \in Committed /\ s.ver = s.gen.pend
          \/ /\ s.gen.pend \notin Committed /\ s.ver = s.gen.cur
             /\ "aborted" \in {man[s.gen.pend], jnl[s.gen.pend]}

BuiltOnCurrent ==
  \A t \in Rename \cup Fenced : t \in Rename \/ man[t] = "preparing" =>
     \A k \in Prepared(t) : env[k].cur = seen[t][k].ver

TxnInv == /\ PendingOwned /\ PreparedHeld /\ PhaseAgrees /\ DecisionKept
          /\ LateStopped /\ SnapshotSound /\ BuiltOnCurrent

(* Waiting for a lease ends: the holder releases it or its deadline passes,    *)
(* also when it crashed while holding it.                                      *)
LeaseWaitEnds == \A t \in Tx : pc[t] = "leasing" ~> pc[t] # "leasing"

(* The active set drains: every manifest is decided and archived in the end,   *)
(* whatever happened to the process that wrote it.                             *)
ManifestsDrain == \A t \in Tx : man[t] # "none" ~> man[t] = "none"
=============================================================================
