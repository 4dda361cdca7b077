--------------------------- MODULE TreeNamespace ---------------------------
(* The directory tree and the trash of the v4 namespace                        *)
(* (internal/db/tree_v4.go, internal/db/tree_v4_trash.go) and the permanent    *)
(* deletion that drives them (internal/fileops/service.go).                    *)
(* An operation resolves its paths without any lease (Plan), leases the shards *)
(* and the trash group it is about to change, looks again at what it needs     *)
(* and computes new contents (Build), and publishes all of them at once        *)
(* (Commit).  TreeTxn justifies taking Commit as one step and leases as        *)
(* exclusive; leases are taken one by one in the code, which only excludes     *)
(* more than taking them together at the moment the last one is obtained.      *)
(* Entries hold the node, so a path is resolved through directory shards only. *)
EXTENDS Integers, FiniteSets, Sequences

CONSTANTS
  Dir,        \* directory nodes, those of the initial tree and those yet to come
  File,       \* file nodes; each has one payload object
  Root,       \* the root directory
  None,       \* no node
  Name,       \* path segments
  ShardOf,    \* ShardOf[n]: the shard of a directory that holds the name n
  TrashId,    \* ids of trash groups, one per request to trash something
  Process,    \* actors: request handlers and operation workers
  Request,    \* Request[p]: what p may be asked to do
  Tree        \* Tree[d][n]: the initial entries

Node == Dir \cup File
Path == Seq(Name) \ {<<>>}
Requests ==
  [kind : {"create"}, path : Path, node : Node]
    \cup [kind : {"delete"}, path : Path] \cup [kind : {"move"}, path : Path, to : Path]
    \cup [kind : {"trash"}, path : Path, id : TrashId]
    \cup [kind : {"restore", "purge"}, id : TrashId]

(* What is created has a new id, and so has what is put into the trash.        *)
FreshIds ==
  \A p, q \in Process : \A r \in Request[p], s \in Request[q] :
    /\ r.kind = "create" /\ s.kind = "create" /\ r.node = s.node => p = q
    /\ r.kind = "create" => r.node # Root /\ \A d \in Dir, n \in Name : Tree[d][n] # r.node
    /\ r.kind = "trash" /\ s.kind = "trash" /\ r.id = s.id => p = q

(* The initial tree: no node is in two places, and each one can be reached.    *)
IsTree ==
  /\ \A d, e \in Dir, n, m \in Name :
       Tree[d][n] # None => /\ Tree[d][n] # Root
                            /\ Tree[d][n] = Tree[e][m] => d = e /\ n = m
  /\ \A S \in SUBSET Node :
       /\ Root \in S
       /\ \A d \in S \cap Dir, n \in Name : Tree[d][n] \in S \cup {None}
       => \A d \in Dir, n \in Name : Tree[d][n] \in S \cup {None}

ASSUME NamespaceAssumption ==
  /\ IsFiniteSet(Dir) /\ Root \in Dir /\ Dir \cap File = {} /\ None \notin Node
  /\ Tree \in [Dir -> [Name -> Node \cup {None}]] /\ IsTree
  /\ \A p \in Process : Request[p] \subseteq Requests
  /\ FreshIds

VARIABLES
  ent,   \* ent[d][n]: the node named n in directory d
  man,   \* man[i]: the manifest of trash group i
  rec,   \* nodes whose own records (node, legacy id) are stored
  obj,   \* files whose payload object is stored
  req,   \* req[p]: the request p works on
  plan,  \* plan[p]: what p read before it took any lease
  mut,   \* mut[p]: what p's transaction is about to publish
  work,  \* work[p]: what p has left to delete
  pc     \* pc[p]: phase of p

vars == <<ent, man, rec, obj, req, plan, mut, work, pc>>
stored == <<ent, man, rec, obj>>

Shard == {ShardOf[n] : n \in Name}
Manifest == [node : Node \cup {None}, path : Seq(Name), deleting : BOOLEAN,
             cleanup : SUBSET Node]
NoManifest == [node |-> None, path |-> <<>>, deleting |-> FALSE, cleanup |-> {}]
NoPlan == [par |-> None, tgt |-> None, node |-> None, man |-> NoManifest, res |-> {}]
NoRequest == [kind |-> "none"]
NoMutation == [shards |-> <<>>, mans |-> <<>>, add |-> {}, del |-> {}]

-----------------------------------------------------------------------------
(* Reading the tree.                                                           *)

Parent(path) == SubSeq(path, 1, Len(path) - 1)
Base(path) == path[Len(path)]

(* resolve: segment by segment from the root, None when an entry is missing or *)
(* something on the way is not a directory.                                    *)
Resolve(path) ==
  LET at[i \in 0..Len(path)] ==
        IF i = 0 THEN Root
        ELSE IF at[i - 1] \in Dir THEN ent[at[i - 1]][path[i]] ELSE None
  IN at[Len(path)]

Children(S) == {ent[d][n] : d \in S \cap Dir, n \in Name} \ {None}

(* subtreeMutationPlan, collectNodeSubtree and trashCleanupPlan walk a node    *)
(* and all its descendants.                                                    *)
Subtree(x) ==
  LET upTo[i \in 0..Cardinality(Dir)] ==
        IF i = 0 THEN {x} ELSE upTo[i - 1] \cup Children(upTo[i - 1])
  IN upTo[Cardinality(Dir)]

ShardRes(d, n) == <<"directory", d, ShardOf[n]>>
AllShards(S) == {<<"directory", d, s>> : d \in S \cap Dir, s \in Shard}
TrashRes(i) == <<"trash", i>>

IsPrefix(s, t) == Len(s) <= Len(t) /\ SubSeq(t, 1, Len(s)) = s

-----------------------------------------------------------------------------
(* A transaction of process p.                                                 *)

Held(p) == IF pc[p] = "built" THEN plan[p].res ELSE {}
Unleased(res, p) == \A q \in Process \ {p} : Held(q) \cap res = {}

(* A mutation rewrites whole shards with their new contents.                   *)
Rewrite(edits) ==
  [y \in {<<e[1], ShardOf[e[2]]>> : e \in edits} |->
     [n \in {m \in Name : ShardOf[m] = y[2]} |->
        LET hits == {e \in edits : e[1] = y[1] /\ e[2] = n}
        IN IF hits = {} THEN ent[y[1]][n] ELSE (CHOOSE e \in hits : TRUE)[3]]]

Planned(p, value) ==
  /\ pc[p] = "idle"
  /\ plan' = [plan EXCEPT ![p] = value]
  /\ pc' = [pc EXCEPT ![p] = "planned"]
  /\ UNCHANGED <<stored, req, mut, work>>

Built(p, value) ==
  /\ mut' = [mut EXCEPT ![p] = value]
  /\ pc' = [pc EXCEPT ![p] = "built"]
  /\ UNCHANGED <<stored, req, plan, work>>

Leasing(p) == pc[p] = "planned" /\ Unleased(plan[p].res, p)

Ends(p, phase) ==
  /\ pc' = [pc EXCEPT ![p] = phase]
  /\ req' = IF phase = "done" THEN [req EXCEPT ![p] = NoRequest] ELSE req
  /\ plan' = [plan EXCEPT ![p] = NoPlan]
  /\ mut' = [mut EXCEPT ![p] = NoMutation]
  /\ work' = [work EXCEPT ![p] = {}]

Init ==
  /\ ent = Tree
  /\ man = [i \in TrashId |-> NoManifest]
  /\ rec = ({Root} \cup {Tree[x[1]][x[2]] : x \in Dir \X Name}) \ {None}
  /\ obj = File
  /\ req \in {r \in [Process -> UNION {Request[p] : p \in Process}] :
                \A p \in Process : r[p] \in Request[p]}
  /\ plan = [p \in Process |-> NoPlan]
  /\ mut = [p \in Process |-> NoMutation]
  /\ work = [p \in Process |-> {}]
  /\ pc = [p \in Process |-> "idle"]

(* All mutations become visible together and the leases go.                    *)
Commit(p) ==
  LET new == mut[p] IN
  /\ pc[p] = "built"
  /\ ent' = [d \in Dir |-> [n \in Name |->
               IF <<d, ShardOf[n]>> \in DOMAIN new.shards
                 THEN new.shards[<<d, ShardOf[n]>>][n] ELSE ent[d][n]]]
  /\ man' = [i \in TrashId |-> IF i \in DOMAIN new.mans THEN new.mans[i] ELSE man[i]]
  /\ rec' = (rec \cup new.add) \ new.del
  /\ Ends(p, "done")
  /\ UNCHANGED obj

(* Any error before the decision, and a process that stops: nothing it was     *)
(* about to publish is seen, and its leases run out.  Permanent deletion is    *)
(* run again from the start, by the next request or by the durable operation.  *)
Abandon(p) ==
  /\ pc[p] \notin {"idle", "done"}
  /\ Ends(p, IF req[p].kind = "purge" THEN "idle" ELSE "done")
  /\ UNCHANGED stored

-----------------------------------------------------------------------------
(* replaceFileConditional of a path that must not exist, and upsertDirectory.  *)
(* The file's payload is stored before its mapping is published.               *)

PlanCreate(p) ==
  LET r == req[p] par == Resolve(Parent(r.path)) IN
  /\ r.kind = "create" /\ par \in Dir
  /\ Planned(p, [NoPlan EXCEPT !.par = par, !.res = {ShardRes(par, Base(r.path))}])

BuildCreate(p) ==
  LET r == req[p] IN
  /\ r.kind = "create" /\ Leasing(p)
  /\ Resolve(Parent(r.path)) = plan[p].par
  /\ ent[plan[p].par][Base(r.path)] = None
  /\ Built(p, [NoMutation EXCEPT
                 !.shards = Rewrite({<<plan[p].par, Base(r.path), r.node>>}),
                 !.add = {r.node}])

(* deletePath: a file, or a directory that is empty under its shards' leases.  *)
PlanDelete(p) ==
  LET r == req[p] par == Resolve(Parent(r.path)) node == Resolve(r.path) IN
  /\ r.kind = "delete" /\ node # None
  /\ Planned(p, [NoPlan EXCEPT !.par = par, !.node = node,
                   !.res = {ShardRes(par, Base(r.path))} \cup AllShards({node})])

BuildDelete(p) ==
  LET r == req[p] IN
  /\ r.kind = "delete" /\ Leasing(p)
  /\ Resolve(Parent(r.path)) = plan[p].par
  /\ ent[plan[p].par][Base(r.path)] = plan[p].node
  /\ Children({plan[p].node}) = {}
  /\ Built(p, [NoMutation EXCEPT
                 !.shards = Rewrite({<<plan[p].par, Base(r.path), None>>}),
                 !.del = {plan[p].node}])

(* Mutant: only the destination's shard is leased.                             *)
PlanMoveHalf(p) ==
  LET r == req[p] par == Resolve(Parent(r.path)) tgt == Resolve(Parent(r.to)) IN
  /\ r.kind = "move" /\ Resolve(r.path) # None /\ tgt \in Dir
  /\ ~IsPrefix(r.path, r.to)
  /\ Planned(p, [NoPlan EXCEPT !.par = par, !.tgt = tgt,
                   !.res = {ShardRes(tgt, Base(r.to))}])

(* movePaths of one root, and renamePath between directories: the source may   *)
(* not contain the destination, by their paths when the request is planned.    *)
PlanMove(p) ==
  LET r == req[p] par == Resolve(Parent(r.path)) tgt == Resolve(Parent(r.to)) IN
  /\ r.kind = "move" /\ Resolve(r.path) # None /\ tgt \in Dir
  /\ ~IsPrefix(r.path, r.to)
  /\ Planned(p, [NoPlan EXCEPT !.par = par, !.tgt = tgt,
                   !.res = {ShardRes(par, Base(r.path)), ShardRes(tgt, Base(r.to))}])

BuildMove(p) ==
  LET r == req[p] x == ent[plan[p].par][Base(r.path)] IN
  /\ r.kind = "move" /\ Leasing(p)
  /\ Resolve(Parent(r.path)) = plan[p].par
  /\ Resolve(Parent(r.to)) = plan[p].tgt
  /\ x # None /\ ent[plan[p].tgt][Base(r.to)] = None
  /\ Built(p, [NoMutation EXCEPT
                 !.shards = Rewrite({<<plan[p].par, Base(r.path), None>>,
                                     <<plan[p].tgt, Base(r.to), x>>})])

-----------------------------------------------------------------------------
(* Trash.  These operations do not look again at everything they read before   *)
(* they held the lease: trashOne not at the path of the parent, restoreTrash   *)
(* not at the parent or the manifest, claimTrash not at the manifest.          *)

(* trashOne: leases every shard of the subtree as it found it.                 *)
PlanTrash(p) ==
  LET r == req[p] par == Resolve(Parent(r.path)) node == Resolve(r.path) IN
  /\ r.kind = "trash" /\ node # None
  /\ Planned(p, [NoPlan EXCEPT !.par = par,
                   !.res = {ShardRes(par, Base(r.path)), TrashRes(r.id)}
                             \cup AllShards(Subtree(node))])

(* Mutant: the subtree is not walked again under the leases.                   *)
BuildTrashUnwalked(p) ==
  LET r == req[p] x == ent[plan[p].par][Base(r.path)] IN
  /\ r.kind = "trash" /\ Leasing(p)
  /\ x # None /\ man[r.id].node = None
  /\ Built(p, [NoMutation EXCEPT
                 !.shards = Rewrite({<<plan[p].par, Base(r.path), None>>}),
                 !.mans = [i \in {r.id} |->
                             [NoManifest EXCEPT !.node = x, !.path = r.path]]])

(* A subtree that has grown shards since is a conflict.                        *)
BuildTrash(p) ==
  LET r == req[p] x == ent[plan[p].par][Base(r.path)] IN
  /\ r.kind = "trash" /\ Leasing(p)
  /\ x # None /\ man[r.id].node = None
  /\ AllShards(Subtree(x)) \subseteq plan[p].res
  /\ Built(p, [NoMutation EXCEPT
                 !.shards = Rewrite({<<plan[p].par, Base(r.path), None>>}),
                 !.mans = [i \in {r.id} |->
                             [NoManifest EXCEPT !.node = x, !.path = r.path]]])

(* Mutant: a claimed group is restored.                                        *)
PlanRestoreClaimed(p) ==
  LET r == req[p] m == man[r.id] par == Resolve(Parent(m.path)) IN
  /\ r.kind = "restore" /\ m.node # None /\ par \in Dir
  /\ Planned(p, [NoPlan EXCEPT !.par = par, !.man = m,
                   !.res = {ShardRes(par, Base(m.path)), TrashRes(r.id)}])

(* restoreTrash of one id.                                                     *)
PlanRestore(p) ==
  LET r == req[p] m == man[r.id] par == Resolve(Parent(m.path)) IN
  /\ r.kind = "restore" /\ m.node # None /\ ~m.deleting /\ par \in Dir
  /\ Planned(p, [NoPlan EXCEPT !.par = par, !.man = m,
                   !.res = {ShardRes(par, Base(m.path)), TrashRes(r.id)}])

(* Mutant: restored whatever has the name meanwhile.                           *)
BuildRestoreOver(p) ==
  LET m == plan[p].man IN
  /\ req[p].kind = "restore" /\ Leasing(p)
  /\ Built(p, [NoMutation EXCEPT
                 !.shards = Rewrite({<<plan[p].par, Base(m.path), m.node>>}),
                 !.mans = [i \in {req[p].id} |-> NoManifest]])

BuildRestore(p) ==
  LET m == plan[p].man IN
  /\ req[p].kind = "restore" /\ Leasing(p)
  /\ ent[plan[p].par][Base(m.path)] = None
  /\ Built(p, [NoMutation EXCEPT
                 !.shards = Rewrite({<<plan[p].par, Base(m.path), m.node>>}),
                 !.mans = [i \in {req[p].id} |-> NoManifest]])

-----------------------------------------------------------------------------
(* deletePermanentlyWithCheckpoint of one id: claim the group, delete the      *)
(* payloads, then the records.  A transaction that reads nothing outside its   *)
(* lease is one step.                                                          *)

(* claimTrash reads the manifest and, unless Deleting is set, writes it back   *)
(* as it read it, with Deleting.                                               *)
PlanClaim(p) ==
  LET m == man[req[p].id] IN
  /\ req[p].kind = "purge" /\ m.node # None
  /\ Planned(p, [NoPlan EXCEPT !.man = m, !.res = {TrashRes(req[p].id)}])

Claim(p) ==
  /\ req[p].kind = "purge" /\ pc[p] = "planned"
  /\ \/ plan[p].man.deleting /\ UNCHANGED man
     \/ /\ ~plan[p].man.deleting /\ Unleased(plan[p].res, p)
        /\ man' = [man EXCEPT ![req[p].id] = [plan[p].man EXCEPT !.deleting = TRUE]]
  /\ pc' = [pc EXCEPT ![p] = "claimed"]
  /\ UNCHANGED <<ent, rec, obj, req, plan, mut, work>>

(* collectNodeSubtree: the files whose payloads go.                            *)
Collect(p) ==
  /\ pc[p] = "claimed"
  /\ work' = [work EXCEPT ![p] = Subtree(plan[p].man.node) \cap File]
  /\ pc' = [pc EXCEPT ![p] = "erasing"]
  /\ UNCHANGED <<stored, req, plan, mut>>

Erase(p) ==
  /\ pc[p] = "erasing"
  /\ \E f \in work[p] : /\ obj' = obj \ {f}
                        /\ work' = [work EXCEPT ![p] = @ \ {f}]
  /\ UNCHANGED <<ent, man, rec, req, plan, mut, pc>>

CleanupKeys(S) == {<<"directory", d>> : d \in S \cap Dir} \cup {<<"node", x>> : x \in S}

(* deleteTrash reads the manifest again.  Without a cleanup plan it walks the  *)
(* subtree for one; a group that is gone was deleted by somebody else.         *)
Review(p) ==
  LET m == man[req[p].id] IN
  /\ pc[p] = "erasing" /\ work[p] = {}
  /\ IF m.node = None \/ ~m.deleting
       THEN /\ Ends(p, "done")
            /\ UNCHANGED stored
       ELSE /\ IF m.cleanup = {}
                 THEN /\ plan' = [plan EXCEPT ![p].man.cleanup = Subtree(m.node)]
                      /\ pc' = [pc EXCEPT ![p] = "listed"]
                      /\ UNCHANGED work
                 ELSE /\ work' = [work EXCEPT ![p] = CleanupKeys(m.cleanup)]
                      /\ pc' = [pc EXCEPT ![p] = "cleaning"]
                      /\ UNCHANGED plan
            /\ UNCHANGED <<stored, req, mut>>

(* Mutant: the cleanup plan is used without being stored first.                *)
SaveCleanupNot(p) ==
  /\ pc[p] = "listed" /\ Unleased(plan[p].res, p)
  /\ work' = [work EXCEPT ![p] = CleanupKeys(plan[p].man.cleanup)]
  /\ pc' = [pc EXCEPT ![p] = "cleaning"]
  /\ UNCHANGED <<stored, req, plan, mut>>

(* The cleanup plan is stored before anything is deleted; one that somebody    *)
(* else has stored meanwhile wins.                                             *)
SaveCleanup(p) ==
  LET live == man[req[p].id]
      saved == IF live.cleanup = {} THEN [live EXCEPT !.cleanup = plan[p].man.cleanup]
                                    ELSE live IN
  /\ pc[p] = "listed" /\ Unleased(plan[p].res, p)
  /\ live.node # None /\ live.deleting
  /\ man' = [man EXCEPT ![req[p].id] = saved]
  /\ work' = [work EXCEPT ![p] = CleanupKeys(saved.cleanup)]
  /\ pc' = [pc EXCEPT ![p] = "cleaning"]
  /\ UNCHANGED <<ent, rec, obj, req, plan, mut>>

(* The keys are deleted in sorted order: shards of directories before records. *)
FirstKey(keys) ==
  LET shards == {key \in keys : key[1] = "directory"}
  IN CHOOSE key \in IF shards = {} THEN keys ELSE shards : TRUE

Clean(p) ==
  /\ pc[p] = "cleaning" /\ work[p] # {}
  /\ LET key == FirstKey(work[p]) IN
     /\ IF key[1] = "directory"
          THEN /\ ent' = [ent EXCEPT ![key[2]] = [n \in Name |-> None]]
               /\ UNCHANGED rec
          ELSE /\ rec' = rec \ {key[2]}
               /\ UNCHANGED ent
     /\ work' = [work EXCEPT ![p] = @ \ {key}]
  /\ UNCHANGED <<man, obj, req, plan, mut, pc>>

DropManifest(p) ==
  /\ pc[p] = "cleaning" /\ work[p] = {} /\ Unleased(plan[p].res, p)
  /\ man' = [man EXCEPT ![req[p].id] = NoManifest]
  /\ Ends(p, "done")
  /\ UNCHANGED <<ent, rec, obj>>

-----------------------------------------------------------------------------
Purge(p) == PlanClaim(p) \/ Claim(p) \/ Collect(p) \/ Erase(p) \/ Review(p)
              \/ SaveCleanup(p) \/ Clean(p) \/ DropManifest(p)

Next == \E p \in Process :
          \/ PlanCreate(p) \/ BuildCreate(p) \/ PlanDelete(p) \/ BuildDelete(p)
          \/ PlanMove(p) \/ BuildMove(p) \/ PlanTrash(p) \/ BuildTrash(p)
          \/ PlanRestore(p) \/ BuildRestore(p)
          \/ Commit(p) \/ Abandon(p) \/ Purge(p)

Spec == Init /\ [][Next]_vars

-----------------------------------------------------------------------------
(* Requests that do not meet where the code does not look again.               *)

(* Nobody works on a trash group that another request has looked at, unclaimed, *)
(* and has no lease on yet.                                                    *)
Looking(p) == pc[p] = "planned" /\ req[p].kind \in {"restore", "purge"} /\ ~plan[p].man.deleting
GroupsApart ==
  \A p, q \in Process :
    p # q /\ Looking(p) /\ req[q].kind \in {"restore", "purge"} /\ req[q].id = req[p].id
      => pc[q] \in {"idle", "done"}

(* Nobody is about to trash or to delete the directory that a trash or restore *)
(* without its leases yet has found.                                           *)
Removed(q) == CASE req[q].kind = "trash"  -> Subtree(mut[q].mans[req[q].id].node)
                [] req[q].kind = "delete" -> {plan[q].node}
                [] OTHER                  -> {}
ParentsApart ==
  \A p, q \in Process :
    pc[p] = "planned" /\ req[p].kind \in {"trash", "restore"} /\ pc[q] = "built"
      => plan[p].par \notin Removed(q)

(* No two directories are being moved at once.                                 *)
MovesDir(p) == /\ pc[p] = "built" /\ req[p].kind = "move"
               /\ ent[plan[p].par][Base(req[p].path)] \in Dir
MovesApart == \A p, q \in Process : MovesDir(p) /\ MovesDir(q) => p = q

LooksApart == GroupsApart /\ ParentsApart
Apart == LooksApart /\ MovesApart
ApartSpec == Init /\ [][Next /\ Apart']_vars

-----------------------------------------------------------------------------
(* Properties.                                                                 *)

Live == Subtree(Root)
Phases == {"idle", "planned", "built", "claimed", "erasing", "listed", "cleaning", "done"}

(* The shape of the stored tree, of the trash and of every process.            *)
TypeOK ==
  /\ ent \in [Dir -> [Name -> Node \cup {None}]]
  /\ DOMAIN man = TrashId
  /\ \A i \in TrashId : /\ man[i].node \in Node \cup {None}
                        /\ man[i].deleting \in BOOLEAN /\ man[i].cleanup \subseteq Node
  /\ rec \subseteq Node /\ obj \subseteq File
  /\ pc \in [Process -> Phases]
  /\ \A p \in Process : plan[p].par \in Node \cup {None} /\ DOMAIN mut[p].mans \subseteq TrashId

(* A node is in one place: one entry of one directory, or the root of one      *)
(* trash group.  Two operations that both found it must not both put it down.  *)
OnePlace ==
  \A x \in Node :
    Cardinality({y \in Dir \X Name : ent[y[1]][y[2]] = x})
      + Cardinality({i \in TrashId : man[i].node = x}) <= IF x = Root THEN 0 ELSE 1
NamespaceInv == TypeOK /\ OnePlace

(* No node is lost: one whose records are stored can be reached from the root  *)
(* or from a trash group, or a claimed group still lists it for cleanup, also  *)
(* when the deletion stopped half way.                                         *)
NoOrphan ==
  LET found == [i \in TrashId |-> IF man[i].node = None THEN {}
                                  ELSE Subtree(man[i].node) \cup man[i].cleanup]
  IN rec \subseteq Live \cup UNION {found[i] : i \in TrashId}

(* A file that can be reached still has its payload and its records.           *)
LiveIntact == LET live == Live IN live \cap File \subseteq obj /\ live \subseteq rec

(* Nothing is put into a directory that is not live at the moment it becomes   *)
(* visible: a parent that was trashed, moved or deleted meanwhile is noticed.  *)
AddedToLive ==
  [][LET grown == {d \in Dir : \E n \in Name : ent'[d][n] \notin {None, ent[d][n]}}
     IN grown # {} => grown \subseteq Live]_vars

(* Nothing is put where something else is: an entry is replaced by none before *)
(* its name is used again, however operations on its shard overlap.            *)
NothingOverwritten ==
  [][\A d \in Dir, n \in Name : ent[d][n] # None => ent'[d][n] \in {None, ent[d][n]}]_vars

(* The claim of a permanent deletion keeps the group from being restored.      *)
ClaimBlocksRestore ==
  [][\A i \in TrashId :
       man[i].deleting => /\ man'[i].deleting \/ man'[i].node = None
                          /\ man[i].node \notin Live']_vars
=============================================================================
