------------------------ MODULE TreeNamespaceProofs --------------------------
(* The tree and the trash, for any directories, files, paths, requests and     *)
(* processes.  Nothing is ever put over something else.  Where requests do not *)
(* meet at what trashOne, restoreTrash and claimTrash do not look at again,    *)
(* whoever holds its leases finds what it read still true when it commits,     *)
(* nothing is in two places, and nothing that is being deleted for good can be *)
(* seen again.                                                                 *)
EXTENDS TreeWalks

-----------------------------------------------------------------------------
(* The inductive invariant.                                                    *)

Placed(x) == \/ \E d \in Dir, n \in Name : ent[d][n] = x
             \/ \E i \in TrashId : man[i].node = x
Unborn(x) == \E p \in Process : req[p].kind = "create" /\ req[p].node = x
Group(i) == IF man[i].node = None THEN {} ELSE Below(ent, man[i].node) \cup man[i].cleanup
Empty(d) == \A n \in Name : ent[d][n] = None

(* A directory that an operation may use: somewhere, but in no trash group.    *)
Standing(d) == d \in Dir /\ (d = Root \/ Placed(d)) /\ \A i \in TrashId : d \notin Group(i)
(* A node that is nowhere and will never be anywhere again.                    *)
Gone(x) == x # Root /\ ~Placed(x) /\ ~Unborn(x) /\ (x \in Dir => Empty(x))

(* Rewrite as a function of the entries, and what a commit of it leaves.       *)
Edited(e, edits) ==
  [y \in {<<ed[1], ShardOf[ed[2]]>> : ed \in edits} |->
     [n \in {m \in Name : ShardOf[m] = y[2]} |->
        LET hits == {ed \in edits : ed[1] = y[1] /\ ed[2] = n}
        IN IF hits = {} THEN e[y[1]][n] ELSE (CHOOSE ed \in hits : TRUE)[3]]]
Edited1(e, c, m, v) == Edited(e, {<<c, m, v>>})
Edited2(e, c, m, v, b, k, w) == Edited(e, {<<c, m, v>>, <<b, k, w>>})
After(e, shards) ==
  [d \in Dir |-> [n \in Name |->
     IF <<d, ShardOf[n]>> \in DOMAIN shards THEN shards[<<d, ShardOf[n]>>][n] ELSE e[d][n]]]

Keys == ({"directory"} \X Dir) \cup ({"node"} \X Node)
Resource == ({"directory"} \X Dir \X Shard) \cup ({"trash"} \X TrashId)
AnyPlan == [par : Node \cup {None}, tgt : Node \cup {None}, node : Node \cup {None},
            man : Manifest, res : SUBSET Resource]

NsTypes ==
  /\ ent \in Entries /\ man \in [TrashId -> Manifest] /\ rec \subseteq Node /\ obj \subseteq File
  /\ pc \in [Process -> Phases] /\ plan \in [Process -> AnyPlan]
  /\ req \in [Process -> Requests \cup {NoRequest}]
  /\ \A p \in Process : req[p] \in Request[p] \cup {NoRequest}
  /\ DOMAIN mut = Process /\ \A p \in Process : pc[p] # "built" => mut[p] = NoMutation
  /\ DOMAIN work = Process

TreeOK ==
  /\ OncePlaced(ent)
  /\ \A i \in TrashId : man[i].node # None =>
       /\ man[i].node # Root
       /\ \A d \in Dir, n \in Name : ent[d][n] # man[i].node
       /\ \A j \in TrashId : man[j].node = man[i].node => j = i

(* A group's cleanup plan has all of its tree, and nothing else.               *)
GroupOK(i) ==
  LET m == man[i] IN
  /\ m.node = None => m = NoManifest
  /\ m.node # None => m.path \in Path
  /\ ~m.deleting => m.cleanup = {}
  /\ m.cleanup # {} =>
       /\ m.node \in m.cleanup /\ Closed(ent, m.cleanup) /\ Root \notin m.cleanup
       /\ \A d \in Dir, n \in Name : ent[d][n] \in m.cleanup => d \in m.cleanup
       /\ \A j \in TrashId \ {i} : man[j].node \notin m.cleanup
       /\ \A x \in m.cleanup : ~Unborn(x)

(* A permanent deletion, from the moment at which the group was claimed.        *)
Purging(p) == \/ pc[p] \in {"claimed", "erasing", "listed", "cleaning"}
              \/ pc[p] = "planned" /\ req[p].kind = "purge" /\ plan[p].man.deleting

(* What is to be created is nowhere yet, and the id of a group to come is new. *)
FreshOK ==
  \A p \in Process :
    /\ req[p].kind = "create" => ~Placed(req[p].node)
    /\ req[p].kind = "trash" => /\ man[req[p].id].node = None
                                /\ \A q \in Process : Purging(q) => req[q].id # req[p].id

(* What is in the trash remembers where it was.                                *)
PathsOK == \A i \in TrashId : man[i].node # None => man[i].path \in Path

(* What request r may have planned.                                            *)
PlanFits(r, pl) ==
  /\ r.kind # "none"
  /\ r.kind # "purge" => pl.par \in Dir
  /\ r.kind \in {"create", "delete", "move", "trash"} => ShardRes(pl.par, Base(r.path)) \in pl.res
  /\ r.kind = "delete" => pl.node # None /\ AllShards({pl.node}) \subseteq pl.res
  /\ r.kind = "move" => /\ pl.tgt \in Dir /\ ShardRes(pl.tgt, Base(r.to)) \in pl.res
                        /\ ~IsPrefix(r.path, r.to)
  /\ r.kind \in {"trash", "restore", "purge"} => TrashRes(r.id) \in pl.res
  /\ r.kind \in {"restore", "purge"} => pl.man.node # None
  /\ r.kind = "restore" => /\ ~pl.man.deleting /\ pl.man.path \in Path
                           /\ ShardRes(pl.par, Base(pl.man.path)) \in pl.res
  /\ r.kind = "purge" => pl.res = {TrashRes(r.id)}
PlanOK(p) ==
  pc[p] \in {"planned", "built"} => /\ PlanFits(req[p], plan[p])
                                    /\ req[p].kind = "purge" => pc[p] = "planned"

(* What the request r publishes, with plan pl and the entries e.                *)
Published(r, pl, e) ==
  CASE r.kind = "create" ->
         [NoMutation EXCEPT !.shards = Edited1(e, pl.par, Base(r.path), r.node),
                            !.add = {r.node}]
    [] r.kind = "delete" ->
         [NoMutation EXCEPT !.shards = Edited1(e, pl.par, Base(r.path), None),
                            !.del = {pl.node}]
    [] r.kind = "move" ->
         [NoMutation EXCEPT !.shards = Edited2(e, pl.par, Base(r.path), None,
                                               pl.tgt, Base(r.to), e[pl.par][Base(r.path)])]
    [] r.kind = "trash" ->
         [NoMutation EXCEPT !.shards = Edited1(e, pl.par, Base(r.path), None),
                            !.mans = [i \in {r.id} |->
                                        [NoManifest EXCEPT !.node = e[pl.par][Base(r.path)],
                                                           !.path = r.path]]]
    [] r.kind = "restore" ->
         [NoMutation EXCEPT !.shards = Edited1(e, pl.par, Base(pl.man.path), pl.man.node),
                            !.mans = [i \in {r.id} |-> NoManifest]]

(* What Build has checked holds until Commit, and what it has computed is what *)
(* it would compute now.                                                       *)
BuiltFits(p) ==
  LET r == req[p] pl == plan[p] x == ent[pl.par][Base(r.path)] IN
  /\ Standing(pl.par)
  /\ r.kind = "create" => x = None
  /\ r.kind = "delete" => x = pl.node /\ (x \in Dir => Empty(x))
  /\ r.kind = "move" => x # None /\ ent[pl.tgt][Base(r.to)] = None /\ Standing(pl.tgt)
  /\ r.kind = "trash" => x # None /\ AllShards(Below(ent, x)) \subseteq pl.res
  /\ r.kind = "restore" => man[r.id] = pl.man /\ ent[pl.par][Base(pl.man.path)] = None
BuiltOK(p) == pc[p] = "built" => mut[p] = Published(req[p], plan[p], ent) /\ BuiltFits(p)

LeasesOK == \A p, q \in Process :
              p # q /\ pc[p] = "built" /\ pc[q] = "built" => plan[p].res \cap plan[q].res = {}

(* What a permanent deletion is about to destroy is in its group, or gone.     *)
Destroys(p, x) == x \in Group(req[p].id) \/ Gone(x)
PurgeOK(p) ==
  LET m == man[req[p].id] IN
  Purging(p) =>
    /\ req[p].kind = "purge" /\ plan[p].res = {TrashRes(req[p].id)} /\ plan[p].man.node # None
    /\ m.node # None => m.deleting /\ m.node = plan[p].man.node
    /\ m.node = None => Gone(plan[p].man.node)
    /\ pc[p] = "erasing" => work[p] \subseteq File /\ \A f \in work[p] : Destroys(p, f)
    /\ pc[p] = "listed" /\ m.node # None /\ m.cleanup = {} =>
         plan[p].man.cleanup = Below(ent, m.node)
    /\ pc[p] = "cleaning" =>
         /\ work[p] \subseteq Keys /\ \A key \in work[p] : Destroys(p, key[2])
         /\ m.node # None => m.cleanup # {}
         /\ \A x \in m.cleanup : /\ x \in Dir /\ <<"directory", x>> \notin work[p] => Empty(x)
                                 /\ <<"node", x>> \notin work[p] => x \notin rec

(* Payloads and records are only missing where a group is being deleted.       *)
Doomed(x) == \E i \in TrashId : man[i].deleting /\ x \in Group(i)
StoredOK ==
  /\ \A f \in File \ obj : Gone(f) \/ Doomed(f)
  /\ \A x \in Node \ rec : x = Root \/ Placed(x) => Doomed(x)

(* What an operation does not look at again is still as it read it.            *)
LookOK(p) ==
  pc[p] = "planned" =>
    /\ req[p].kind \in {"trash", "restore"} => Standing(plan[p].par)
    /\ Looking(p) => man[req[p].id] = plan[p].man
Looks == \A p \in Process : LookOK(p)

Kept == TreeOK /\ (\A i \in TrashId : GroupOK(i)) /\ FreshOK /\ StoredOK
Steady == /\ \A p \in Process : PlanOK(p) /\ BuiltOK(p) /\ PurgeOK(p)
          /\ LeasesOK
NsInv == NsTypes /\ Kept /\ Steady

-----------------------------------------------------------------------------
(* Facts of any state that has the invariant.                                  *)

LEMMA RequestParts ==
  \A r \in Requests \cup {NoRequest} :
    /\ r.kind = "create" => r.path \in Path /\ r.node \in Node
    /\ r.kind \in {"delete", "move", "trash"} => r.path \in Path
    /\ r.kind = "move" => r.to \in Path
    /\ r.kind \in {"trash", "restore", "purge"} => r.id \in TrashId
    /\ r.kind \in {"none", "create", "delete", "move", "trash", "restore", "purge"}
<1> TAKE r \in Requests \cup {NoRequest}
<1>1. CASE r = NoRequest
  BY <1>1 DEF NoRequest
<1>2. CASE r \in [kind : {"create"}, path : Path, node : Node]
  BY <1>2
<1>3. CASE r \in [kind : {"delete"}, path : Path]
  BY <1>3
<1>4. CASE r \in [kind : {"move"}, path : Path, to : Path]
  BY <1>4
<1>5. CASE r \in [kind : {"trash"}, path : Path, id : TrashId]
  BY <1>5
<1>6. CASE r \in [kind : {"restore", "purge"}, id : TrashId]
  BY <1>6
<1> QED BY <1>1, <1>2, <1>3, <1>4, <1>5, <1>6 DEF Requests

LEMMA NoManifestParts ==
  /\ NoManifest \in Manifest /\ NoManifest.node = None /\ NoManifest.cleanup = {}
  /\ NoManifest.deleting = FALSE /\ NoManifest.path = <<>>
BY DEF NoManifest, Manifest

(* A closed set that a subtree's root is not in, and that has the parents of   *)
(* its members, has nothing of that subtree.                                   *)
LEMMA BelowAvoids ==
  ASSUME NEW e \in Entries, NEW x \in Node, NEW C, x \notin C,
         \A d \in Dir, n \in Name : e[d][n] \in C => d \in C
  PROVE  Below(e, x) \cap C = {}
<1>1. Closed(e, Node \ C)
  BY DEF Closed, Entries, Node
<1>2. Below(e, x) \subseteq Node \ C
  BY <1>1, BelowLeast, NamespaceAssumption
<1> QED BY <1>2

(* A subtree whose root has no entry has the parents of its members.           *)
LEMMA BelowHasParents ==
  ASSUME NEW e \in Entries, OncePlaced(e), NEW x \in Node,
         \A d \in Dir, n \in Name : e[d][n] # x,
         NEW d \in Dir, NEW n \in Name, e[d][n] \in Below(e, x)
  PROVE  d \in Below(e, x)
<1>1. PICK c \in Below(e, x) \cap Dir, m \in Name : e[c][m] = e[d][n]
  BY BelowHasParent, NamespaceAssumption
<1>2. e[d][n] # None
  BY BelowNodes, NamespaceAssumption
<1> QED BY <1>1, <1>2 DEF OncePlaced

GroupPrivate(i) ==
  LET G == Group(i) IN
  /\ G \subseteq Node /\ Closed(ent, G) /\ Root \notin G
  /\ \A d \in Dir, n \in Name : ent[d][n] \in G => d \in G
  /\ \A j \in TrashId \ {i} : man[j].node \notin G
  /\ \A x \in G : ~Unborn(x)
  /\ man[i].node # None => man[i].node \in G
  /\ man[i].cleanup # {} => G = man[i].cleanup
  /\ man[i].cleanup = {} /\ man[i].node # None => G = Below(ent, man[i].node)

LEMMA GroupsPrivate ==
  NsTypes /\ TreeOK /\ (\A i \in TrashId : GroupOK(i)) /\ FreshOK
    => \A i \in TrashId : GroupPrivate(i)
<1> SUFFICES ASSUME NsTypes, TreeOK, \A i \in TrashId : GroupOK(i), FreshOK, NEW i \in TrashId
             PROVE  GroupPrivate(i)
  OBVIOUS
<1> DEFINE m == man[i] x == man[i].node C == man[i].cleanup B == Below(ent, man[i].node)
<1>1. ent \in Entries /\ m \in Manifest /\ x \in Node \cup {None} /\ C \subseteq Node
  BY DEF NsTypes, Manifest
<1>2. CASE x = None
  <2>1. C = {} /\ Group(i) = {}
    BY <1>2, NoManifestParts DEF GroupOK, Group
  <2> QED BY <2>1, <1>2, NamespaceAssumption DEF GroupPrivate, Closed
<1>3. CASE x # None
  <2>0. x \in Node /\ x \in B /\ B \subseteq Node /\ Closed(ent, B)
    BY <1>1, <1>3, BelowHas, BelowNodes, BelowClosed, NamespaceAssumption
  <2>1. Group(i) = B \cup C
    BY <1>3 DEF Group
  <2>2. CASE C # {}
    <3>1. B \subseteq C
      BY <2>2, BelowLeast, NamespaceAssumption DEF GroupOK
    <3>2. Group(i) = C
      BY <2>1, <3>1
    <3> QED BY <3>2, <2>2, <1>1, <1>3 DEF GroupPrivate, GroupOK
  <2>3. CASE C = {}
    <3>1. Group(i) = B
      BY <2>1, <2>3
    <3> HIDE DEF B
    <3>2. \A d \in Dir, n \in Name : ent[d][n] # x
      BY <1>3 DEF TreeOK
    <3>3. \A d \in Dir, n \in Name : ent[d][n] \in B => d \in B
      BY <1>1, <2>0, <3>2, BelowHasParents DEF TreeOK, B
    <3>4. \A y \in B \ {x} : \E d \in Dir, n \in Name : ent[d][n] = y
      BY BelowHasParent, NamespaceAssumption DEF B
    <3>5. Root \notin B
      <4>1. Root # None
        BY NamespaceAssumption DEF Node
      <4> QED BY <1>3, <3>4, <4>1 DEF TreeOK, OncePlaced
    <3>6. ASSUME NEW j \in TrashId \ {i} PROVE man[j].node \notin B
      BY <1>3, <2>0, <3>4, NamespaceAssumption DEF TreeOK
    <3>7. ASSUME NEW y \in B PROVE ~Unborn(y)
      BY <3>4 DEF FreshOK, Unborn, Placed
    <3> QED BY <2>0, <2>3, <3>1, <3>3, <3>5, <3>6, <3>7 DEF GroupPrivate, B
  <2> QED BY <2>2, <2>3
<1> QED BY <1>2, <1>3

(* What can be reached from the root is somewhere, and in no trash group.      *)
LEMMA LiveStands ==
  NsTypes /\ Kept => \A x \in Live : /\ x = Root \/ \E d \in Live \cap Dir, n \in Name : ent[d][n] = x
                                     /\ \A i \in TrashId : x \notin Group(i)
<1> SUFFICES ASSUME NsTypes, Kept, NEW x \in Live
             PROVE  /\ x = Root \/ \E d \in Live \cap Dir, n \in Name : ent[d][n] = x
                    /\ \A i \in TrashId : x \notin Group(i)
  OBVIOUS
<1>1. Live = Below(ent, Root) /\ ent \in Entries /\ Root \in Node
  BY SubtreeIsBelow, NamespaceAssumption DEF Live, NsTypes, Node
<1>2. x = Root \/ \E d \in Live \cap Dir, n \in Name : ent[d][n] = x
  BY <1>1, BelowHasParent, NamespaceAssumption
<1>3. ASSUME NEW i \in TrashId PROVE x \notin Group(i)
  <2>1. GroupPrivate(i)
    BY GroupsPrivate DEF Kept
  <2> QED BY <1>1, <2>1, BelowAvoids DEF GroupPrivate
<1> QED BY <1>2, <1>3

LEMMA ResolvedStands ==
  ASSUME NsTypes, Kept, NEW path \in Seq(Name), Resolve(path) \in Dir
  PROVE  Standing(Resolve(path)) /\ Resolve(path) \in Live
<1>1. Resolve(path) = Walk(ent, path) /\ Live = Below(ent, Root) /\ ent \in Entries
  BY ResolveIsWalk, SubtreeIsBelow DEF Live, NsTypes
<1>2. Resolve(path) \in Live
  BY <1>1, WalkNode, NamespaceAssumption DEF Node
<1> QED BY <1>2, LiveStands DEF Standing, Placed

(* A path with a node at its end has a directory before it.                    *)
LEMMA ResolvedEntry ==
  ASSUME NEW path \in Path, Resolve(path) # None
  PROVE  Resolve(Parent(path)) \in Dir /\ Resolve(path) = ent[Resolve(Parent(path))][Base(path)]
BY ResolveIsWalk, WalkOn

-----------------------------------------------------------------------------
(* Edits of shards.                                                            *)

LEMMA RewriteIsEdited == \A edits : Rewrite(edits) = Edited(ent, edits)
BY DEF Rewrite, Edited

LEMMA EditedAt ==
  ASSUME NEW e, NEW E, NEW d \in Dir, NEW n \in Name
  PROVE  LET hits == {ed \in E : ed[1] = d /\ ed[2] = n}
         IN After(e, Edited(e, E))[d][n] = IF hits = {} THEN e[d][n] ELSE (CHOOSE ed \in hits : TRUE)[3]
<1> DEFINE y == <<d, ShardOf[n]>> D == {<<ed[1], ShardOf[ed[2]]>> : ed \in E}
           hits == {ed \in E : ed[1] = d /\ ed[2] = n}
<1>1. DOMAIN Edited(e, E) = D
  BY DEF Edited
<1>2. After(e, Edited(e, E))[d][n] = IF y \in D THEN Edited(e, E)[y][n] ELSE e[d][n]
  BY <1>1 DEF After
<1>3. CASE y \in D
  <2>1. y[1] = d /\ y[2] = ShardOf[n]
    OBVIOUS
  <2>2. Edited(e, E)[y] = [m \in {k \in Name : ShardOf[k] = y[2]} |->
          LET h == {ed \in E : ed[1] = y[1] /\ ed[2] = m}
          IN IF h = {} THEN e[y[1]][m] ELSE (CHOOSE ed \in h : TRUE)[3]]
    BY <1>3 DEF Edited
  <2> HIDE DEF y
  <2>3. n \in {k \in Name : ShardOf[k] = y[2]}
    BY <2>1
  <2>4. Edited(e, E)[y][n] = LET h == {ed \in E : ed[1] = y[1] /\ ed[2] = n}
                             IN IF h = {} THEN e[y[1]][n] ELSE (CHOOSE ed \in h : TRUE)[3]
    BY <2>2, <2>3
  <2>5. Edited(e, E)[y][n] = IF hits = {} THEN e[d][n] ELSE (CHOOSE ed \in hits : TRUE)[3]
    BY <2>4, <2>1
  <2> QED BY <2>5, <1>2, <1>3
<1>4. CASE y \notin D
  <2>1. hits = {}
    BY <1>4
  <2> QED BY <2>1, <1>2, <1>4
<1> QED BY <1>3, <1>4

LEMMA EditedOne ==
  ASSUME NEW e, NEW c \in Dir, NEW m \in Name, NEW v,
         NEW s, s = Edited1(e, c, m, v), NEW f, f = After(e, s)
  PROVE  \A d \in Dir, n \in Name : f[d][n] = IF d = c /\ n = m THEN v ELSE e[d][n]
<1> TAKE d \in Dir, n \in Name
<1> DEFINE E == {<<c, m, v>>} hits == {ed \in E : ed[1] = d /\ ed[2] = n}
<1>1. f[d][n] = IF hits = {} THEN e[d][n] ELSE (CHOOSE ed \in hits : TRUE)[3]
  <2>1. f = After(e, Edited(e, E))
    BY DEF Edited1
  <2> HIDE DEF E
  <2> QED BY <2>1, EditedAt
<1>2. CASE d = c /\ n = m
  <2>1. hits = {<<c, m, v>>}
    BY <1>2
  <2>2. (CHOOSE ed \in hits : TRUE) = <<c, m, v>>
    BY <2>1
  <2> QED BY <1>1, <1>2, <2>1, <2>2
<1>3. CASE ~(d = c /\ n = m)
  <2>1. hits = {}
    BY <1>3
  <2> QED BY <1>1, <1>3, <2>1
<1> QED BY <1>2, <1>3

LEMMA EditedTwo ==
  ASSUME NEW e, NEW c \in Dir, NEW m \in Name, NEW v, NEW b \in Dir, NEW k \in Name, NEW w,
         ~(c = b /\ m = k), NEW s, s = Edited2(e, c, m, v, b, k, w), NEW f, f = After(e, s)
  PROVE  \A d \in Dir, n \in Name :
           f[d][n] = IF d = c /\ n = m THEN v ELSE IF d = b /\ n = k THEN w ELSE e[d][n]
<1> TAKE d \in Dir, n \in Name
<1> DEFINE E == {<<c, m, v>>, <<b, k, w>>} hits == {ed \in E : ed[1] = d /\ ed[2] = n}
<1>1. f[d][n] = IF hits = {} THEN e[d][n] ELSE (CHOOSE ed \in hits : TRUE)[3]
  <2>1. f = After(e, Edited(e, E))
    BY DEF Edited2
  <2> HIDE DEF E
  <2> QED BY <2>1, EditedAt
<1>2. CASE d = c /\ n = m
  <2>1. hits = {<<c, m, v>>}
    BY <1>2
  <2>2. (CHOOSE ed \in hits : TRUE) = <<c, m, v>>
    BY <2>1
  <2> QED BY <1>1, <1>2, <2>1, <2>2
<1>3. CASE d = b /\ n = k
  <2>1. hits = {<<b, k, w>>}
    BY <1>3
  <2>2. (CHOOSE ed \in hits : TRUE) = <<b, k, w>>
    BY <2>1
  <2> QED BY <1>1, <1>3, <2>1, <2>2
<1>4. CASE ~(d = c /\ n = m) /\ ~(d = b /\ n = k)
  <2>1. hits = {}
    BY <1>4
  <2> QED BY <1>1, <1>4, <2>1
<1> QED BY <1>2, <1>3, <1>4

(* The contents of the shards to be written depend on those shards only.       *)
LEMMA EditedSame ==
  ASSUME NEW e, NEW f, NEW E,
         \A ed \in E, n \in Name : ShardOf[n] = ShardOf[ed[2]] => f[ed[1]][n] = e[ed[1]][n]
  PROVE  Edited(f, E) = Edited(e, E)
<1> DEFINE D == {<<ed[1], ShardOf[ed[2]]>> : ed \in E}
           N(y) == {m \in Name : ShardOf[m] = y[2]}
           V(g, y, n) == LET hits == {ed \in E : ed[1] = y[1] /\ ed[2] = n}
                         IN IF hits = {} THEN g[y[1]][n] ELSE (CHOOSE ed \in hits : TRUE)[3]
<1>1. ASSUME NEW y \in D PROVE [n \in N(y) |-> V(f, y, n)] = [n \in N(y) |-> V(e, y, n)]
  <2>1. ASSUME NEW n \in N(y) PROVE V(f, y, n) = V(e, y, n)
    <3>1. PICK ed \in E : y = <<ed[1], ShardOf[ed[2]]>>
      OBVIOUS
    <3>2. f[y[1]][n] = e[y[1]][n]
      BY <3>1
    <3> QED BY <3>2
  <2> HIDE DEF N, V
  <2> QED BY <2>1
<1>2. Edited(f, E) = [y \in D |-> [n \in N(y) |-> V(f, y, n)]]
  BY DEF Edited
<1>3. Edited(e, E) = [y \in D |-> [n \in N(y) |-> V(e, y, n)]]
  BY DEF Edited
<1> HIDE DEF D, N, V
<1> QED BY <1>1, <1>2, <1>3

LEMMA EditedOneSame ==
  ASSUME NEW e, NEW f, NEW c, NEW m, NEW v, \A n \in Name : ShardOf[n] = ShardOf[m] => f[c][n] = e[c][n]
  PROVE  Edited1(f, c, m, v) = Edited1(e, c, m, v)
<1> DEFINE E == {<<c, m, v>>}
<1>1. \A ed \in E, n \in Name : ShardOf[n] = ShardOf[ed[2]] => f[ed[1]][n] = e[ed[1]][n]
  OBVIOUS
<1> HIDE DEF E
<1>2. Edited(f, E) = Edited(e, E)
  BY <1>1, EditedSame
<1> QED BY <1>2 DEF E, Edited1

LEMMA EditedTwoSame ==
  ASSUME NEW e, NEW f, NEW c, NEW m, NEW v, NEW b, NEW k, NEW w,
         \A n \in Name : ShardOf[n] = ShardOf[m] => f[c][n] = e[c][n],
         \A n \in Name : ShardOf[n] = ShardOf[k] => f[b][n] = e[b][n]
  PROVE  Edited2(f, c, m, v, b, k, w) = Edited2(e, c, m, v, b, k, w)
<1> DEFINE E == {<<c, m, v>>, <<b, k, w>>}
<1>1. \A ed \in E, n \in Name : ShardOf[n] = ShardOf[ed[2]] => f[ed[1]][n] = e[ed[1]][n]
  OBVIOUS
<1> HIDE DEF E
<1>2. Edited(f, E) = Edited(e, E)
  BY <1>1, EditedSame
<1> QED BY <1>2 DEF E, Edited2

-----------------------------------------------------------------------------
(* The initial states.                                                         *)

LEMMA InitInv == Init => NsInv
<1> SUFFICES ASSUME Init PROVE NsInv
  OBVIOUS
<1>1. ent = Tree /\ man = [i \in TrashId |-> NoManifest] /\ \A p \in Process : pc[p] = "idle"
  BY DEF Init
<1>2. \A i \in TrashId : man[i] = NoManifest
  BY <1>1
<1>3. \A p \in Process : req[p] \in Request[p]
  BY DEF Init
<1>4. NsTypes
  <2>1. Root \in Node /\ NoManifest \in Manifest /\ NoPlan \in AnyPlan
    <3>1. NoManifest \in Manifest
      BY NoManifestParts
    <3> QED BY <3>1, NamespaceAssumption DEF Node, NoPlan, AnyPlan
  <2>2. ent \in Entries /\ man \in [TrashId -> Manifest]
    BY <1>1, <2>1, NamespaceAssumption DEF Entries
  <2>3. rec \subseteq Node /\ obj \subseteq File
    <3>1. \A y \in Dir \X Name : Tree[y[1]][y[2]] \in Node \cup {None}
      BY NamespaceAssumption
    <3> QED BY <3>1, <2>1 DEF Init
  <2>4. pc \in [Process -> Phases] /\ plan \in [Process -> AnyPlan] /\ DOMAIN work = Process
    BY <2>1 DEF Init, Phases
  <2>5. DOMAIN mut = Process /\ \A p \in Process : mut[p] = NoMutation
    BY DEF Init
  <2>6. req \in [Process -> Requests \cup {NoRequest}]
    <3>1. req \in [Process -> UNION {Request[p] : p \in Process}]
      BY DEF Init
    <3> QED BY <3>1, <1>3, NamespaceAssumption
  <2> QED BY <2>2, <2>3, <2>4, <2>5, <2>6, <1>3 DEF NsTypes
<1>5. \A x \in Node : Placed(x) => \E d \in Dir, n \in Name : Tree[d][n] = x
  BY <1>1, <1>2, NoManifestParts, NamespaceAssumption DEF Placed
<1>6. TreeOK
  <2>1. OncePlaced(ent)
    BY <1>1, NamespaceAssumption DEF IsTree, OncePlaced
  <2> QED BY <2>1, <1>2, NoManifestParts DEF TreeOK
<1>7. \A i \in TrashId : GroupOK(i)
  BY <1>2, NoManifestParts DEF GroupOK
<1>8. FreshOK
  <2> SUFFICES ASSUME NEW p \in Process
               PROVE  /\ req[p].kind = "create" => ~Placed(req[p].node)
                      /\ req[p].kind = "trash" => /\ man[req[p].id].node = None
                                                  /\ \A q \in Process : ~Purging(q)
    BY DEF FreshOK
  <2>0. req[p] \in Requests \cup {NoRequest}
    BY <1>3, NamespaceAssumption
  <2>1. req[p].kind = "create" => ~Placed(req[p].node)
    <3> SUFFICES ASSUME req[p].kind = "create" PROVE ~Placed(req[p].node)
      OBVIOUS
    <3>1. req[p].node \in Node
      BY <2>0, RequestParts
    <3> QED BY <1>3, <1>5, <3>1, NamespaceAssumption DEF FreshIds
  <2>2. req[p].kind = "trash" => req[p].id \in TrashId
    BY <2>0, RequestParts
  <2> QED BY <2>1, <2>2, <1>1, <1>2, NoManifestParts DEF Purging
<1>9. StoredOK
  <2>1. \A x \in Node : x = Root \/ Placed(x) => x \in rec
    <3> TAKE x \in Node
    <3>1. ASSUME NEW d \in Dir, NEW n \in Name, Tree[d][n] = x PROVE x \in rec
      <4>1. <<d, n>> \in Dir \X Name /\ Tree[<<d, n>>[1]][<<d, n>>[2]] = x
        BY <3>1
      <4> QED BY <4>1, NamespaceAssumption DEF Init
    <3>2. x = Root => x \in rec
      BY NamespaceAssumption DEF Init
    <3> QED BY <1>5, <3>1, <3>2
  <2>2. obj = File
    BY DEF Init
  <2> QED BY <2>1, <2>2 DEF StoredOK
<1>10. Steady
  BY <1>1 DEF Steady, PlanOK, PlanFits, BuiltOK, BuiltFits, PurgeOK, Purging, LeasesOK
<1> QED BY <1>4, <1>6, <1>7, <1>8, <1>9, <1>10 DEF NsInv, Kept

-----------------------------------------------------------------------------
(* What the steps of others leave alone.                                       *)

LEMMA TypesOf ==
  NsTypes => \A q \in Process :
    LET r == req[q] pl == plan[q] IN
    /\ r \in Requests \cup {NoRequest} /\ pl \in AnyPlan
    /\ r.kind = "create" => r.path \in Path /\ Base(r.path) \in Name /\ r.node \in Node
    /\ r.kind \in {"delete", "move", "trash"} => r.path \in Path /\ Base(r.path) \in Name
    /\ r.kind = "move" => r.to \in Path /\ Base(r.to) \in Name
    /\ r.kind \in {"trash", "restore", "purge"} => r.id \in TrashId
    /\ pl.man \in Manifest /\ pl.res \subseteq Resource
    /\ pl.par \in Node \cup {None} /\ pl.tgt \in Node \cup {None} /\ pl.node \in Node \cup {None}
<1> SUFFICES ASSUME NsTypes, NEW q \in Process
             PROVE  LET r == req[q] pl == plan[q] IN
                    /\ r \in Requests \cup {NoRequest} /\ pl \in AnyPlan
                    /\ r.kind = "create" => r.path \in Path /\ Base(r.path) \in Name /\ r.node \in Node
                    /\ r.kind \in {"delete", "move", "trash"} => r.path \in Path /\ Base(r.path) \in Name
                    /\ r.kind = "move" => r.to \in Path /\ Base(r.to) \in Name
                    /\ r.kind \in {"trash", "restore", "purge"} => r.id \in TrashId
                    /\ pl.man \in Manifest /\ pl.res \subseteq Resource
                    /\ pl.par \in Node \cup {None} /\ pl.tgt \in Node \cup {None}
                    /\ pl.node \in Node \cup {None}
  OBVIOUS
<1>1. req[q] \in Requests \cup {NoRequest} /\ plan[q] \in AnyPlan
  BY DEF NsTypes
<1>2. \A path \in Path : Base(path) \in Name
  BY PathParts
<1> QED BY <1>1, <1>2, RequestParts DEF AnyPlan

(* What is found in a directory that stands, with all that is below it.        *)
LEMMA HeldStands ==
  ASSUME NsTypes, Kept, NEW c \in Dir, NEW n \in Name, Standing(c), ent[c][n] # None
  PROVE  /\ ent[c][n] \in Node /\ ent[c][n] # Root
         /\ \A i \in TrashId : ent[c][n] \notin Group(i)
         /\ \A d \in Below(ent, ent[c][n]) \cap Dir : Standing(d)
<1> DEFINE x == ent[c][n]
<1>1. ent \in Entries /\ x \in Node /\ x # Root
  BY DEF NsTypes, Kept, TreeOK, OncePlaced, Entries
<1>2. ASSUME NEW i \in TrashId PROVE x \notin Group(i) /\ Below(ent, x) \cap Group(i) = {}
  <2>1. GroupPrivate(i)
    BY GroupsPrivate DEF Kept
  <2>2. x \notin Group(i)
    BY <2>1 DEF GroupPrivate, Standing
  <2> QED BY <1>1, <2>1, <2>2, BelowAvoids DEF GroupPrivate
<1>3. ASSUME NEW d \in Below(ent, x) \cap Dir PROVE Standing(d)
  <2>1. Placed(d)
    BY <1>3, BelowHasParent, NamespaceAssumption DEF Placed
  <2> QED BY <2>1, <1>2, <1>3 DEF Standing
<1> QED BY <1>1, <1>2, <1>3

LEMMA DirectoryShards ==
  ASSUME NEW S, NEW d \in S \cap Dir, NEW n \in Name
  PROVE  ShardRes(d, n) \in AllShards(S)
BY DEF ShardRes, AllShards, Shard

(* Nothing that q holds a lease on changes, where q may look.                  *)
Untouched(q) ==
  /\ \A d \in Dir, n \in Name :
       Standing(d) /\ ShardRes(d, n) \in plan[q].res => Standing(d)' /\ ent'[d][n] = ent[d][n]
  /\ \A i \in TrashId : TrashRes(i) \in plan[q].res => man'[i] = man[i]

LEMMA EntryKept ==
  ASSUME NEW q \in Process, Untouched(q), NEW c \in Dir, NEW m \in Name, Standing(c),
         ShardRes(c, m) \in plan[q].res
  PROVE  /\ Standing(c)' /\ ent'[c][m] = ent[c][m]
         /\ \A n \in Name : ShardOf[n] = ShardOf[m] => ent'[c][n] = ent[c][n]
BY DEF Untouched, ShardRes

LEMMA BuiltKept ==
  ASSUME NsTypes, Kept, ent' \in Entries, NEW q \in Process, PlanOK(q), BuiltOK(q),
         pc'[q] = pc[q], req'[q] = req[q], plan'[q] = plan[q], mut'[q] = mut[q],
         pc[q] = "built" => Untouched(q)
  PROVE  BuiltOK(q)'
<1> SUFFICES ASSUME pc[q] = "built" PROVE BuiltOK(q)'
  BY DEF BuiltOK, BuiltFits
<1> DEFINE r == req[q] pl == plan[q] x == ent[pl.par][Base(r.path)]
<1>0. /\ Untouched(q) /\ ent \in Entries /\ r.kind # "purge" /\ r.kind # "none"
      /\ pl.par \in Dir /\ Standing(pl.par)
  BY DEF PlanOK, PlanFits, BuiltOK, BuiltFits, NsTypes
<1>1. \A path \in Path : Base(path) \in Name
  BY PathParts
<1>2. ASSUME r.kind \in {"create", "delete", "move", "trash"}
      PROVE  /\ Standing(pl.par)' /\ ent'[pl.par][Base(r.path)] = x /\ Base(r.path) \in Name
             /\ \A n \in Name : ShardOf[n] = ShardOf[Base(r.path)] => ent'[pl.par][n] = ent[pl.par][n]
  <2>1. ShardRes(pl.par, Base(r.path)) \in pl.res
    BY <1>2 DEF PlanOK, PlanFits
  <2>2. Base(r.path) \in Name
    BY <1>2, TypesOf
  <2> QED BY <1>0, <2>1, <2>2, EntryKept
<1>3. CASE r.kind = "create"
  <2>1. Edited1(ent', pl.par, Base(r.path), r.node) = Edited1(ent, pl.par, Base(r.path), r.node)
    BY <1>2, <1>3, EditedOneSame
  <2>2. Published(r, pl, ent') = Published(r, pl, ent)
    BY <1>3, <2>1 DEF Published
  <2> QED BY <1>2, <1>3, <2>2 DEF BuiltOK, BuiltFits
<1>4. CASE r.kind = "delete"
  <2>1. Edited1(ent', pl.par, Base(r.path), None) = Edited1(ent, pl.par, Base(r.path), None)
    BY <1>2, <1>4, EditedOneSame
  <2>2. Published(r, pl, ent') = Published(r, pl, ent)
    BY <1>4, <2>1 DEF Published
  <2>3. ASSUME x \in Dir, Empty(x), NEW n \in Name PROVE ent'[x][n] = None
    <3>1. x = pl.node /\ AllShards({x}) \subseteq pl.res
      BY <1>4 DEF PlanOK, PlanFits, BuiltOK, BuiltFits
    <3>2. x # None
      BY <2>3, NamespaceAssumption DEF Node
    <3>3. Standing(x)
      BY <1>0, <1>2, <1>4, <2>3, <3>2, HeldStands, BelowHas, NamespaceAssumption
    <3>4. ent'[x][n] = ent[x][n]
      BY <1>0, <2>3, <3>1, <3>3, DirectoryShards DEF Untouched
    <3> QED BY <2>3, <3>4 DEF Empty
  <2>4. x = pl.node /\ (x \in Dir => Empty(x))
    BY <1>4 DEF BuiltOK, BuiltFits
  <2> QED BY <1>2, <1>4, <2>2, <2>3, <2>4 DEF BuiltOK, BuiltFits, Empty
<1>5. CASE r.kind = "move"
  <2> DEFINE y == ent[pl.tgt][Base(r.to)]
  <2>1. pl.tgt \in Dir /\ Standing(pl.tgt) /\ ShardRes(pl.tgt, Base(r.to)) \in pl.res /\ Base(r.to) \in Name
    BY <1>5, TypesOf DEF PlanOK, PlanFits, BuiltOK, BuiltFits
  <2>2. /\ Standing(pl.tgt)' /\ ent'[pl.tgt][Base(r.to)] = y
        /\ \A n \in Name : ShardOf[n] = ShardOf[Base(r.to)] => ent'[pl.tgt][n] = ent[pl.tgt][n]
    BY <1>0, <2>1, EntryKept
  <2>3. Edited2(ent', pl.par, Base(r.path), None, pl.tgt, Base(r.to), x) =
          Edited2(ent, pl.par, Base(r.path), None, pl.tgt, Base(r.to), x)
    BY <1>2, <1>5, <2>2, EditedTwoSame
  <2>4. Published(r, pl, ent') = Published(r, pl, ent)
    BY <1>2, <1>5, <2>3 DEF Published
  <2>5. x # None /\ y = None
    BY <1>5 DEF BuiltOK, BuiltFits
  <2> QED BY <1>2, <1>5, <2>2, <2>4, <2>5 DEF BuiltOK, BuiltFits
<1>6. CASE r.kind = "trash"
  <2>1. Edited1(ent', pl.par, Base(r.path), None) = Edited1(ent, pl.par, Base(r.path), None)
    BY <1>2, <1>6, EditedOneSame
  <2>2. Published(r, pl, ent') = Published(r, pl, ent)
    BY <1>2, <1>6, <2>1 DEF Published
  <2>3. x # None /\ AllShards(Below(ent, x)) \subseteq pl.res
    BY <1>6 DEF BuiltOK, BuiltFits
  <2>4. Below(ent', x) = Below(ent, x)
    <3>2. ASSUME NEW d \in Below(ent, x) \cap Dir, NEW n \in Name PROVE ent'[d][n] = ent[d][n]
      <4>1. Standing(d)
        BY <1>0, <1>2, <1>6, <2>3, HeldStands
      <4>2. ShardRes(d, n) \in pl.res
        BY <2>3, DirectoryShards
      <4> QED BY <1>0, <4>1, <4>2 DEF Untouched
    <3> QED BY <3>2, BelowSame, NamespaceAssumption
  <2> QED BY <1>2, <1>6, <2>2, <2>3, <2>4 DEF BuiltOK, BuiltFits
<1>7. CASE r.kind = "restore"
  <2> DEFINE b == Base(pl.man.path)
  <2>1. pl.man.path \in Path /\ ShardRes(pl.par, b) \in pl.res /\ TrashRes(r.id) \in pl.res /\ b \in Name
    BY <1>1, <1>7 DEF PlanOK, PlanFits
  <2>2. /\ Standing(pl.par)' /\ ent'[pl.par][b] = ent[pl.par][b]
        /\ \A n \in Name : ShardOf[n] = ShardOf[b] => ent'[pl.par][n] = ent[pl.par][n]
    BY <1>0, <2>1, EntryKept
  <2>3. Edited1(ent', pl.par, b, pl.man.node) = Edited1(ent, pl.par, b, pl.man.node)
    BY <2>2, EditedOneSame
  <2>4. Published(r, pl, ent') = Published(r, pl, ent)
    BY <1>7, <2>3 DEF Published
  <2>5. man'[r.id] = man[r.id]
    BY <1>0, <1>7, <2>1, TypesOf DEF Untouched
  <2>6. man[r.id] = pl.man /\ ent[pl.par][b] = None
    BY <1>7 DEF BuiltOK, BuiltFits
  <2> QED BY <1>7, <2>2, <2>4, <2>5, <2>6 DEF BuiltOK, BuiltFits
<1>8. r.kind \in {"create", "delete", "move", "trash", "restore"}
  BY <1>0, TypesOf, RequestParts
<1> QED BY <1>3, <1>4, <1>5, <1>6, <1>7, <1>8

(* The group of a permanent deletion stays as it is, or is gone with all it    *)
(* has.                                                                        *)
GroupStays(i) ==
  /\ man'[i].node # None =>
       /\ man[i].node = man'[i].node /\ (man[i].deleting => man'[i].deleting) /\ Group(i)' = Group(i)
       /\ man[i].cleanup # {} => man'[i].cleanup = man[i].cleanup
  /\ man'[i].node = None => man'[i].cleanup = {} /\ \A x \in Group(i) : Gone(x)'
  /\ \A x \in man[i].cleanup : /\ x \in Dir /\ Empty(x) => Empty(x)'
                               /\ x \in rec' => x \in rec

LEMMA PurgeKept ==
  ASSUME NsTypes, Kept, NEW q \in Process, PurgeOK(q), Purging(q),
         pc'[q] = pc[q], req'[q] = req[q], plan'[q] = plan[q], work'[q] = work[q],
         \A x \in Node : Gone(x) => Gone(x)', NEW i, i = req[q].id, GroupStays(i)
  PROVE  PurgeOK(q)'
<1> DEFINE node == plan[q].man.node
<1>0. /\ req[q].kind = "purge" /\ i \in TrashId /\ plan[q].res = {TrashRes(i)} /\ node # None
      /\ node \in Node
  BY TypesOf DEF PurgeOK, Manifest
<1>1. man[i].node # None => man[i].node \in Group(i)
  BY <1>0, BelowHas, NamespaceAssumption DEF Group
<1>2. \A x \in Node : Destroys(q, x) => x \in Group(i)' \/ Gone(x)'
  BY <1>0 DEF Destroys, GroupStays, Group
<1>3. Purging(q)'
  BY DEF Purging
<1>4. man'[i].node # None => man'[i].deleting /\ man'[i].node = node
  BY DEF GroupStays, PurgeOK
<1>5. man'[i].node = None => Gone(node)'
  BY <1>0, <1>1 DEF GroupStays, PurgeOK
<1>6. pc[q] = "erasing" => work[q] \subseteq File /\ \A f \in work[q] : f \in Group(i)' \/ Gone(f)'
  <2>1. File \subseteq Node
    BY DEF Node
  <2> QED BY <1>2, <2>1 DEF PurgeOK
<1>7. pc[q] = "listed" /\ man'[i].node # None /\ man'[i].cleanup = {} =>
        plan[q].man.cleanup = Below(ent', man'[i].node)
  <2> SUFFICES ASSUME pc[q] = "listed", man'[i].node # None, man'[i].cleanup = {}
               PROVE  plan[q].man.cleanup = Below(ent', man'[i].node)
    OBVIOUS
  <2>1. man[i].node # None /\ man[i].cleanup = {} /\ Group(i)' = Group(i)
    BY DEF GroupStays
  <2>2. Group(i) = Below(ent, man[i].node) /\ Group(i)' = Below(ent', man'[i].node)
    BY <2>1 DEF Group
  <2> QED BY <2>1, <2>2 DEF PurgeOK
<1>8. ASSUME pc[q] = "cleaning"
      PROVE  /\ work[q] \subseteq Keys /\ \A key \in work[q] : key[2] \in Group(i)' \/ Gone(key[2])'
             /\ man'[i].node # None => man'[i].cleanup # {}
             /\ \A x \in man'[i].cleanup : /\ x \in Dir /\ <<"directory", x>> \notin work[q] => Empty(x)'
                                           /\ <<"node", x>> \notin work[q] => x \notin rec'
  <2>1. work[q] \subseteq Keys /\ \A key \in work[q] : Destroys(q, key[2])
    BY <1>8 DEF PurgeOK
  <2>2. \A key \in work[q] : key[2] \in Node
    BY <2>1 DEF Keys, Node
  <2>3. man'[i].node # None => man[i].cleanup # {} /\ man'[i].cleanup = man[i].cleanup
    BY <1>8 DEF GroupStays, PurgeOK
  <2>4. \A x \in man'[i].cleanup : /\ x \in Dir /\ <<"directory", x>> \notin work[q] => Empty(x)'
                                   /\ <<"node", x>> \notin work[q] => x \notin rec'
    BY <1>8, <2>3 DEF GroupStays, PurgeOK
  <2> QED BY <1>2, <2>1, <2>2, <2>3, <2>4
<1> QED BY <1>0, <1>3, <1>4, <1>5, <1>6, <1>7, <1>8 DEF PurgeOK, Destroys

-----------------------------------------------------------------------------
(* Steps that leave the tree, the trash and the records as they are.           *)

Quiet(p) ==
  /\ UNCHANGED stored
  /\ pc' \in [Process -> Phases] /\ plan' \in [Process -> AnyPlan] /\ DOMAIN work' = Process
  /\ DOMAIN mut' = Process /\ req' \in [Process -> Requests \cup {NoRequest}]
  /\ req'[p] \in {req[p], NoRequest} /\ (pc'[p] # "built" => mut'[p] = NoMutation)
  /\ Purging(p)' => req'[p] = req[p] /\ (Purging(p) \/ man[req[p].id].node # None)
  /\ \A q \in Process \ {p} : /\ pc'[q] = pc[q] /\ req'[q] = req[q] /\ plan'[q] = plan[q]
                              /\ mut'[q] = mut[q] /\ work'[q] = work[q]

LEMMA QuietKept ==
  ASSUME NsInv, NEW p \in Process, Quiet(p), PlanOK(p)', BuiltOK(p)', PurgeOK(p)',
         pc'[p] = "built" => plan'[p].res = plan[p].res /\ Unleased(plan[p].res, p)
  PROVE  NsInv'
<1>1. NsTypes /\ Kept /\ Steady /\ UNCHANGED stored
  BY DEF NsInv, Quiet
<1>2. UNCHANGED <<ent, man, rec, obj>>
  BY <1>1 DEF stored
<1>3. \A q \in Process :
        /\ req'[q] \in {req[q], NoRequest}
        /\ Purging(q)' => req'[q] = req[q] /\ (Purging(q) \/ man[req[q].id].node # None)
  BY DEF Quiet, Purging
<1>4. NsTypes'
  <2>1. \A q \in Process : pc'[q] # "built" => mut'[q] = NoMutation
    BY <1>1 DEF NsTypes, Quiet
  <2> QED BY <1>1, <1>2, <1>3, <2>1 DEF NsTypes, Quiet
<1>5. \A x : (Placed(x)' <=> Placed(x)) /\ (Unborn(x)' => Unborn(x)) /\ (Gone(x) => Gone(x)')
  <2>1. \A x : Placed(x)' <=> Placed(x)
    BY <1>2 DEF Placed
  <2>2. \A x : Unborn(x)' => Unborn(x)
    BY <1>3 DEF Unborn, NoRequest
  <2>3. \A x : Empty(x)' <=> Empty(x)
    BY <1>2 DEF Empty
  <2> QED BY <2>1, <2>2, <2>3 DEF Gone
<1>6. \A i \in TrashId : Group(i)' = Group(i)
  BY <1>2 DEF Group
<1>7. Kept'
  <2>1. TreeOK'
    BY <1>1, <1>2 DEF Kept, TreeOK
  <2>2. \A i \in TrashId : GroupOK(i)'
    BY <1>1, <1>2, <1>5 DEF Kept, GroupOK
  <2>3. FreshOK'
    <3> SUFFICES ASSUME NEW q \in Process
                 PROVE  /\ req'[q].kind = "create" => ~Placed(req[q].node)'
                        /\ req'[q].kind = "trash" => /\ man'[req'[q].id].node = None
                                                     /\ \A o \in Process : Purging(o)' => req'[o].id # req'[q].id
      BY DEF FreshOK
    <3>1. CASE req'[q] = NoRequest
      BY <3>1 DEF NoRequest
    <3>2. CASE req'[q] = req[q]
      <4>1. req'[q].kind = "create" => ~Placed(req[q].node)'
        BY <1>1, <1>2, <3>2 DEF Kept, FreshOK, Placed
      <4>2. req'[q].kind = "trash" => /\ man'[req'[q].id].node = None
                                      /\ \A o \in Process : Purging(o)' => req'[o].id # req'[q].id
        BY <1>1, <1>2, <1>3, <3>2 DEF Kept, FreshOK
      <4> QED BY <4>1, <4>2
    <3> QED BY <1>3, <3>1, <3>2
  <2>4. StoredOK'
    <3>1. \A x : Doomed(x) => Doomed(x)'
      BY <1>2, <1>6 DEF Doomed
    <3> QED BY <1>1, <1>2, <1>5, <3>1 DEF Kept, StoredOK
  <2> QED BY <2>1, <2>2, <2>3, <2>4 DEF Kept
<1>8. ASSUME NEW q \in Process \ {p} PROVE PlanOK(q)' /\ BuiltOK(q)' /\ PurgeOK(q)'
  <2>1. PlanOK(q) /\ BuiltOK(q) /\ PurgeOK(q)
    BY <1>1 DEF Steady
  <2>2. /\ pc'[q] = pc[q] /\ req'[q] = req[q] /\ plan'[q] = plan[q]
        /\ mut'[q] = mut[q] /\ work'[q] = work[q]
    BY DEF Quiet
  <2>3. PlanOK(q)'
    BY <2>1, <2>2 DEF PlanOK, PlanFits
  <2>4. BuiltOK(q)'
    <3>1. \A d : Standing(d) => Standing(d)'
      BY <1>5, <1>6 DEF Standing
    <3>2. Untouched(q) /\ ent' \in Entries
      BY <1>1, <1>2, <3>1 DEF Untouched, NsTypes
    <3> QED BY <1>1, <2>1, <2>2, <3>2, BuiltKept
  <2>5. PurgeOK(q)'
    <3>1. CASE Purging(q)
      <4>1. PICK i \in TrashId : i = req[q].id
        BY <1>1, <2>1, <3>1, TypesOf DEF PurgeOK
      <4>2. GroupOK(i)
        BY <1>1 DEF Kept
      <4>3. GroupStays(i)
        <5>1. man[i].node = None => man[i].cleanup = {} /\ Group(i) = {}
          BY <4>2, NoManifestParts DEF GroupOK, Group
        <5>2. man'[i] = man[i] /\ Group(i)' = Group(i) /\ rec' = rec
          BY <1>2, <1>6
        <5>3. \A x : Empty(x) => Empty(x)'
          BY <1>2 DEF Empty
        <5> QED BY <5>1, <5>2, <5>3 DEF GroupStays
      <4> QED BY <1>1, <1>5, <2>1, <2>2, <3>1, <4>1, <4>3, PurgeKept
    <3>2. CASE ~Purging(q)
      BY <2>2, <3>2 DEF Purging, PurgeOK
    <3> QED BY <3>1, <3>2
  <2> QED BY <2>3, <2>4, <2>5
<1>9. LeasesOK'
  <2> SUFFICES ASSUME NEW a \in Process, NEW b \in Process, a # b, pc'[a] = "built", pc'[b] = "built"
               PROVE  plan'[a].res \cap plan'[b].res = {}
    BY DEF LeasesOK
  <2>1. CASE a # p /\ b # p
    BY <1>1, <2>1 DEF Quiet, Steady, LeasesOK
  <2>2. CASE a = p
    <3>1. pc[b] = "built" /\ plan'[b] = plan[b] /\ b \in Process \ {p}
      BY <2>2 DEF Quiet
    <3> QED BY <2>2, <3>1 DEF Unleased, Held
  <2>3. CASE b = p
    <3>1. pc[a] = "built" /\ plan'[a] = plan[a] /\ a \in Process \ {p}
      BY <2>3 DEF Quiet
    <3> QED BY <2>3, <3>1 DEF Unleased, Held
  <2> QED BY <2>1, <2>2, <2>3
<1> QED BY <1>4, <1>7, <1>8, <1>9 DEF NsInv, Steady

LEMMA PlannedKept ==
  ASSUME NsInv, NEW p \in Process, NEW value \in AnyPlan, Planned(p, value), PlanFits(req[p], value),
         req[p].kind = "purge" => value.man = man[req[p].id]
  PROVE  NsInv'
<1>1. NsTypes
  BY DEF NsInv
<1>2. /\ pc[p] = "idle" /\ pc' = [pc EXCEPT ![p] = "planned"] /\ plan' = [plan EXCEPT ![p] = value]
      /\ UNCHANGED <<stored, req, mut, work>>
  BY DEF Planned
<1>3. pc'[p] = "planned" /\ plan'[p] = value /\ req' = req
  BY <1>1, <1>2 DEF NsTypes
<1>4. Quiet(p)
  <2>1. pc' \in [Process -> Phases] /\ plan' \in [Process -> AnyPlan] /\ DOMAIN work' = Process
    BY <1>1, <1>2 DEF NsTypes, Phases
  <2>2. DOMAIN mut' = Process /\ req' \in [Process -> Requests \cup {NoRequest}]
    BY <1>1, <1>2 DEF NsTypes
  <2>3. pc'[p] # "built" => mut'[p] = NoMutation
    BY <1>1, <1>2 DEF NsTypes
  <2>4. Purging(p)' => man[req[p].id].node # None
    BY <1>3 DEF Purging, PlanFits
  <2>5. \A q \in Process \ {p} : /\ pc'[q] = pc[q] /\ req'[q] = req[q] /\ plan'[q] = plan[q]
                                 /\ mut'[q] = mut[q] /\ work'[q] = work[q]
    BY <1>1, <1>2 DEF NsTypes
  <2> QED BY <1>2, <1>3, <2>1, <2>2, <2>3, <2>4, <2>5 DEF Quiet
<1>5. PlanOK(p)' /\ BuiltOK(p)'
  BY <1>3 DEF PlanOK, BuiltOK, BuiltFits
<1>6. PurgeOK(p)'
  <2>1. man' = man
    BY <1>2 DEF stored
  <2> QED BY <1>3, <2>1 DEF PurgeOK, Purging, PlanFits
<1> QED BY <1>3, <1>4, <1>5, <1>6, QuietKept

LEMMA ResourceTypes ==
  /\ \A d \in Dir, n \in Name : ShardRes(d, n) \in Resource
  /\ \A S : AllShards(S) \subseteq Resource
  /\ \A i \in TrashId : TrashRes(i) \in Resource
BY DEF ShardRes, AllShards, TrashRes, Resource, Shard

LEMMA NoPlanParts ==
  /\ NoPlan \in AnyPlan /\ NoPlan.par = None /\ NoPlan.tgt = None /\ NoPlan.node = None
  /\ NoPlan.man = NoManifest /\ NoPlan.res = {}
BY NoManifestParts DEF NoPlan, AnyPlan

(* What a request plans, and which manifest it has read.                       *)
LEMMA PlanValue ==
  ASSUME NsTypes, PathsOK, NEW p \in Process,
         PlanCreate(p) \/ PlanDelete(p) \/ PlanMove(p) \/ PlanTrash(p) \/ PlanRestore(p) \/ PlanClaim(p)
  PROVE  \E value \in AnyPlan :
           /\ Planned(p, value) /\ PlanFits(req[p], value)
           /\ req[p].kind = "purge" => value.man = man[req[p].id]
           /\ value.man = NoManifest \/ \E i \in TrashId : value.man = man[i]
<1> DEFINE r == req[p]
<1>1. CASE PlanCreate(p)
  <2> DEFINE par == Resolve(Parent(r.path)) res == {ShardRes(par, Base(r.path))}
             value == [NoPlan EXCEPT !.par = par, !.res = res]
  <2>1. r.kind = "create" /\ par \in Dir /\ Planned(p, value)
    BY <1>1 DEF PlanCreate
  <2>2. Base(r.path) \in Name
    BY <2>1, TypesOf
  <2> HIDE DEF par
  <2>3. res \subseteq Resource /\ par \in Node
    BY <2>1, <2>2, ResourceTypes DEF Node
  <2>4. value \in AnyPlan /\ value.par = par /\ value.res = res /\ value.man = NoManifest
    BY <2>3, NoPlanParts DEF AnyPlan
  <2>5. PlanFits(r, value)
    BY <2>1, <2>4 DEF PlanFits
  <2> HIDE DEF value
  <2> QED BY <2>1, <2>4, <2>5
<1>2. CASE PlanDelete(p)
  <2> DEFINE par == Resolve(Parent(r.path)) node == Resolve(r.path)
             res == {ShardRes(par, Base(r.path))} \cup AllShards({node})
             value == [NoPlan EXCEPT !.par = par, !.node = node, !.res = res]
  <2>1. r.kind = "delete" /\ node # None /\ Planned(p, value)
    BY <1>2 DEF PlanDelete
  <2>2. r.path \in Path /\ Base(r.path) \in Name
    BY <2>1, TypesOf
  <2>3. par \in Dir /\ node \in Node
    <3>1. par \in Dir /\ node = ent[par][Base(r.path)]
      BY <2>1, <2>2, ResolvedEntry
    <3> QED BY <2>1, <2>2, <3>1 DEF NsTypes, Entries
  <2> HIDE DEF par, node
  <2>4. res \subseteq Resource /\ par \in Node
    BY <2>2, <2>3, ResourceTypes DEF Node
  <2>5. value \in AnyPlan /\ value.par = par /\ value.node = node /\ value.res = res
      /\ value.man = NoManifest
    BY <2>3, <2>4, NoPlanParts DEF AnyPlan
  <2>6. PlanFits(r, value)
    BY <2>1, <2>3, <2>5 DEF PlanFits
  <2> HIDE DEF value
  <2> QED BY <2>1, <2>5, <2>6
<1>3. CASE PlanMove(p)
  <2> DEFINE par == Resolve(Parent(r.path)) tgt == Resolve(Parent(r.to))
             res == {ShardRes(par, Base(r.path)), ShardRes(tgt, Base(r.to))}
             value == [NoPlan EXCEPT !.par = par, !.tgt = tgt, !.res = res]
  <2>1. /\ r.kind = "move" /\ Resolve(r.path) # None /\ tgt \in Dir /\ Planned(p, value)
        /\ ~IsPrefix(r.path, r.to)
    BY <1>3 DEF PlanMove
  <2>2. r.path \in Path /\ Base(r.path) \in Name /\ Base(r.to) \in Name
    BY <2>1, TypesOf
  <2>3. par \in Dir
    BY <2>1, <2>2, ResolvedEntry
  <2> HIDE DEF par, tgt
  <2>4. res \subseteq Resource /\ par \in Node /\ tgt \in Node
    BY <2>1, <2>2, <2>3, ResourceTypes DEF Node
  <2>5. value \in AnyPlan /\ value.par = par /\ value.tgt = tgt /\ value.res = res
      /\ value.man = NoManifest
    BY <2>4, NoPlanParts DEF AnyPlan
  <2>6. PlanFits(r, value)
    BY <2>1, <2>3, <2>5 DEF PlanFits
  <2> HIDE DEF value
  <2> QED BY <2>1, <2>5, <2>6
<1>4. CASE PlanTrash(p)
  <2> DEFINE par == Resolve(Parent(r.path)) node == Resolve(r.path) 
             res == {ShardRes(par, Base(r.path)), TrashRes(r.id)} \cup AllShards(Subtree(node))
             value == [NoPlan EXCEPT !.par = par, !.res = res]
  <2>1. r.kind = "trash" /\ node # None /\ Planned(p, value)
    BY <1>4 DEF PlanTrash
  <2>2. r.path \in Path /\ Base(r.path) \in Name /\ r.id \in TrashId
    BY <2>1, TypesOf
  <2>3. par \in Dir
    BY <2>1, <2>2, ResolvedEntry
  <2> HIDE DEF par, node
  <2>4. res \subseteq Resource /\ par \in Node
    BY <2>2, <2>3, ResourceTypes DEF Node
  <2>5. value \in AnyPlan /\ value.par = par /\ value.res = res /\ value.man = NoManifest
    BY <2>4, NoPlanParts DEF AnyPlan
  <2>6. PlanFits(r, value)
    BY <2>1, <2>3, <2>5 DEF PlanFits
  <2> HIDE DEF value
  <2> QED BY <2>1, <2>5, <2>6
<1>5. CASE PlanRestore(p)
  <2> DEFINE m == man[r.id] par == Resolve(Parent(m.path))
             res == {ShardRes(par, Base(m.path)), TrashRes(r.id)}
             value == [NoPlan EXCEPT !.par = par, !.man = m, !.res = res]
  <2>1. r.kind = "restore" /\ m.node # None /\ ~m.deleting /\ par \in Dir /\ Planned(p, value)
    BY <1>5 DEF PlanRestore
  <2>2. r.id \in TrashId
    BY <2>1, TypesOf
  <2>3. m \in Manifest /\ m.path \in Path /\ Base(m.path) \in Name
    <3>1. m \in Manifest /\ m.path \in Path
      BY <2>1, <2>2 DEF NsTypes, PathsOK
    <3> QED BY <3>1, PathParts
  <2> HIDE DEF par, m
  <2>4. res \subseteq Resource /\ par \in Node
    BY <2>1, <2>2, <2>3, ResourceTypes DEF Node
  <2>5. value \in AnyPlan /\ value.par = par /\ value.man = m /\ value.res = res
    BY <2>3, <2>4, NoPlanParts DEF AnyPlan
  <2>6. PlanFits(r, value)
    BY <2>1, <2>3, <2>5 DEF PlanFits
  <2>7. value.man = man[r.id]
    BY <2>5 DEF m
  <2> HIDE DEF value
  <2> QED BY <2>1, <2>2, <2>6, <2>7, <2>5
<1>6. CASE PlanClaim(p)
  <2> DEFINE m == man[r.id] res == {TrashRes(r.id)} value == [NoPlan EXCEPT !.man = m, !.res = res]
  <2>1. r.kind = "purge" /\ m.node # None /\ Planned(p, value)
    BY <1>6 DEF PlanClaim
  <2>2. r.id \in TrashId /\ m \in Manifest
    BY <2>1, TypesOf DEF NsTypes
  <2> HIDE DEF m
  <2>4. res \subseteq Resource
    BY <2>2, ResourceTypes
  <2>5. value \in AnyPlan /\ value.man = m /\ value.res = res
    BY <2>2, <2>4, NoPlanParts DEF AnyPlan
  <2>6. PlanFits(r, value)
    BY <2>1, <2>5 DEF PlanFits
  <2>7. value.man = man[r.id]
    BY <2>5 DEF m
  <2> HIDE DEF value
  <2> QED BY <2>1, <2>2, <2>5, <2>6, <2>7
<1> QED BY <1>1, <1>2, <1>3, <1>4, <1>5, <1>6

LEMMA PlanKept ==
  ASSUME NsInv, NEW p \in Process,
         PlanCreate(p) \/ PlanDelete(p) \/ PlanMove(p) \/ PlanTrash(p) \/ PlanRestore(p) \/ PlanClaim(p)
  PROVE  NsInv'
<1>1. NsTypes /\ PathsOK
  BY DEF NsInv, Kept, GroupOK, PathsOK
<1> QED BY <1>1, PlanValue, PlannedKept

LEMMA BuiltStep ==
  ASSUME NsInv, NEW p \in Process, NEW value, Built(p, value), Leasing(p), req[p].kind # "purge",
         value = Published(req[p], plan[p], ent), BuiltFits(p)
  PROVE  NsInv'
<1>1. NsTypes /\ PlanOK(p)
  BY DEF NsInv, Steady
<1>2. /\ mut' = [mut EXCEPT ![p] = value] /\ pc' = [pc EXCEPT ![p] = "built"]
      /\ UNCHANGED <<stored, req, plan, work>> /\ pc[p] = "planned" /\ Unleased(plan[p].res, p)
  BY DEF Built, Leasing
<1>3. /\ pc'[p] = "built" /\ mut'[p] = value /\ req' = req /\ plan' = plan
      /\ ent' = ent /\ man' = man
  BY <1>1, <1>2 DEF NsTypes, stored
<1>4. Quiet(p)
  <2>1. pc' \in [Process -> Phases] /\ plan' \in [Process -> AnyPlan] /\ DOMAIN work' = Process
    BY <1>1, <1>2 DEF NsTypes, Phases
  <2>2. DOMAIN mut' = Process /\ req' \in [Process -> Requests \cup {NoRequest}]
    BY <1>1, <1>2 DEF NsTypes
  <2>3. ~Purging(p)'
    BY <1>3 DEF Purging
  <2>4. \A q \in Process \ {p} : /\ pc'[q] = pc[q] /\ req'[q] = req[q] /\ plan'[q] = plan[q]
                                 /\ mut'[q] = mut[q] /\ work'[q] = work[q]
    BY <1>1, <1>2 DEF NsTypes
  <2> QED BY <1>2, <1>3, <2>1, <2>2, <2>3, <2>4 DEF Quiet
<1>5. PlanOK(p)'
  BY <1>1, <1>2, <1>3 DEF PlanOK
<1>6. BuiltOK(p)'
  <2>1. \A d : Standing(d)' <=> Standing(d)
    BY <1>3 DEF Standing, Placed, Group
  <2>2. BuiltFits(p)'
    BY <1>3, <2>1 DEF BuiltFits, Empty
  <2> QED BY <1>3, <2>2 DEF BuiltOK
<1>7. PurgeOK(p)'
  BY <1>3 DEF PurgeOK, Purging
<1> QED BY <1>2, <1>3, <1>4, <1>5, <1>6, <1>7, QuietKept

LEMMA BuildKept ==
  ASSUME NsInv, Looks, NEW p \in Process,
         BuildCreate(p) \/ BuildDelete(p) \/ BuildMove(p) \/ BuildTrash(p) \/ BuildRestore(p)
  PROVE  NsInv'
<1> DEFINE r == req[p] pl == plan[p] x == ent[pl.par][Base(r.path)]
<1>0. NsTypes /\ Kept /\ PlanOK(p) /\ LookOK(p) /\ pc[p] = "planned"
  BY DEF NsInv, Steady, Looks, BuildCreate, BuildDelete, BuildMove, BuildTrash, BuildRestore, Leasing
<1>1. PlanFits(r, pl)
  BY <1>0 DEF PlanOK
<1>2. \A path \in Path : Parent(path) \in Seq(Name)
  BY PathParts
<1>3. \A path \in Path : Resolve(Parent(path)) \in Dir => Standing(Resolve(Parent(path)))
  BY <1>0, <1>2, ResolvedStands
<1>4. CASE BuildCreate(p)
  <2>1. /\ r.kind = "create" /\ Leasing(p) /\ Resolve(Parent(r.path)) = pl.par /\ x = None
        /\ Built(p, [NoMutation EXCEPT !.shards = Rewrite({<<pl.par, Base(r.path), r.node>>}),
                                       !.add = {r.node}])
    BY <1>4 DEF BuildCreate
  <2>2. Standing(pl.par)
    BY <1>0, <1>1, <1>3, <2>1, TypesOf DEF PlanFits
  <2>3. Built(p, Published(r, pl, ent))
    BY <2>1, RewriteIsEdited DEF Published, Edited1, Edited2
  <2> QED BY <2>1, <2>2, <2>3, BuiltStep DEF BuiltFits
<1>5. CASE BuildDelete(p)
  <2>1. /\ r.kind = "delete" /\ Leasing(p) /\ Resolve(Parent(r.path)) = pl.par /\ x = pl.node
        /\ Children({pl.node}) = {}
        /\ Built(p, [NoMutation EXCEPT !.shards = Rewrite({<<pl.par, Base(r.path), None>>}),
                                       !.del = {pl.node}])
    BY <1>5 DEF BuildDelete
  <2>2. Standing(pl.par)
    BY <1>0, <1>1, <1>3, <2>1, TypesOf DEF PlanFits
  <2>3. Built(p, Published(r, pl, ent))
    BY <2>1, RewriteIsEdited DEF Published, Edited1, Edited2
  <2>4. x \in Dir => Empty(x)
    BY <2>1 DEF Children, Empty
  <2> QED BY <2>1, <2>2, <2>3, <2>4, BuiltStep DEF BuiltFits
<1>6. CASE BuildMove(p)
  <2>1. /\ r.kind = "move" /\ Leasing(p) /\ Resolve(Parent(r.path)) = pl.par
        /\ Resolve(Parent(r.to)) = pl.tgt /\ x # None /\ ent[pl.tgt][Base(r.to)] = None
        /\ Built(p, [NoMutation EXCEPT !.shards = Rewrite({<<pl.par, Base(r.path), None>>,
                                                           <<pl.tgt, Base(r.to), x>>})])
    BY <1>6 DEF BuildMove
  <2>2. Standing(pl.par) /\ Standing(pl.tgt)
    BY <1>0, <1>1, <1>3, <2>1, TypesOf DEF PlanFits
  <2>3. Built(p, Published(r, pl, ent))
    BY <2>1, RewriteIsEdited DEF Published, Edited1, Edited2
  <2> QED BY <2>1, <2>2, <2>3, BuiltStep DEF BuiltFits
<1>7. CASE BuildTrash(p)
  <2>1. /\ r.kind = "trash" /\ Leasing(p) /\ x # None
        /\ AllShards(Subtree(x)) \subseteq pl.res
        /\ Built(p, [NoMutation EXCEPT
                       !.shards = Rewrite({<<pl.par, Base(r.path), None>>}),
                       !.mans = [i \in {r.id} |-> [NoManifest EXCEPT !.node = x, !.path = r.path]]])
    BY <1>7 DEF BuildTrash
  <2>3. Standing(pl.par)
    BY <1>0, <2>1 DEF LookOK
  <2>4. Built(p, Published(r, pl, ent))
    BY <2>1, RewriteIsEdited DEF Published, Edited1, Edited2
  <2>5. AllShards(Below(ent, x)) \subseteq pl.res
    BY <2>1, SubtreeIsBelow
  <2> QED BY <2>1, <2>3, <2>4, <2>5, BuiltStep DEF BuiltFits
<1>8. CASE BuildRestore(p)
  <2> DEFINE m == pl.man
  <2>1. /\ r.kind = "restore" /\ Leasing(p) /\ ent[pl.par][Base(m.path)] = None
        /\ Built(p, [NoMutation EXCEPT
                       !.shards = Rewrite({<<pl.par, Base(m.path), m.node>>}),
                       !.mans = [i \in {r.id} |-> NoManifest]])
    BY <1>8 DEF BuildRestore
  <2>2. man[r.id] = m
    BY <1>0, <1>1, <2>1 DEF LookOK, Looking, PlanFits
  <2>3. Standing(pl.par)
    BY <1>0, <2>1 DEF LookOK
  <2>4. Built(p, Published(r, pl, ent))
    BY <2>1, RewriteIsEdited DEF Published, Edited1, Edited2
  <2> QED BY <2>1, <2>2, <2>3, <2>4, BuiltStep DEF BuiltFits
<1> QED BY <1>4, <1>5, <1>6, <1>7, <1>8

-----------------------------------------------------------------------------
(* What a commit does, by the kind of its request.                             *)

Sets(c, m, v) == \A d \in Dir, n \in Name : ent'[d][n] = IF d = c /\ n = m THEN v ELSE ent[d][n]
Effect(p) ==
  LET r == req[p] pl == plan[p] x == ent[pl.par][Base(r.path)] IN
  /\ r.kind = "create" => Sets(pl.par, Base(r.path), r.node) /\ man' = man /\ rec' = rec \cup {r.node}
  /\ r.kind = "delete" => Sets(pl.par, Base(r.path), None) /\ man' = man /\ rec' = rec \ {pl.node}
  /\ r.kind = "move" =>
       /\ \A d \in Dir, n \in Name :
            ent'[d][n] = IF d = pl.par /\ n = Base(r.path) THEN None
                         ELSE IF d = pl.tgt /\ n = Base(r.to) THEN x ELSE ent[d][n]
       /\ ~(pl.par = pl.tgt /\ Base(r.path) = Base(r.to))
       /\ man' = man /\ rec' = rec
  /\ r.kind = "trash" =>
       /\ Sets(pl.par, Base(r.path), None) /\ rec' = rec
       /\ man' = [man EXCEPT ![r.id] = [NoManifest EXCEPT !.node = x, !.path = r.path]]
  /\ r.kind = "restore" =>
       /\ Sets(pl.par, Base(pl.man.path), pl.man.node) /\ rec' = rec
       /\ man' = [man EXCEPT ![r.id] = NoManifest]

LEMMA SetsOne ==
  ASSUME NEW c \in Dir, NEW m \in Name, NEW v, ent' = After(ent, Edited1(ent, c, m, v))
  PROVE  Sets(c, m, v)
<1>1. \A d \in Dir, n \in Name : ent'[d][n] = IF d = c /\ n = m THEN v ELSE ent[d][n]
  BY EditedOne
<1> QED BY <1>1 DEF Sets

LEMMA CommitEffect ==
  ASSUME NsInv, NEW p \in Process, Commit(p)
  PROVE  /\ Effect(p) /\ ent' = After(ent, mut[p].shards) /\ pc[p] = "built" /\ BuiltFits(p)
         /\ PlanFits(req[p], plan[p])
         /\ req[p].kind \in {"create", "delete", "move", "trash", "restore"}
<1> DEFINE r == req[p] pl == plan[p] x == ent[pl.par][Base(r.path)] new == mut[p]
<1>1. /\ pc[p] = "built" /\ ent' = After(ent, new.shards)
      /\ man' = [i \in TrashId |-> IF i \in DOMAIN new.mans THEN new.mans[i] ELSE man[i]]
      /\ rec' = (rec \cup new.add) \ new.del
  BY DEF Commit, After
<1>2. NsTypes /\ BuiltFits(p) /\ new = Published(r, pl, ent) /\ PlanFits(r, pl) /\ r.kind # "purge"
  BY <1>1 DEF NsInv, Steady, BuiltOK, PlanOK
<1>3. r.kind \in {"create", "delete", "move", "trash", "restore"}
  BY <1>2, TypesOf, RequestParts DEF PlanFits
<1>4. NoMutation.mans = <<>> /\ NoMutation.add = {} /\ NoMutation.del = {} /\ DOMAIN <<>> = {}
  BY DEF NoMutation
<1>5. man \in [TrashId -> Manifest] /\ pl.par \in Dir
  BY <1>2 DEF NsTypes, BuiltFits, Standing
<1>6. CASE r.kind = "create"
  <2>1. new = [NoMutation EXCEPT !.shards = Edited1(ent, pl.par, Base(r.path), r.node),
                                 !.add = {r.node}]
    BY <1>2, <1>6 DEF Published
  <2>2. /\ new.shards = Edited1(ent, pl.par, Base(r.path), r.node)
        /\ new.mans = <<>> /\ new.add = {r.node} /\ new.del = {}
    BY <2>1 DEF NoMutation
  <2>3. man' = man /\ rec' = rec \cup {r.node}
    BY <1>1, <1>4, <1>5, <2>2
  <2>4. Sets(pl.par, Base(r.path), r.node)
    BY <1>1, <1>2, <1>5, <1>6, <2>2, TypesOf, SetsOne
  <2> QED BY <1>1, <1>2, <1>3, <1>6, <2>3, <2>4 DEF Effect
<1>7. CASE r.kind = "delete"
  <2>1. new = [NoMutation EXCEPT !.shards = Edited1(ent, pl.par, Base(r.path), None),
                                 !.del = {pl.node}]
    BY <1>2, <1>7 DEF Published
  <2>2. /\ new.shards = Edited1(ent, pl.par, Base(r.path), None)
        /\ new.mans = <<>> /\ new.add = {} /\ new.del = {pl.node}
    BY <2>1 DEF NoMutation
  <2>3. man' = man /\ rec' = rec \ {pl.node}
    BY <1>1, <1>4, <1>5, <2>2
  <2>4. Sets(pl.par, Base(r.path), None)
    BY <1>1, <1>2, <1>5, <1>7, <2>2, TypesOf, SetsOne
  <2> QED BY <1>1, <1>2, <1>3, <1>7, <2>3, <2>4 DEF Effect
<1>8. CASE r.kind = "move"
  <2>1. new = [NoMutation EXCEPT !.shards = Edited2(ent, pl.par, Base(r.path), None, pl.tgt, Base(r.to), x)]
    BY <1>2, <1>8 DEF Published
  <2>2. /\ new.shards = Edited2(ent, pl.par, Base(r.path), None, pl.tgt, Base(r.to), x)
        /\ new.mans = <<>> /\ new.add = {} /\ new.del = {}
    BY <2>1 DEF NoMutation
  <2>3. man' = man /\ rec' = rec
    BY <1>1, <1>4, <1>5, <2>2
  <2>4. pl.tgt \in Dir /\ ~(pl.par = pl.tgt /\ Base(r.path) = Base(r.to))
    BY <1>2, <1>8 DEF BuiltFits, PlanFits
  <2>5. Base(r.path) \in Name /\ Base(r.to) \in Name
    BY <1>2, <1>8, TypesOf
  <2>6. \A d \in Dir, n \in Name :
            ent'[d][n] = IF d = pl.par /\ n = Base(r.path) THEN None
                         ELSE IF d = pl.tgt /\ n = Base(r.to) THEN x ELSE ent[d][n]
    BY <1>1, <1>5, <2>2, <2>4, <2>5, EditedTwo
  <2> QED BY <1>1, <1>2, <1>3, <1>8, <2>3, <2>4, <2>6 DEF Effect
<1>9. CASE r.kind = "trash"
  <2> DEFINE m == [NoManifest EXCEPT !.node = x, !.path = r.path]
  <2>1. new = [NoMutation EXCEPT !.shards = Edited1(ent, pl.par, Base(r.path), None),
                                 !.mans = [i \in {r.id} |-> m]]
    BY <1>2, <1>9 DEF Published
  <2> HIDE DEF m
  <2>2. /\ new.shards = Edited1(ent, pl.par, Base(r.path), None)
        /\ new.mans = [i \in {r.id} |-> m] /\ new.add = {} /\ new.del = {}
    BY <2>1 DEF NoMutation
  <2>3. r.id \in TrashId
    BY <1>2, <1>9, TypesOf
  <2>4. man' = [man EXCEPT ![r.id] = m] /\ rec' = rec
    BY <1>1, <1>5, <2>2, <2>3
  <2>5. Sets(pl.par, Base(r.path), None)
    BY <1>1, <1>2, <1>5, <1>9, <2>2, TypesOf, SetsOne
  <2> QED BY <1>1, <1>2, <1>3, <1>9, <2>4, <2>5 DEF Effect, m
<1>10. CASE r.kind = "restore"
  <2> DEFINE b == Base(pl.man.path)
  <2>1. new = [NoMutation EXCEPT !.shards = Edited1(ent, pl.par, b, pl.man.node),
                                 !.mans = [i \in {r.id} |-> NoManifest]]
    BY <1>2, <1>10 DEF Published
  <2>2. /\ new.shards = Edited1(ent, pl.par, b, pl.man.node)
        /\ new.mans = [i \in {r.id} |-> NoManifest] /\ new.add = {} /\ new.del = {}
    BY <2>1 DEF NoMutation
  <2>3. r.id \in TrashId /\ b \in Name
    BY <1>2, <1>10, TypesOf, PathParts DEF PlanFits
  <2>4. man' = [man EXCEPT ![r.id] = NoManifest] /\ rec' = rec
    BY <1>1, <1>5, <2>2, <2>3
  <2>5. Sets(pl.par, b, pl.man.node)
    BY <1>1, <1>5, <2>2, <2>3, SetsOne
  <2> QED BY <1>1, <1>2, <1>3, <1>10, <2>4, <2>5 DEF Effect
<1> QED BY <1>3, <1>6, <1>7, <1>8, <1>9, <1>10

(* What every commit keeps to: it changes directories that stand and groups    *)
(* nobody has claimed, under its leases, and what it puts somewhere was in no  *)
(* group that it leaves alone.                                                 *)
Orderly(p) ==
  LET r == req[p] pl == plan[p] IN
  /\ ent' \in Entries /\ man' \in [TrashId -> Manifest] /\ rec' \subseteq Node /\ TreeOK'
  /\ \A d \in Dir, n \in Name : ent'[d][n] # ent[d][n] =>
       /\ Standing(d) /\ ShardRes(d, n) \in pl.res
       /\ \A i \in TrashId : man'[i] = man[i] => ent'[d][n] \notin Group(i)
  /\ \A i \in TrashId : man'[i] # man[i] =>
       /\ TrashRes(i) \in pl.res /\ ~man[i].deleting /\ ~man'[i].deleting /\ man'[i].cleanup = {}
       /\ man'[i].node = None => man'[i] = NoManifest
       /\ man'[i].node # None =>
            /\ man'[i].path \in Path /\ r.kind = "trash" /\ r.id = i
            /\ \A j \in TrashId : man'[j] = man[j] => man'[i].node \notin Group(j)
            /\ AllShards(Below(ent', man'[i].node)) \subseteq pl.res
  /\ \A y \in Node : Placed(y)' => Placed(y) \/ (r.kind = "create" /\ r.node = y)
  /\ \A y \in Node : Placed(y) /\ ~Placed(y)' => y # Root /\ AllShards({y}) \subseteq pl.res
  /\ \A y \in Node \ rec' : y = Root \/ Placed(y)' => y \notin rec /\ (y = Root \/ Placed(y))
  /\ \A y \in rec' : y \in rec \/ (r.kind = "create" /\ r.node = y)

LEMMA EntriesAfter ==
  ASSUME NEW s, ent' = After(ent, s), \A d \in Dir, n \in Name : ent'[d][n] \in Node \cup {None}
  PROVE  ent' \in Entries
<1>1. ent' = [d \in Dir |-> ent'[d]]
  BY DEF After
<1>2. \A d \in Dir : ent'[d] = [n \in Name |-> ent'[d][n]]
  BY DEF After
<1> QED BY <1>1, <1>2 DEF Entries

LEMMA NotInGroups ==
  ASSUME NsTypes, Kept, NEW i \in TrashId
  PROVE  Group(i) \subseteq Node /\ None \notin Group(i) /\ \A x \in Group(i) : ~Unborn(x)
<1>1. GroupPrivate(i)
  BY GroupsPrivate DEF Kept
<1> QED BY <1>1, NamespaceAssumption DEF GroupPrivate

LEMMA CommitCreate ==
  ASSUME NsInv, NEW p \in Process, Commit(p), req[p].kind = "create"
  PROVE  Orderly(p)
<1> DEFINE r == req[p] pl == plan[p] c == plan[p].par b == Base(req[p].path) v == req[p].node
<1>1. /\ Sets(c, b, v) /\ man' = man /\ rec' = rec \cup {v} /\ ent' = After(ent, mut[p].shards)
      /\ BuiltFits(p) /\ PlanFits(r, pl)
  BY CommitEffect DEF Effect
<1>2. NsTypes /\ Kept /\ ent \in Entries /\ man \in [TrashId -> Manifest] /\ rec \subseteq Node
  BY DEF NsInv, NsTypes
<1>3. c \in Dir /\ b \in Name /\ v \in Node /\ Standing(c) /\ ShardRes(c, b) \in pl.res /\ ent[c][b] = None
  BY <1>1, <1>2, TypesOf DEF BuiltFits, PlanFits
<1>4. ~Placed(v) /\ v # Root /\ v # None /\ Unborn(v)
  <2>1. ~Placed(v) /\ Unborn(v)
    BY <1>2 DEF Kept, FreshOK, Unborn
  <2>2. r \in Request[p]
    BY <1>2 DEF NsTypes, NoRequest
  <2> QED BY <1>3, <2>1, <2>2, NamespaceAssumption DEF FreshIds
<1> HIDE DEF c, b, v
<1>5. \A d \in Dir, n \in Name : ent'[d][n] = IF d = c /\ n = b THEN v ELSE ent[d][n]
  BY <1>1 DEF Sets
<1>6. \A d \in Dir, n \in Name : ent[d][n] # v
  BY <1>4 DEF Placed
<1>7. \A i \in TrashId : man[i].node # v
  BY <1>4 DEF Placed
<1>8. ent' \in Entries
  BY <1>1, <1>2, <1>3, <1>5, EntriesAfter DEF Entries
<1>9. TreeOK'
  <2>1. OncePlaced(ent) /\ TreeOK
    BY <1>2 DEF Kept, TreeOK
  <2>2. OncePlaced(ent')
    BY <2>1, <1>3, <1>4, <1>5, <1>6 DEF OncePlaced
  <2>3. \A i \in TrashId, d \in Dir, n \in Name : man[i].node # None => ent'[d][n] # man[i].node
    BY <2>1, <1>5, <1>7 DEF TreeOK
  <2> QED BY <1>1, <2>1, <2>2, <2>3 DEF TreeOK
<1>10. ASSUME NEW d \in Dir, NEW n \in Name, ent'[d][n] # ent[d][n]
       PROVE  /\ Standing(d) /\ ShardRes(d, n) \in pl.res
              /\ \A i \in TrashId : ent'[d][n] \notin Group(i)
  <2>1. d = c /\ n = b /\ ent'[d][n] = v
    BY <1>5, <1>10
  <2> QED BY <1>2, <1>3, <1>4, <2>1, NotInGroups
<1>11. \A y \in Node : Placed(y)' <=> Placed(y) \/ v = y
  <2> TAKE y \in Node
  <2>1. y # None
    BY NamespaceAssumption
  <2>2. (\E d \in Dir, n \in Name : ent'[d][n] = y) <=> (\E d \in Dir, n \in Name : ent[d][n] = y) \/ v = y
    BY <1>3, <1>5, <2>1
  <2> QED BY <1>1, <2>2 DEF Placed
<1>12. \A y \in rec' : y \in rec \/ v = y
  BY <1>1
<1>13. \A y \in Node \ rec' : y \notin rec /\ y # v
  BY <1>1
<1>14. rec' \subseteq Node
  BY <1>1, <1>2, <1>3
<1> QED BY <1>1, <1>2, <1>8, <1>9, <1>10, <1>11, <1>12, <1>13, <1>14 DEF Orderly, v

LEMMA CommitDelete ==
  ASSUME NsInv, NEW p \in Process, Commit(p), req[p].kind = "delete"
  PROVE  Orderly(p)
<1> DEFINE r == req[p] pl == plan[p] c == plan[p].par b == Base(req[p].path) x == plan[p].node
<1>1. /\ Sets(c, b, None) /\ man' = man /\ rec' = rec \ {x} /\ ent' = After(ent, mut[p].shards)
      /\ BuiltFits(p) /\ PlanFits(r, pl)
  BY CommitEffect DEF Effect
<1>2. NsTypes /\ Kept /\ ent \in Entries /\ man \in [TrashId -> Manifest] /\ rec \subseteq Node
  BY DEF NsInv, NsTypes
<1>3. /\ c \in Dir /\ b \in Name /\ Standing(c) /\ ShardRes(c, b) \in pl.res /\ ent[c][b] = x /\ x # None
      /\ AllShards({x}) \subseteq pl.res
  BY <1>1, <1>2, TypesOf DEF BuiltFits, PlanFits
<1> HIDE DEF c, b, x
<1>5. \A d \in Dir, n \in Name : ent'[d][n] = IF d = c /\ n = b THEN None ELSE ent[d][n]
  BY <1>1 DEF Sets
<1>6. OncePlaced(ent) /\ TreeOK /\ x # Root
  BY <1>2, <1>3 DEF Kept, TreeOK, OncePlaced
<1>8. ent' \in Entries
  BY <1>1, <1>2, <1>3, <1>5, EntriesAfter DEF Entries
<1>9. TreeOK'
  <2>2. OncePlaced(ent')
    BY <1>6, <1>3, <1>5 DEF OncePlaced
  <2>3. \A i \in TrashId, d \in Dir, n \in Name : man[i].node # None => ent'[d][n] # man[i].node
    BY <1>5, <1>6 DEF TreeOK
  <2> QED BY <1>1, <1>6, <2>2, <2>3 DEF TreeOK
<1>10. ASSUME NEW d \in Dir, NEW n \in Name, ent'[d][n] # ent[d][n]
       PROVE  /\ Standing(d) /\ ShardRes(d, n) \in pl.res
              /\ \A i \in TrashId : ent'[d][n] \notin Group(i)
  <2>1. d = c /\ n = b /\ ent'[d][n] = None
    BY <1>5, <1>10
  <2> QED BY <1>2, <1>3, <2>1, NotInGroups
<1>11. \A y \in Node : Placed(y)' <=> Placed(y) /\ y # x
  <2> TAKE y \in Node
  <2>1. y # None
    BY NamespaceAssumption
  <2>2. (\E d \in Dir, n \in Name : ent'[d][n] = y) <=> (\E d \in Dir, n \in Name : ent[d][n] = y) /\ y # x
    BY <1>3, <1>5, <1>6, <2>1 DEF OncePlaced
  <2>3. \A i \in TrashId : man[i].node # x
    BY <1>3, <1>6 DEF TreeOK
  <2> QED BY <1>1, <2>2, <2>3 DEF Placed
<1>12. rec' \subseteq rec /\ \A y \in Node \ rec' : y \notin rec \/ y = x
  BY <1>1
<1> QED BY <1>1, <1>2, <1>3, <1>6, <1>8, <1>9, <1>10, <1>11, <1>12 DEF Orderly, x

LEMMA CommitMove ==
  ASSUME NsInv, NEW p \in Process, Commit(p), req[p].kind = "move"
  PROVE  Orderly(p)
<1> DEFINE r == req[p] pl == plan[p] c == plan[p].par b == Base(req[p].path)
           t == plan[p].tgt k == Base(req[p].to) x == ent[c][b]
<1>1. /\ man' = man /\ rec' = rec /\ ent' = After(ent, mut[p].shards)
      /\ BuiltFits(p) /\ PlanFits(r, pl) /\ ~(c = t /\ b = k)
      /\ \A d \in Dir, n \in Name :
           ent'[d][n] = IF d = c /\ n = b THEN None ELSE IF d = t /\ n = k THEN x ELSE ent[d][n]
  BY CommitEffect DEF Effect
<1>2. NsTypes /\ Kept /\ ent \in Entries /\ man \in [TrashId -> Manifest] /\ rec \subseteq Node
  BY DEF NsInv, NsTypes
<1>3. /\ c \in Dir /\ b \in Name /\ Standing(c) /\ ShardRes(c, b) \in pl.res /\ x # None
      /\ t \in Dir /\ k \in Name /\ Standing(t) /\ ShardRes(t, k) \in pl.res /\ ent[t][k] = None
  BY <1>1, <1>2, TypesOf DEF BuiltFits, PlanFits
<1>4. x \in Node /\ \A i \in TrashId : x \notin Group(i)
  BY <1>2, <1>3, HeldStands
<1> HIDE DEF c, b, t, k
<1>6. OncePlaced(ent) /\ TreeOK
  BY <1>2, <1>3 DEF Kept, TreeOK, OncePlaced
<1>8. ent' \in Entries
  BY <1>1, <1>2, <1>3, <1>4, EntriesAfter DEF Entries
<1>9. TreeOK'
  <2>2. OncePlaced(ent')
    BY <1>1, <1>6, <1>3 DEF OncePlaced
  <2>3. \A i \in TrashId, d \in Dir, n \in Name : man[i].node # None => ent'[d][n] # man[i].node
    BY <1>1, <1>3, <1>6 DEF TreeOK
  <2> QED BY <1>1, <1>6, <2>2, <2>3 DEF TreeOK
<1>10. ASSUME NEW d \in Dir, NEW n \in Name, ent'[d][n] # ent[d][n]
       PROVE  /\ Standing(d) /\ ShardRes(d, n) \in pl.res
              /\ \A i \in TrashId : ent'[d][n] \notin Group(i)
  <2>1. (d = c /\ n = b /\ ent'[d][n] = None) \/ (d = t /\ n = k /\ ent'[d][n] = x)
    BY <1>1, <1>10
  <2> QED BY <1>2, <1>3, <1>4, <2>1, NotInGroups
<1>11. \A y \in Node : Placed(y)' <=> Placed(y)
  <2> TAKE y \in Node
  <2>1. y # None
    BY NamespaceAssumption
  <2>2. ASSUME NEW d \in Dir, NEW n \in Name, ent'[d][n] = y PROVE \E e \in Dir, m \in Name : ent[e][m] = y
    BY <1>1, <1>3, <2>1, <2>2
  <2>3. ASSUME NEW d \in Dir, NEW n \in Name, ent[d][n] = y PROVE \E e \in Dir, m \in Name : ent'[e][m] = y
    <3>1. CASE d = c /\ n = b
      <4>1. ent'[t][k] = y
        BY <1>1, <1>3, <2>3, <3>1
      <4> QED BY <1>3, <4>1
    <3>2. CASE ~(d = c /\ n = b)
      <4>1. ent'[d][n] = y
        BY <1>1, <1>3, <2>1, <2>3, <3>2
      <4> QED BY <4>1
    <3> QED BY <3>1, <3>2
  <2> QED BY <1>1, <2>2, <2>3 DEF Placed
<1> QED BY <1>1, <1>2, <1>8, <1>9, <1>10, <1>11 DEF Orderly

LEMMA CommitTrash ==
  ASSUME NsInv, NEW p \in Process, Commit(p), req[p].kind = "trash"
  PROVE  Orderly(p)
<1> DEFINE r == req[p] pl == plan[p] c == plan[p].par b == Base(req[p].path) x == ent[c][b]
           i == req[p].id m == [NoManifest EXCEPT !.node = x, !.path = r.path]
<1>1. /\ Sets(c, b, None) /\ man' = [man EXCEPT ![i] = m] /\ rec' = rec
      /\ ent' = After(ent, mut[p].shards) /\ BuiltFits(p) /\ PlanFits(r, pl)
  BY CommitEffect DEF Effect
<1>2. NsTypes /\ Kept /\ ent \in Entries /\ man \in [TrashId -> Manifest] /\ rec \subseteq Node
  BY DEF NsInv, NsTypes
<1>3. /\ c \in Dir /\ b \in Name /\ Standing(c) /\ ShardRes(c, b) \in pl.res /\ x # None
      /\ AllShards(Below(ent, x)) \subseteq pl.res /\ i \in TrashId /\ TrashRes(i) \in pl.res
  BY <1>1, <1>2, TypesOf DEF BuiltFits, PlanFits
<1>4. x \in Node /\ x # Root /\ \A j \in TrashId : x \notin Group(j)
  BY <1>2, <1>3, HeldStands
<1>5. man[i].node = None /\ man[i] = NoManifest
  <2>1. man[i].node = None
    BY <1>2 DEF Kept, FreshOK
  <2> QED BY <1>2, <1>3, <2>1 DEF Kept, GroupOK
<1>6. /\ m \in Manifest /\ m.node = x /\ m.path \in Path /\ m.cleanup = {} /\ ~m.deleting
  <2>1. r.path \in Path
    BY <1>2, TypesOf
  <2> QED BY <1>4, <2>1, NoManifestParts DEF Manifest, NoManifest, Path
<1> HIDE DEF c, b, i, m
<1>7. \A d \in Dir, n \in Name : ent'[d][n] = IF d = c /\ n = b THEN None ELSE ent[d][n]
  BY <1>1 DEF Sets
<1>8. man'[i] = m /\ \A j \in TrashId \ {i} : man'[j] = man[j]
  BY <1>1, <1>2, <1>3
<1>9. OncePlaced(ent) /\ TreeOK
  BY <1>2 DEF Kept, TreeOK
<1>10. ent' \in Entries /\ man' \in [TrashId -> Manifest]
  <2>1. ent' \in Entries
    BY <1>1, <1>2, <1>3, <1>7, EntriesAfter DEF Entries
  <2>2. man' \in [TrashId -> Manifest]
    BY <1>1, <1>2, <1>6
  <2> QED BY <2>1, <2>2
<1>11. TreeOK'
  <2>1. OncePlaced(ent')
    BY <1>9, <1>3, <1>7 DEF OncePlaced
  <2>2. \A d \in Dir, n \in Name : ent'[d][n] # x
    BY <1>3, <1>7, <1>9 DEF OncePlaced
  <2>3. \A j \in TrashId : man[j].node # x
    BY <1>3, <1>9 DEF TreeOK
  <2>4. ASSUME NEW j \in TrashId, man'[j].node # None
        PROVE  /\ man'[j].node # Root
               /\ \A d \in Dir, n \in Name : ent'[d][n] # man'[j].node
               /\ \A o \in TrashId : man'[o].node = man'[j].node => o = j
    <3>1. CASE j = i
      BY <1>4, <1>6, <1>8, <2>2, <2>3, <3>1
    <3>2. CASE j # i
      <4>1. \A d \in Dir, n \in Name : ent'[d][n] # man[j].node
        BY <1>7, <1>8, <1>9, <2>4, <3>2 DEF TreeOK
      <4>2. \A o \in TrashId : man'[o].node = man[j].node => o = j
        BY <1>6, <1>8, <1>9, <2>3, <2>4, <3>2 DEF TreeOK
      <4> QED BY <1>8, <1>9, <2>4, <3>2, <4>1, <4>2 DEF TreeOK
    <3> QED BY <3>1, <3>2
  <2> QED BY <2>1, <2>4 DEF TreeOK
<1>12. ASSUME NEW d \in Dir, NEW n \in Name, ent'[d][n] # ent[d][n]
       PROVE  /\ Standing(d) /\ ShardRes(d, n) \in pl.res
              /\ \A j \in TrashId : ent'[d][n] \notin Group(j)
  <2>1. d = c /\ n = b /\ ent'[d][n] = None
    BY <1>7, <1>12
  <2> QED BY <1>2, <1>3, <2>1, NotInGroups
<1>13. AllShards(Below(ent', x)) \subseteq pl.res
  <2>1. Below(ent', x) \subseteq Below(ent, x)
    BY <1>7, BelowShrinks, NamespaceAssumption
  <2> QED BY <1>3, <2>1 DEF AllShards
<1>14. ASSUME NEW j \in TrashId, man'[j] # man[j] PROVE j = i
  BY <1>8, <1>14
<1>15. \A y \in Node : Placed(y)' <=> Placed(y)
  <2> TAKE y \in Node
  <2>1. y # None
    BY NamespaceAssumption
  <2>2. ASSUME NEW d \in Dir, NEW n \in Name, ent'[d][n] = y PROVE Placed(y)
    BY <1>7, <2>1, <2>2 DEF Placed
  <2>3. ASSUME NEW j \in TrashId, man'[j].node = y PROVE Placed(y)
    BY <1>3, <1>6, <1>8, <2>3 DEF Placed
  <2>4. ASSUME NEW j \in TrashId, man[j].node = y PROVE Placed(y)'
    <3>1. man'[j] = man[j]
      BY <1>5, <1>8, <2>1, <2>4
    <3> QED BY <2>4, <3>1 DEF Placed
  <2>5. ASSUME NEW d \in Dir, NEW n \in Name, ent[d][n] = y PROVE Placed(y)'
    <3>1. CASE d = c /\ n = b
      <4>1. man'[i].node = y
        BY <1>6, <1>8, <2>5, <3>1
      <4> QED BY <1>3, <4>1 DEF Placed
    <3>2. CASE ~(d = c /\ n = b)
      <4>1. ent'[d][n] = y
        BY <1>7, <2>5, <3>2
      <4> QED BY <4>1 DEF Placed
    <3> QED BY <3>1, <3>2
  <2> QED BY <2>2, <2>3, <2>4, <2>5 DEF Placed
<1>16. ASSUME NEW j \in TrashId, man'[j] # man[j]
       PROVE  /\ TrashRes(j) \in pl.res /\ ~man[j].deleting /\ ~man'[j].deleting /\ man'[j].cleanup = {}
              /\ man'[j].node = None => man'[j] = NoManifest
              /\ man'[j].node # None =>
                   /\ man'[j].path \in Path /\ r.kind = "trash" /\ r.id = j
                   /\ \A o \in TrashId : man'[o] = man[o] => man'[j].node \notin Group(o)
                   /\ AllShards(Below(ent', man'[j].node)) \subseteq pl.res
  <2>1. j = i /\ i = r.id
    BY <1>14, <1>16 DEF i
  <2>2. man'[i] = m /\ man[i] = NoManifest
    BY <1>5, <1>8
  <2> QED BY <2>1, <2>2, <1>3, <1>4, <1>6, <1>13, NoManifestParts
<1> QED BY <1>1, <1>2, <1>10, <1>11, <1>12, <1>15, <1>16 DEF Orderly

LEMMA CommitRestore ==
  ASSUME NsInv, NEW p \in Process, Commit(p), req[p].kind = "restore"
  PROVE  Orderly(p)
<1> DEFINE r == req[p] pl == plan[p] c == plan[p].par b == Base(plan[p].man.path) i == req[p].id
           x == plan[p].man.node
<1>1. /\ Sets(c, b, x) /\ man' = [man EXCEPT ![i] = NoManifest] /\ rec' = rec
      /\ ent' = After(ent, mut[p].shards) /\ BuiltFits(p) /\ PlanFits(r, pl)
  BY CommitEffect DEF Effect
<1>2. NsTypes /\ Kept /\ ent \in Entries /\ man \in [TrashId -> Manifest] /\ rec \subseteq Node
  BY DEF NsInv, NsTypes
<1>3. /\ c \in Dir /\ b \in Name /\ Standing(c) /\ ShardRes(c, b) \in pl.res /\ ent[c][b] = None
      /\ i \in TrashId /\ TrashRes(i) \in pl.res /\ ~man[i].deleting /\ x # None /\ x = man[i].node
  BY <1>1, <1>2, TypesOf, PathParts DEF BuiltFits, PlanFits, Standing
<1>4. x \in Node /\ x # Root /\ \A j \in TrashId \ {i} : x \notin Group(j)
  <2>1. x \in Node /\ x # Root
    BY <1>2, <1>3 DEF Manifest, Kept, TreeOK
  <2>2. \A j \in TrashId : GroupPrivate(j)
    BY <1>2, GroupsPrivate DEF Kept
  <2> QED BY <1>3, <2>1, <2>2 DEF GroupPrivate
<1> HIDE DEF c, b, i, x
<1>7. \A d \in Dir, n \in Name : ent'[d][n] = IF d = c /\ n = b THEN x ELSE ent[d][n]
  BY <1>1 DEF Sets
<1>8. man'[i] = NoManifest /\ man'[i] # man[i] /\ \A j \in TrashId \ {i} : man'[j] = man[j]
  BY <1>1, <1>2, <1>3, NoManifestParts
<1>9. OncePlaced(ent) /\ TreeOK
  BY <1>2 DEF Kept, TreeOK
<1>10. ent' \in Entries /\ man' \in [TrashId -> Manifest]
  <2>1. ent' \in Entries
    BY <1>1, <1>2, <1>3, <1>4, <1>7, EntriesAfter DEF Entries
  <2>2. man' \in [TrashId -> Manifest]
    BY <1>1, <1>2, NoManifestParts
  <2> QED BY <2>1, <2>2
<1>11. TreeOK'
  <2>0. \A d \in Dir, n \in Name : ent[d][n] # x
    BY <1>3, <1>9 DEF TreeOK
  <2>1. OncePlaced(ent')
    BY <1>4, <1>9, <1>3, <1>7, <2>0 DEF OncePlaced
  <2>3. \A j \in TrashId \ {i} : man[j].node # x
    BY <1>3, <1>9 DEF TreeOK
  <2>4. ASSUME NEW j \in TrashId, man'[j].node # None
        PROVE  /\ man'[j].node # Root
               /\ \A d \in Dir, n \in Name : ent'[d][n] # man'[j].node
               /\ \A o \in TrashId : man'[o].node = man'[j].node => o = j
    <3>1. j # i /\ man'[j] = man[j]
      BY <1>8, <2>4, NoManifestParts
    <3>2. \A d \in Dir, n \in Name : ent'[d][n] # man[j].node
      BY <1>7, <1>9, <2>3, <2>4, <3>1 DEF TreeOK
    <3>3. \A o \in TrashId : man'[o].node = man[j].node => o = j
      BY <1>8, <1>9, <2>4, <3>1, NoManifestParts DEF TreeOK
    <3> QED BY <1>9, <2>4, <3>1, <3>2, <3>3 DEF TreeOK
  <2> QED BY <2>1, <2>4 DEF TreeOK
<1>12. ASSUME NEW d \in Dir, NEW n \in Name, ent'[d][n] # ent[d][n]
       PROVE  /\ Standing(d) /\ ShardRes(d, n) \in pl.res
              /\ \A j \in TrashId : man'[j] = man[j] => ent'[d][n] \notin Group(j)
  <2>1. d = c /\ n = b /\ ent'[d][n] = x
    BY <1>7, <1>12
  <2>2. \A j \in TrashId : man'[j] = man[j] => j # i
    BY <1>8
  <2> QED BY <1>3, <1>4, <2>1, <2>2
<1>15. \A y \in Node : Placed(y)' <=> Placed(y)
  <2> TAKE y \in Node
  <2>1. y # None
    BY NamespaceAssumption
  <2>2. ASSUME NEW d \in Dir, NEW n \in Name, ent'[d][n] = y PROVE Placed(y)
    BY <1>3, <1>7, <2>1, <2>2 DEF Placed
  <2>3. ASSUME NEW j \in TrashId, man'[j].node = y PROVE Placed(y)
    BY <1>8, <2>1, <2>3, NoManifestParts DEF Placed
  <2>4. ASSUME NEW j \in TrashId, man[j].node = y PROVE Placed(y)'
    <3>1. CASE j = i
      <4>1. ent'[c][b] = y
        BY <1>3, <1>7, <2>4, <3>1
      <4> QED BY <1>3, <4>1 DEF Placed
    <3>2. CASE j # i
      BY <1>8, <2>4, <3>2 DEF Placed
    <3> QED BY <3>1, <3>2
  <2>5. ASSUME NEW d \in Dir, NEW n \in Name, ent[d][n] = y PROVE Placed(y)'
    <3>1. ent'[d][n] = y
      BY <1>3, <1>7, <2>1, <2>5
    <3> QED BY <3>1 DEF Placed
  <2> QED BY <2>2, <2>3, <2>4, <2>5 DEF Placed
<1>16. ASSUME NEW j \in TrashId, man'[j] # man[j]
       PROVE  /\ TrashRes(j) \in pl.res /\ ~man[j].deleting /\ man'[j] = NoManifest
  BY <1>3, <1>8, <1>16
<1> QED BY <1>1, <1>2, <1>10, <1>11, <1>12, <1>15, <1>16, NoManifestParts DEF Orderly

LEMMA EndsFacts ==
  ASSUME NsTypes, NEW p \in Process, NEW phase \in Phases \ {"built"}, Ends(p, phase)
  PROVE  /\ pc' \in [Process -> Phases] /\ plan' \in [Process -> AnyPlan] /\ DOMAIN work' = Process
         /\ DOMAIN mut' = Process /\ req' \in [Process -> Requests \cup {NoRequest}]
         /\ \A q \in Process : req'[q] \in Request[q] \cup {NoRequest}
         /\ \A q \in Process : pc'[q] # "built" => mut'[q] = NoMutation
         /\ pc'[p] = phase /\ req'[p] = (IF phase = "done" THEN NoRequest ELSE req[p])
         /\ \A q \in Process \ {p} : /\ pc'[q] = pc[q] /\ req'[q] = req[q] /\ plan'[q] = plan[q]
                                     /\ mut'[q] = mut[q] /\ work'[q] = work[q]
<1>1. /\ pc' = [pc EXCEPT ![p] = phase]
      /\ req' = IF phase = "done" THEN [req EXCEPT ![p] = NoRequest] ELSE req
      /\ plan' = [plan EXCEPT ![p] = NoPlan] /\ mut' = [mut EXCEPT ![p] = NoMutation]
      /\ work' = [work EXCEPT ![p] = {}]
  BY DEF Ends
<1>2. NoPlan \in AnyPlan
  BY NoPlanParts
<1> HIDE DEF Phases
<1>3. CASE phase = "done"
  BY <1>1, <1>2, <1>3 DEF NsTypes
<1>4. CASE phase # "done"
  BY <1>1, <1>2, <1>4 DEF NsTypes
<1> QED BY <1>3, <1>4

LEMMA CommitOrderly == ASSUME NsInv, NEW p \in Process, Commit(p) PROVE Orderly(p)
BY CommitEffect, CommitCreate, CommitDelete, CommitMove, CommitTrash, CommitRestore

LEMMA CommitGroups ==
  ASSUME NsInv, NEW p \in Process, Orderly(p), NEW i \in TrashId
  PROVE  /\ man'[i] = man[i] => Group(i)' = Group(i)
         /\ man'[i] # man[i] =>
              Group(i)' = IF man'[i].node = None THEN {} ELSE Below(ent', man'[i].node)
<1>1. GroupPrivate(i)
  BY GroupsPrivate DEF NsInv, Kept
<1>2. ASSUME man'[i] = man[i], man[i].node # None PROVE Group(i)' = Group(i)
  <2>1. Below(ent, man[i].node) \subseteq Group(i)
    BY <1>2 DEF Group
  <2>2. \A d \in Below(ent, man[i].node) \cap Dir, n \in Name : ent'[d][n] = ent[d][n]
    BY <2>1 DEF Orderly, Standing
  <2>3. Below(ent', man[i].node) = Below(ent, man[i].node)
    BY <2>2, BelowSame, NamespaceAssumption
  <2> QED BY <1>2, <2>3 DEF Group
<1>3. man'[i] = man[i] /\ man[i].node = None => Group(i)' = Group(i)
  BY DEF Group
<1>4. ASSUME man'[i] # man[i]
      PROVE  Group(i)' = IF man'[i].node = None THEN {} ELSE Below(ent', man'[i].node)
  <2>1. man'[i].cleanup = {}
    BY <1>4 DEF Orderly
  <2> QED BY <2>1 DEF Group
<1> QED BY <1>2, <1>3, <1>4

LEMMA CommitStands ==
  ASSUME NsInv, NEW p \in Process, Orderly(p), NEW d, Standing(d)
  PROVE  Standing(d)' \/ AllShards({d}) \subseteq plan[p].res
<1> SUFFICES ASSUME ~(AllShards({d}) \subseteq plan[p].res) PROVE Standing(d)'
  OBVIOUS
<1>1. d \in Dir /\ d \in Node
  BY DEF Standing, Node
<1>2. d = Root \/ Placed(d)'
  BY <1>1 DEF Standing, Orderly
<1>3. ASSUME NEW i \in TrashId PROVE d \notin Group(i)'
  <2>1. CASE man'[i] = man[i]
    BY <2>1, CommitGroups DEF Standing
  <2>2. CASE man'[i] # man[i] /\ man'[i].node = None
    BY <2>2, CommitGroups
  <2>3. CASE man'[i] # man[i] /\ man'[i].node # None
    <3>1. Group(i)' = Below(ent', man'[i].node) /\ AllShards(Below(ent', man'[i].node)) \subseteq plan[p].res
      BY <2>3, CommitGroups DEF Orderly
    <3> QED BY <3>1 DEF AllShards
  <2> QED BY <2>1, <2>2, <2>3
<1> QED BY <1>1, <1>2, <1>3 DEF Standing

LEMMA CommitKept ==
  ASSUME NsInv, NEW p \in Process, Commit(p)
  PROVE  NsInv'
<1> DEFINE r == req[p] pl == plan[p]
<1>0. NsTypes /\ Kept /\ Steady /\ Orderly(p)
  BY CommitOrderly DEF NsInv
<1>1. pc[p] = "built" /\ obj' = obj /\ Ends(p, "done") /\ "done" \in Phases
  BY DEF Commit, Phases
<1>2. /\ pc' \in [Process -> Phases] /\ plan' \in [Process -> AnyPlan] /\ DOMAIN work' = Process
      /\ DOMAIN mut' = Process /\ req' \in [Process -> Requests \cup {NoRequest}]
      /\ \A q \in Process : req'[q] \in Request[q] \cup {NoRequest}
      /\ \A q \in Process : pc'[q] # "built" => mut'[q] = NoMutation
      /\ pc'[p] = "done" /\ req'[p] = NoRequest
      /\ \A q \in Process \ {p} : /\ pc'[q] = pc[q] /\ req'[q] = req[q] /\ plan'[q] = plan[q]
                                  /\ mut'[q] = mut[q] /\ work'[q] = work[q]
  BY <1>0, <1>1, EndsFacts
<1>3. NsTypes'
  BY <1>0, <1>1, <1>2 DEF NsTypes, Orderly
<1>4. \A q \in Process : req'[q].kind # "none" => q # p /\ req'[q] = req[q]
  BY <1>2 DEF NoRequest
<1>5. \A x : Unborn(x)' => Unborn(x)
  BY <1>4 DEF Unborn
<1>6. \A x \in Node : Gone(x) => Gone(x)'
  <2> SUFFICES ASSUME NEW x \in Node, Gone(x) PROVE Gone(x)'
    OBVIOUS
  <2>1. ~Placed(x)'
    BY <1>0, <1>1 DEF Orderly, Gone, Unborn
  <2>2. x \in Dir => Empty(x)'
    BY <1>0 DEF Orderly, Gone, Standing, Empty
  <2> QED BY <1>5, <2>1, <2>2 DEF Gone
<1>7. \A i \in TrashId : man[i].deleting => man'[i] = man[i] /\ Group(i)' = Group(i)
  BY <1>0, CommitGroups DEF Orderly
<1>8. \A i \in TrashId : GroupOK(i)'
  <2> SUFFICES ASSUME NEW i \in TrashId PROVE GroupOK(i)'
    OBVIOUS
  <2>1. CASE man'[i] # man[i]
    BY <1>0, <2>1 DEF Orderly, GroupOK
  <2>2. CASE man'[i] = man[i]
    <3> DEFINE m == man[i] C == man[i].cleanup
    <3>0. GroupOK(i)
      BY <1>0 DEF Kept
    <3>1. CASE C = {}
      BY <2>2, <3>0, <3>1 DEF GroupOK
    <3>2. CASE C # {}
      <4>1. GroupPrivate(i) /\ Group(i) = C /\ C \subseteq Node
        BY <1>0, <3>2, GroupsPrivate DEF Kept, GroupPrivate
      <4>2. \A d \in C \cap Dir, n \in Name : ent'[d][n] = ent[d][n]
        BY <1>0, <4>1 DEF Orderly, Standing
      <4>3. Closed(ent', C)
        BY <4>1, <4>2 DEF GroupPrivate, Closed
      <4>4. ASSUME NEW d \in Dir, NEW n \in Name, ent'[d][n] \in C PROVE d \in C
        BY <1>0, <2>2, <4>1, <4>4 DEF Orderly, GroupPrivate
      <4>5. ASSUME NEW j \in TrashId \ {i} PROVE man'[j].node \notin C
        <5>1. CASE man'[j] = man[j]
          BY <4>1, <5>1 DEF GroupPrivate
        <5>2. CASE man'[j] # man[j] /\ man'[j].node = None
          BY <4>1, <5>2, NamespaceAssumption
        <5>3. CASE man'[j] # man[j] /\ man'[j].node # None
          BY <1>0, <2>2, <4>1, <5>3 DEF Orderly
        <5> QED BY <5>1, <5>2, <5>3
      <4>6. \A x \in C : ~Unborn(x)'
        BY <1>5, <4>1 DEF GroupPrivate
      <4>7. Root \notin C /\ m.node \in C /\ m.deleting /\ m.node # None
        BY <3>0, <3>2, <4>1, NoManifestParts DEF GroupOK, GroupPrivate
      <4> QED BY <2>2, <3>0, <4>3, <4>4, <4>5, <4>6, <4>7 DEF GroupOK
    <3> QED BY <3>1, <3>2
  <2> QED BY <2>1, <2>2
<1>9. FreshOK'
  <2> SUFFICES ASSUME NEW q \in Process
               PROVE  /\ req'[q].kind = "create" => ~Placed(req[q].node)'
                      /\ req'[q].kind = "trash" => /\ man'[req'[q].id].node = None
                                                   /\ \A o \in Process : Purging(o)' => req'[o].id # req'[q].id
    BY <1>4 DEF FreshOK
  <2>1. ASSUME req'[q].kind = "create" PROVE ~Placed(req[q].node)'
    <3>1. q # p /\ req'[q] = req[q]
      BY <1>4, <2>1
    <3>2. ~Placed(req[q].node) /\ req[q].node \in Node
      BY <1>0, <2>1, <3>1, TypesOf DEF Kept, FreshOK
    <3>3. ~(r.kind = "create" /\ r.node = req[q].node)
      <4>1. req[q] \in Request[q] /\ (r.kind = "create" => r \in Request[p])
        BY <1>0, <2>1, <3>1 DEF NsTypes, NoRequest
      <4> QED BY <2>1, <3>1, <4>1, NamespaceAssumption DEF FreshIds
    <3>4. \A y \in Node : Placed(y)' => Placed(y) \/ (r.kind = "create" /\ r.node = y)
      BY <1>0 DEF Orderly
    <3>5. \A y : y = req[q].node => ~Placed(y)'
      BY <3>2, <3>3, <3>4
    <3>6. req'[q].node = req[q].node
      BY <3>1
    <3> QED BY <3>5, <3>6 DEF Placed
  <2>2. ASSUME req'[q].kind = "trash"
        PROVE  /\ man'[req'[q].id].node = None
               /\ \A o \in Process : Purging(o)' => req'[o].id # req'[q].id
    <3>1. q # p /\ req'[q] = req[q] /\ req[q].id \in TrashId
      BY <1>0, <1>4, <2>2, TypesOf
    <3>2. man[req[q].id].node = None /\ \A o \in Process : Purging(o) => req[o].id # req[q].id
      BY <1>0, <2>2, <3>1 DEF Kept, FreshOK
    <3>3. ~(r.kind = "trash" /\ r.id = req[q].id)
      <4>1. req[q] \in Request[q] /\ (r.kind = "trash" => r \in Request[p])
        BY <1>0, <2>2, <3>1 DEF NsTypes, NoRequest
      <4> QED BY <2>2, <3>1, <4>1, NamespaceAssumption DEF FreshIds
    <3>4. man'[req[q].id].node = None
      BY <1>0, <3>1, <3>2, <3>3 DEF Orderly
    <3>5. \A o \in Process : Purging(o)' => Purging(o) /\ req'[o] = req[o]
      BY <1>2 DEF Purging
    <3> QED BY <3>1, <3>2, <3>4, <3>5
  <2> QED BY <2>1, <2>2
<1>10. StoredOK'
  <2>1. \A x : Doomed(x) => Doomed(x)'
    BY <1>7 DEF Doomed
  <2>2. ASSUME NEW f \in File \ obj PROVE Gone(f)' \/ Doomed(f)'
    <3>1. Gone(f) \/ Doomed(f)
      BY <1>0 DEF Kept, StoredOK
    <3> QED BY <1>6, <2>1, <3>1 DEF Node
  <2>3. ASSUME NEW x \in Node \ rec', x = Root \/ Placed(x)' PROVE Doomed(x)'
    <3>1. x \notin rec /\ (x = Root \/ Placed(x))
      BY <1>0, <2>3 DEF Orderly
    <3> QED BY <1>0, <2>1, <3>1 DEF Kept, StoredOK
  <2> QED BY <1>1, <2>2, <2>3 DEF StoredOK
<1>11. ASSUME NEW q \in Process PROVE PlanOK(q)' /\ BuiltOK(q)' /\ PurgeOK(q)'
  <2>1. CASE q = p
    BY <1>2, <2>1 DEF PlanOK, BuiltOK, PurgeOK, Purging
  <2>2. CASE q # p
    <3>1. /\ pc'[q] = pc[q] /\ req'[q] = req[q] /\ plan'[q] = plan[q]
          /\ mut'[q] = mut[q] /\ work'[q] = work[q]
      BY <1>2, <2>2
    <3>2. PlanOK(q) /\ BuiltOK(q) /\ PurgeOK(q)
      BY <1>0 DEF Steady
    <3>3. PlanOK(q)'
      BY <3>1, <3>2 DEF PlanOK
    <3>4. ASSUME pc[q] = "built" PROVE Untouched(q)
      <4>1. plan[q].res \cap pl.res = {}
        BY <1>0, <1>1, <2>2, <3>4 DEF Steady, LeasesOK
      <4>2. ASSUME NEW d \in Dir, NEW n \in Name, Standing(d), ShardRes(d, n) \in plan[q].res
            PROVE  Standing(d)' /\ ent'[d][n] = ent[d][n]
        <5>1. ShardRes(d, n) \in AllShards({d}) /\ ShardRes(d, n) \notin pl.res
          BY <4>1, <4>2, DirectoryShards
        <5>2. Standing(d)'
          BY <1>0, <4>2, <5>1, CommitStands
        <5> QED BY <1>0, <5>1, <5>2 DEF Orderly
      <4>3. \A i \in TrashId : TrashRes(i) \in plan[q].res => man'[i] = man[i]
        BY <1>0, <4>1 DEF Orderly
      <4> QED BY <4>2, <4>3 DEF Untouched
    <3>5. BuiltOK(q)'
      BY <1>0, <3>1, <3>2, <3>4, BuiltKept DEF Orderly
    <3>6. ASSUME Purging(q) PROVE PurgeOK(q)'
      <4>0. PICK i \in TrashId : i = req[q].id
        BY <1>0, <3>2, <3>6, TypesOf DEF PurgeOK
      <4>1. (man[i].node # None => man[i].deleting) /\ req[q].kind = "purge"
        BY <3>2, <3>6, <4>0 DEF PurgeOK
      <4>2. man'[i] = man[i] /\ Group(i)' = Group(i)
        <5>1. CASE man[i].node # None
          BY <1>7, <4>1, <5>1
        <5>2. CASE man[i].node = None
          <6>1. ~(r.kind = "trash" /\ r.id = i)
            BY <1>0, <3>6, <4>0 DEF Kept, FreshOK
          <6>2. man[i] = NoManifest
            BY <1>0, <4>1, <5>2 DEF Kept, GroupOK
          <6>3. man'[i] = man[i]
            BY <1>0, <4>1, <6>1, <6>2 DEF Orderly
          <6> QED BY <1>0, <4>1, <6>3, CommitGroups
        <5> QED BY <5>1, <5>2
      <4>3. \A x \in Group(i) : (x \in Dir /\ Empty(x) => Empty(x)') /\ (x \in rec' => x \in rec)
        <5> TAKE x \in Group(i)
        <5>1. ~Unborn(x)
          BY <1>0, <4>1, NotInGroups
        <5>2. x \in Dir => ~Standing(x)
          BY <4>1 DEF Standing
        <5>3. x \in rec' => x \in rec
          BY <1>0, <5>1 DEF Orderly, Unborn
        <5> QED BY <1>0, <5>2, <5>3 DEF Orderly, Empty
      <4>4. man[i].node = None => man[i].cleanup = {} /\ Group(i) = {}
        BY <1>0, <4>1, NoManifestParts DEF Kept, GroupOK, Group
      <4>5. man[i].cleanup \subseteq Group(i)
        BY <4>4 DEF Group
      <4>6. GroupStays(i)
        BY <4>2, <4>3, <4>4, <4>5 DEF GroupStays
      <4> QED BY <1>0, <1>6, <3>1, <3>2, <3>6, <4>0, <4>6, PurgeKept
    <3>7. ~Purging(q) => PurgeOK(q)'
      BY <3>1 DEF PurgeOK, Purging
    <3> QED BY <3>3, <3>5, <3>6, <3>7
  <2> QED BY <2>1, <2>2
<1>12. LeasesOK'
  <2>1. \A q \in Process : pc'[q] = "built" => pc[q] = "built" /\ plan'[q] = plan[q]
    BY <1>2
  <2> QED BY <1>0, <2>1 DEF Steady, LeasesOK
<1>13. TreeOK'
  BY <1>0 DEF Orderly
<1> QED BY <1>3, <1>8, <1>9, <1>10, <1>11, <1>12, <1>13 DEF NsInv, Kept, Steady

-----------------------------------------------------------------------------
(* Permanent deletion, and giving up.                                          *)

LEMMA AbandonKept == ASSUME NsInv, NEW p \in Process, Abandon(p) PROVE NsInv'
<1> DEFINE phase == IF req[p].kind = "purge" THEN "idle" ELSE "done"
<1>1. NsTypes /\ Ends(p, phase) /\ UNCHANGED stored /\ phase \in Phases \ {"built"} /\ phase \in {"idle", "done"}
  BY DEF NsInv, Abandon, Phases
<1> HIDE DEF phase
<1>2. /\ Quiet(p) /\ pc'[p] = phase
  BY <1>1, EndsFacts DEF Quiet, Purging
<1>3. PlanOK(p)' /\ BuiltOK(p)' /\ PurgeOK(p)'
  BY <1>1, <1>2 DEF PlanOK, BuiltOK, PurgeOK, Purging
<1> QED BY <1>1, <1>2, <1>3, QuietKept

LEMMA SameStored ==
  ASSUME UNCHANGED stored, \A q \in Process : req'[q] \in {req[q], NoRequest}
  PROVE  /\ \A i \in TrashId : Group(i)' = Group(i)
         /\ \A x : (Gone(x) => Gone(x)') /\ (Placed(x)' <=> Placed(x)) /\ (Empty(x)' <=> Empty(x))
<1>1. UNCHANGED <<ent, man, rec, obj>>
  BY DEF stored
<1>2. \A x : Unborn(x)' => Unborn(x)
  BY DEF Unborn, NoRequest
<1>3. \A x : (Placed(x)' <=> Placed(x)) /\ (Empty(x)' <=> Empty(x))
  BY <1>1 DEF Placed, Empty
<1>4. \A x : Gone(x) => Gone(x)'
  BY <1>2, <1>3 DEF Gone
<1>5. \A i \in TrashId : Group(i)' = Group(i)
  BY <1>1 DEF Group
<1> QED BY <1>3, <1>4, <1>5

(* Below a node that is gone there is nothing else.                            *)
LEMMA GoneAlone == ASSUME NEW x \in Node, Gone(x) PROVE Below(ent, x) = {x}
<1>1. Closed(ent, {x})
  BY DEF Gone, Empty, Closed
<1> QED BY <1>1, BelowLeast, BelowHas, NamespaceAssumption

LEMMA PurgeFacts ==
  ASSUME NsInv, NEW p \in Process, Purging(p)
  PROVE  /\ req[p].kind = "purge" /\ req[p].id \in TrashId /\ plan[p] \in AnyPlan
         /\ plan[p].man.node \in Node /\ plan[p].man.node # None /\ mut[p] = NoMutation
<1>1. NsTypes /\ PurgeOK(p)
  BY DEF NsInv, Steady
<1> QED BY <1>1, TypesOf DEF PurgeOK, Manifest, NsTypes, Purging

LEMMA CollectKept == ASSUME NsInv, NEW p \in Process, Collect(p) PROVE NsInv'
<1> DEFINE node == plan[p].man.node
<1>1. /\ pc[p] = "claimed" /\ work' = [work EXCEPT ![p] = Subtree(node) \cap File]
      /\ pc' = [pc EXCEPT ![p] = "erasing"] /\ UNCHANGED <<stored, req, plan, mut>>
  BY DEF Collect
<1>2. NsTypes /\ Purging(p) /\ PurgeOK(p)
  BY <1>1 DEF NsInv, Steady, Purging
<1>3. /\ pc'[p] = "erasing" /\ work'[p] = Below(ent, node) \cap File
  BY <1>1, <1>2, SubtreeIsBelow DEF NsTypes
<1>4. Quiet(p)
  <2>1. pc' \in [Process -> Phases] /\ DOMAIN work' = Process
    BY <1>1, <1>2 DEF NsTypes, Phases
  <2>2. \A q \in Process \ {p} : pc'[q] = pc[q] /\ work'[q] = work[q]
    BY <1>1, <1>2 DEF NsTypes
  <2> QED BY <1>1, <1>2, <1>3, <2>1, <2>2, PurgeFacts DEF Quiet, NsTypes
<1>5. PICK i \in TrashId : i = req[p].id
  BY <1>2, PurgeFacts
<1>6. Group(i)' = Group(i) /\ \A x : Gone(x) => Gone(x)'
  BY <1>1, SameStored
<1>7. \A f \in Below(ent, node) : f \in Group(i) \/ Gone(f)
  <2>1. CASE man[i].node # None
    BY <1>2, <1>5, <2>1 DEF PurgeOK, Group
  <2>2. CASE man[i].node = None
    BY <1>2, <1>5, <2>2, GoneAlone, PurgeFacts DEF PurgeOK
  <2> QED BY <2>1, <2>2
<1>8. PurgeOK(p)'
  <2>1. /\ man' = man /\ req' = req /\ plan' = plan
    BY <1>1 DEF stored
  <2>2. /\ req[p].kind = "purge" /\ plan[p].res = {TrashRes(i)} /\ node # None
        /\ man[i].node # None => man[i].deleting /\ man[i].node = node
        /\ man[i].node = None => Gone(node)
    BY <1>2, <1>5 DEF PurgeOK
  <2>3. \A f \in work'[p] : f \in Group(i)' \/ Gone(f)'
    BY <1>3, <1>6, <1>7
  <2>4. PICK z : z = node
    OBVIOUS
  <2>5. man[i].node = None => Gone(z)'
    BY <1>6, <2>2, <2>4
  <2> QED BY <1>3, <1>5, <2>1, <2>2, <2>3, <2>4, <2>5 DEF PurgeOK, Destroys
<1>9. PlanOK(p)' /\ BuiltOK(p)'
  BY <1>3 DEF PlanOK, BuiltOK
<1> QED BY <1>3, <1>4, <1>8, <1>9, QuietKept

LEMMA CleanupKeysOf ==
  ASSUME NEW C \in SUBSET Node
  PROVE  /\ CleanupKeys(C) \subseteq Keys /\ \A key \in CleanupKeys(C) : key[2] \in C
         /\ \A x \in C : <<"node", x>> \in CleanupKeys(C) /\ (x \in Dir => <<"directory", x>> \in CleanupKeys(C))
BY DEF CleanupKeys, Keys

LEMMA ReviewKept == ASSUME NsInv, NEW p \in Process, Review(p) PROVE NsInv'
<1>1. NsTypes /\ Kept /\ pc[p] = "erasing" /\ Purging(p) /\ PurgeOK(p)
  BY DEF NsInv, Steady, Review, Purging
<1>2. PICK i \in TrashId : i = req[p].id
  BY <1>1, PurgeFacts
<1>3. PICK z : z = plan[p].man.node
  OBVIOUS
<1> DEFINE m == man[i]
<1>4. CASE Ends(p, "done") /\ UNCHANGED stored
  <2>1. "done" \in Phases \ {"built"}
    BY DEF Phases
  <2>2. Quiet(p) /\ pc'[p] = "done"
    BY <1>1, <1>4, <2>1, EndsFacts DEF Quiet, Purging
  <2>3. PlanOK(p)' /\ BuiltOK(p)' /\ PurgeOK(p)'
    BY <2>2 DEF PlanOK, BuiltOK, PurgeOK, Purging
  <2> QED BY <2>2, <2>3, QuietKept
<1>5. CASE /\ m.node # None /\ m.deleting /\ m.cleanup = {} /\ UNCHANGED <<stored, req, mut, work>>
           /\ plan' = [plan EXCEPT ![p].man.cleanup = Subtree(m.node)] /\ pc' = [pc EXCEPT ![p] = "listed"]
  <2>1. m.node \in Node /\ Subtree(m.node) = Below(ent, m.node) /\ Below(ent, m.node) \subseteq Node
    BY <1>1, <1>5, SubtreeIsBelow, BelowNodes, NamespaceAssumption DEF NsTypes, Manifest
  <2>2. PICK C \in SUBSET Node : C = Below(ent, m.node)
    BY <2>1
  <2>3. plan' = [plan EXCEPT ![p].man.cleanup = C] /\ plan[p] \in AnyPlan /\ plan[p].man \in Manifest
    BY <1>1, <1>5, <2>1, <2>2, TypesOf
  <2>4. [plan[p].man EXCEPT !.cleanup = C] \in Manifest
    BY <2>3 DEF Manifest
  <2>5. [plan[p] EXCEPT !.man.cleanup = C] \in AnyPlan
    BY <2>3, <2>4 DEF AnyPlan
  <2>6. plan' = [plan EXCEPT ![p] = [plan[p] EXCEPT !.man.cleanup = C]]
    BY <1>1, <2>3 DEF NsTypes
  <2>7. /\ plan'[p] = [plan[p] EXCEPT !.man.cleanup = C]
        /\ plan' \in [Process -> AnyPlan] /\ \A q \in Process \ {p} : plan'[q] = plan[q]
    BY <1>1, <2>5, <2>6 DEF NsTypes
  <2>8. plan'[p].man.cleanup = C /\ plan'[p].man.node = plan[p].man.node /\ plan'[p].res = plan[p].res
    BY <2>3, <2>7 DEF AnyPlan, Manifest
  <2>9. pc' \in [Process -> Phases] /\ pc'[p] = "listed" /\ \A q \in Process \ {p} : pc'[q] = pc[q]
    BY <1>1, <1>5 DEF NsTypes, Phases
  <2>10. Quiet(p)
    BY <1>1, <1>5, <2>7, <2>9, PurgeFacts DEF Quiet, NsTypes
  <2>11. PurgeOK(p)'
    <3>1. man' = man /\ ent' = ent /\ req' = req
      BY <1>5 DEF stored
    <3>2. req[p].kind = "purge" /\ plan[p].res = {TrashRes(i)} /\ z # None /\ m.node = z
      BY <1>1, <1>2, <1>3, <1>5 DEF PurgeOK
    <3> QED BY <1>2, <1>3, <1>5, <2>2, <2>8, <2>9, <3>1, <3>2 DEF PurgeOK
  <2>12. PlanOK(p)' /\ BuiltOK(p)'
    BY <2>9 DEF PlanOK, BuiltOK
  <2> QED BY <2>9, <2>10, <2>11, <2>12, QuietKept
<1>6. CASE /\ m.node # None /\ m.deleting /\ m.cleanup # {} /\ UNCHANGED <<stored, req, mut, plan>>
           /\ work' = [work EXCEPT ![p] = CleanupKeys(m.cleanup)] /\ pc' = [pc EXCEPT ![p] = "cleaning"]
  <2>1. pc' \in [Process -> Phases] /\ pc'[p] = "cleaning" /\ \A q \in Process \ {p} : pc'[q] = pc[q]
    BY <1>1, <1>6 DEF NsTypes, Phases
  <2>2. /\ work'[p] = CleanupKeys(m.cleanup) /\ DOMAIN work' = Process
        /\ \A q \in Process \ {p} : work'[q] = work[q]
    BY <1>1, <1>6 DEF NsTypes
  <2>3. Quiet(p)
    BY <1>1, <1>6, <2>1, <2>2, PurgeFacts DEF Quiet, NsTypes
  <2>4. PurgeOK(p)'
    <3>1. man' = man /\ ent' = ent /\ req' = req /\ plan' = plan
      BY <1>6 DEF stored
    <3>2. req[p].kind = "purge" /\ plan[p].res = {TrashRes(i)} /\ z # None /\ m.node = z
      BY <1>1, <1>2, <1>3, <1>6 DEF PurgeOK
    <3>3. m.cleanup \in SUBSET Node /\ m.cleanup \subseteq Group(i) /\ Group(i)' = Group(i)
      BY <1>1, <1>6, SameStored DEF NsTypes, Manifest, Group
    <3>4. /\ work'[p] \subseteq Keys /\ \A key \in work'[p] : key[2] \in Group(i)'
          /\ \A x \in m.cleanup : <<"node", x>> \in work'[p] /\ (x \in Dir => <<"directory", x>> \in work'[p])
      BY <2>2, <3>3, CleanupKeysOf
    <3> QED BY <1>2, <1>3, <1>6, <2>1, <3>1, <3>2, <3>4 DEF PurgeOK, Destroys
  <2>5. PlanOK(p)' /\ BuiltOK(p)'
    BY <2>1 DEF PlanOK, BuiltOK
  <2> QED BY <2>1, <2>3, <2>4, <2>5, QuietKept
<1> QED BY <1>2, <1>4, <1>5, <1>6 DEF Review

(* The steps of a permanent deletion that write something: what is left to be  *)
(* shown about the others.                                                     *)
LEMMA OthersKept ==
  ASSUME NsInv, NEW p \in Process, NEW q \in Process \ {p}, ent' \in Entries,
         pc'[q] = pc[q], req'[q] = req[q], plan'[q] = plan[q], mut'[q] = mut[q], work'[q] = work[q],
         \A x \in Node : Gone(x) => Gone(x)', pc[q] = "built" => Untouched(q),
         \A i \in TrashId : GroupStays(i)
  PROVE  PlanOK(q)' /\ BuiltOK(q)' /\ PurgeOK(q)'
<1>1. NsTypes /\ Kept /\ PlanOK(q) /\ BuiltOK(q) /\ PurgeOK(q)
  BY DEF NsInv, Steady
<1>2. PlanOK(q)'
  BY <1>1 DEF PlanOK
<1>3. BuiltOK(q)'
  BY <1>1, BuiltKept
<1>4. CASE Purging(q)
  <2>1. PICK i \in TrashId : i = req[q].id
    BY <1>4, PurgeFacts
  <2> QED BY <1>1, <1>2, <1>3, <1>4, <2>1, PurgeKept
<1>5. CASE ~Purging(q)
  BY <1>2, <1>3, <1>5 DEF Purging, PurgeOK
<1> QED BY <1>4, <1>5

LEMMA LeasesKept ==
  ASSUME NsInv, NEW p \in Process, pc'[p] # "built",
         \A q \in Process \ {p} : pc'[q] = pc[q] /\ plan'[q] = plan[q]
  PROVE  LeasesOK'
BY DEF NsInv, Steady, LeasesOK

LEMMA MarkedKept ==
  ASSUME NsInv, NEW p \in Process, NEW i \in TrashId, i = req[p].id, req[p].kind = "purge",
         pc[p] # "built", pc' \in [Process -> Phases], pc'[p] \in {"claimed", "cleaning"},
         UNCHANGED <<ent, rec, obj, req, plan, mut>>, DOMAIN work' = Process,
         \A q \in Process \ {p} : pc'[q] = pc[q] /\ work'[q] = work[q],
         man' \in [TrashId -> Manifest], \A j \in TrashId \ {i} : man'[j] = man[j],
         man[i].node # None, man'[i].node = man[i].node, man'[i].path = man[i].path, man'[i].deleting,
         man'[i].cleanup \in {man[i].cleanup, Group(i)},
         TrashRes(i) \in plan[p].res, Unleased(plan[p].res, p), PurgeOK(p)'
  PROVE  NsInv' /\ \A d : Standing(d) => Standing(d)'
<1>1. NsTypes /\ Kept /\ GroupPrivate(i) /\ GroupOK(i)
  BY GroupsPrivate DEF NsInv, Kept
<1>2. NsTypes'
  BY <1>1 DEF NsTypes
<1>3. man'[i].cleanup # {} => man'[i].cleanup = Group(i)
  BY <1>1 DEF GroupPrivate
<1>4. \A j \in TrashId : Group(j)' = Group(j) /\ man'[j].node = man[j].node
  <2>1. Group(i)' = Group(i)
    BY DEF Group
  <2>2. \A j \in TrashId \ {i} : Group(j)' = Group(j) /\ man'[j].node = man[j].node
    BY DEF Group
  <2> QED BY <2>1, <2>2
<1>5. \A x : (Placed(x)' <=> Placed(x)) /\ (Unborn(x)' <=> Unborn(x)) /\ (Empty(x)' <=> Empty(x))
  <2>1. \A x : Placed(x)' <=> Placed(x)
    BY <1>4 DEF Placed
  <2>2. \A x : (Unborn(x)' <=> Unborn(x)) /\ (Empty(x)' <=> Empty(x))
    BY DEF Unborn, Empty
  <2> QED BY <2>1, <2>2
<1>6. \A x : Gone(x) => Gone(x)'
  BY <1>5 DEF Gone
<1>7. TreeOK'
  BY <1>1, <1>4 DEF Kept, TreeOK
<1>8. ASSUME NEW j \in TrashId PROVE GroupOK(j)'
  <2>0. GroupOK(j)
    BY <1>1 DEF Kept
  <2>1. CASE j = i
    <3>1. man'[j].node # None /\ man'[j].path \in Path /\ man'[j].deleting
      BY <1>1, <2>1 DEF GroupOK
    <3>2. ASSUME man'[j].cleanup # {}
          PROVE  LET C == man'[j].cleanup IN
                 /\ man'[j].node \in C /\ Closed(ent', C) /\ Root \notin C
                 /\ \A d \in Dir, n \in Name : ent'[d][n] \in C => d \in C
                 /\ \A o \in TrashId \ {j} : man'[o].node \notin C
                 /\ \A x \in C : ~Unborn(x)'
      BY <1>1, <1>3, <1>4, <1>5, <2>1, <3>2 DEF GroupPrivate
    <3> QED BY <3>1, <3>2 DEF GroupOK
  <2>2. CASE j # i
    <3>1. man'[j] = man[j]
      BY <2>2
    <3> QED BY <1>4, <1>5, <2>0, <3>1 DEF GroupOK
  <2> QED BY <2>1, <2>2
<1>9. FreshOK'
  <2> SUFFICES ASSUME NEW q \in Process
               PROVE  /\ req[q].kind = "create" => ~Placed(req[q].node)'
                      /\ req[q].kind = "trash" => /\ man'[req[q].id].node = None
                                                  /\ \A o \in Process : Purging(o)' => req[o].id # req[q].id
    BY DEF FreshOK
  <2>1. req[q].kind = "create" => ~Placed(req[q].node)'
    <3> SUFFICES ASSUME req[q].kind = "create" PROVE ~Placed(req[q].node)'
      OBVIOUS
    <3>1. \A y : y = req[q].node => ~Placed(y)'
      BY <1>1, <1>5 DEF Kept, FreshOK
    <3> QED BY <3>1 DEF Placed
  <2>2. req[q].kind = "trash" => /\ man[req[q].id].node = None /\ req[q].id \in TrashId
                                 /\ \A o \in Process : Purging(o) => req[o].id # req[q].id
    BY <1>1, TypesOf DEF Kept, FreshOK
  <2>3. \A o \in Process \ {p} : Purging(o)' => Purging(o)
    BY DEF Purging
  <2> QED BY <1>4, <2>1, <2>2, <2>3
<1>10. StoredOK'
  <2>1. \A x : Doomed(x) => Doomed(x)'
    BY <1>4 DEF Doomed
  <2> QED BY <1>1, <1>5, <1>6, <2>1 DEF Kept, StoredOK
<1>11. ASSUME NEW q \in Process \ {p} PROVE PlanOK(q)' /\ BuiltOK(q)' /\ PurgeOK(q)'
  <2>1. ASSUME pc[q] = "built" PROVE Untouched(q)
    <3>1. TrashRes(i) \notin plan[q].res
      BY <2>1 DEF Unleased, Held
    <3>2. \A d : Standing(d) => Standing(d)'
      BY <1>4, <1>5 DEF Standing
    <3> QED BY <3>1, <3>2 DEF Untouched
  <2>2. ASSUME NEW j \in TrashId PROVE GroupStays(j)
    <3>1. man[j].node = None => man[j].cleanup = {} /\ Group(j) = {}
      BY <1>1, NoManifestParts DEF Kept, GroupOK, Group
    <3>2. man[j].cleanup # {} => man'[j].cleanup = man[j].cleanup
      BY <1>1 DEF GroupPrivate
    <3>3. man[j].deleting => man'[j].deleting
      OBVIOUS
    <3>4. man[j].node = None => man'[j].cleanup = {}
      BY <3>1
    <3> QED BY <1>4, <1>5, <3>1, <3>2, <3>3, <3>4 DEF GroupStays
  <2>3. ent' \in Entries
    BY <1>1 DEF NsTypes
  <2> QED BY <1>6, <2>1, <2>2, <2>3, OthersKept
<1>12. PlanOK(p)' /\ BuiltOK(p)'
  BY DEF PlanOK, BuiltOK
<1>13. LeasesOK'
  BY LeasesKept
<1>14. \A d : Standing(d) => Standing(d)'
  BY <1>4, <1>5 DEF Standing
<1> QED BY <1>2, <1>7, <1>8, <1>9, <1>10, <1>11, <1>12, <1>13, <1>14 DEF NsInv, Kept, Steady

(* A group that somebody has claimed before.                                   *)
LEMMA ClaimAgainKept ==
  ASSUME NsInv, NEW p \in Process, Claim(p), plan[p].man.deleting
  PROVE  NsInv' /\ UNCHANGED <<ent, man>>
<1>1. /\ req[p].kind = "purge" /\ pc[p] = "planned" /\ pc' = [pc EXCEPT ![p] = "claimed"]
      /\ UNCHANGED <<stored, req, plan, mut, work>>
  BY DEF Claim, stored
<1>2. NsTypes /\ Purging(p) /\ PurgeOK(p)
  BY <1>1 DEF NsInv, Steady, Purging
<1>3. pc'[p] = "claimed" /\ pc' \in [Process -> Phases] /\ \A q \in Process \ {p} : pc'[q] = pc[q]
  BY <1>1, <1>2 DEF NsTypes, Phases
<1>4. Quiet(p)
  BY <1>1, <1>2, <1>3, PurgeFacts DEF Quiet, NsTypes
<1>5. PlanOK(p)' /\ BuiltOK(p)'
  BY <1>3 DEF PlanOK, BuiltOK
<1>6. PurgeOK(p)'
  <2>1. PICK i \in TrashId : i = req[p].id
    BY <1>2, PurgeFacts
  <2>2. PICK z : z = plan[p].man.node
    OBVIOUS
  <2>3. /\ req[p].kind = "purge" /\ plan[p].res = {TrashRes(i)} /\ z # None
        /\ man[i].node # None => man[i].deleting /\ man[i].node = z
        /\ man[i].node = None => Gone(z)
    BY <1>2, <2>1, <2>2 DEF PurgeOK
  <2>4. man' = man /\ req' = req /\ plan' = plan /\ (Gone(z) => Gone(z)')
    BY <1>1, SameStored DEF stored
  <2> QED BY <1>3, <2>1, <2>2, <2>3, <2>4 DEF PurgeOK
<1> QED BY <1>1, <1>3, <1>4, <1>5, <1>6, QuietKept DEF stored

LEMMA ClaimKept ==
  ASSUME NsInv, Looks, NEW p \in Process, Claim(p)
  PROVE  NsInv' /\ \A d : Standing(d) => Standing(d)'
<1> DEFINE m == plan[p].man
<1>0. CASE m.deleting
  <2>1. NsInv' /\ ent' = ent /\ man' = man
    BY <1>0, ClaimAgainKept
  <2> QED BY <2>1 DEF Standing, Placed, Group
<1> SUFFICES ASSUME ~m.deleting PROVE NsInv' /\ \A d : Standing(d) => Standing(d)'
  BY <1>0
<1>1. /\ req[p].kind = "purge" /\ pc[p] = "planned" /\ Unleased(plan[p].res, p)
      /\ man' = [man EXCEPT ![req[p].id] = [m EXCEPT !.deleting = TRUE]]
      /\ pc' = [pc EXCEPT ![p] = "claimed"] /\ UNCHANGED <<ent, rec, obj, req, plan, mut, work>>
  BY DEF Claim
<1>2. NsTypes /\ Kept /\ PlanFits(req[p], plan[p]) /\ LookOK(p)
  BY <1>1 DEF NsInv, Steady, PlanOK, Looks
<1>3. PICK i \in TrashId : i = req[p].id
  BY <1>1, <1>2, TypesOf
<1>4. man[i] = m /\ m.node # None /\ plan[p].res = {TrashRes(i)} /\ m \in Manifest
  BY <1>1, <1>2, <1>3, TypesOf DEF LookOK, Looking, PlanFits
<1>5. /\ man' \in [TrashId -> Manifest] /\ \A j \in TrashId \ {i} : man'[j] = man[j]
      /\ man'[i].node = m.node /\ man'[i].path = m.path /\ man'[i].deleting /\ man'[i].cleanup = m.cleanup
  <2>1. [m EXCEPT !.deleting = TRUE] \in Manifest
    BY <1>4 DEF Manifest
  <2>2. man'[i] = [m EXCEPT !.deleting = TRUE]
    BY <1>1, <1>2, <1>3 DEF NsTypes
  <2>3. man'[i].node = m.node /\ man'[i].path = m.path /\ man'[i].deleting /\ man'[i].cleanup = m.cleanup
    BY <1>4, <2>2 DEF Manifest
  <2> QED BY <1>1, <1>2, <1>3, <2>1, <2>3 DEF NsTypes
<1>6. pc' \in [Process -> Phases] /\ pc'[p] = "claimed" /\ \A q \in Process \ {p} : pc'[q] = pc[q]
  BY <1>1, <1>2 DEF NsTypes, Phases
<1>7. PurgeOK(p)'
  BY <1>1, <1>3, <1>4, <1>5, <1>6 DEF PurgeOK
<1>8. DOMAIN work' = Process /\ \A q \in Process \ {p} : work'[q] = work[q]
  BY <1>1, <1>2 DEF NsTypes
<1>9. /\ pc[p] # "built" /\ pc'[p] \in {"claimed", "cleaning"}
      /\ man[i].node # None /\ man'[i].node = man[i].node /\ man'[i].path = man[i].path
      /\ man'[i].cleanup \in {man[i].cleanup, Group(i)} /\ TrashRes(i) \in plan[p].res
  BY <1>1, <1>4, <1>5, <1>6
<1> HIDE DEF m
<1> QED BY <1>1, <1>3, <1>5, <1>6, <1>7, <1>8, <1>9, MarkedKept

LEMMA SaveCleanupKept ==
  ASSUME NsInv, NEW p \in Process, SaveCleanup(p)
  PROVE  NsInv' /\ \A d : Standing(d) => Standing(d)'
<1>1. NsTypes /\ Kept /\ pc[p] = "listed" /\ Purging(p) /\ PurgeOK(p) /\ Unleased(plan[p].res, p)
  BY DEF NsInv, Steady, SaveCleanup, Purging
<1>2. PICK i \in TrashId : i = req[p].id
  BY <1>1, PurgeFacts
<1> DEFINE live == man[i]
           saved == IF live.cleanup = {} THEN [live EXCEPT !.cleanup = plan[p].man.cleanup] ELSE live
<1>3. /\ live.node # None /\ live.deleting /\ man' = [man EXCEPT ![i] = saved]
      /\ work' = [work EXCEPT ![p] = CleanupKeys(saved.cleanup)]
      /\ pc' = [pc EXCEPT ![p] = "cleaning"] /\ UNCHANGED <<ent, rec, obj, req, plan, mut>>
  BY <1>2 DEF SaveCleanup
<1>4. GroupPrivate(i) /\ live \in Manifest
  BY <1>1, GroupsPrivate DEF Kept, NsTypes
<1>5. /\ saved \in Manifest /\ saved.node = live.node /\ saved.path = live.path /\ saved.deleting
      /\ saved.cleanup = Group(i)
  <2>1. CASE live.cleanup = {}
    <3>1. plan[p].man.cleanup = Group(i)
      BY <1>1, <1>2, <1>3, <1>4, <2>1 DEF PurgeOK, GroupPrivate
    <3>2. Group(i) \subseteq Node
      BY <1>4 DEF GroupPrivate
    <3> QED BY <1>3, <1>4, <2>1, <3>1, <3>2 DEF Manifest
  <2>2. CASE live.cleanup # {}
    BY <1>3, <1>4, <2>2 DEF GroupPrivate
  <2> QED BY <2>1, <2>2
<1> HIDE DEF saved
<1>6. man' \in [TrashId -> Manifest] /\ man'[i] = saved /\ \A j \in TrashId \ {i} : man'[j] = man[j]
  BY <1>1, <1>3, <1>5 DEF NsTypes
<1>7. pc' \in [Process -> Phases] /\ pc'[p] = "cleaning" /\ \A q \in Process \ {p} : pc'[q] = pc[q]
  BY <1>1, <1>3 DEF NsTypes, Phases
<1>8. /\ DOMAIN work' = Process /\ work'[p] = CleanupKeys(Group(i))
      /\ \A q \in Process \ {p} : work'[q] = work[q]
  BY <1>1, <1>3, <1>5 DEF NsTypes
<1>9. Group(i)' = Group(i) /\ Group(i) # {} /\ Group(i) \in SUBSET Node
  BY <1>3, <1>4, <1>5, <1>6 DEF Group, GroupPrivate
<1>10. PurgeOK(p)'
  <2>1. PICK z : z = plan[p].man.node
    OBVIOUS
  <2>2. req[p].kind = "purge" /\ plan[p].res = {TrashRes(i)} /\ z # None /\ live.node = z
    BY <1>1, <1>2, <1>3, <2>1 DEF PurgeOK
  <2>3. /\ work'[p] \subseteq Keys /\ \A key \in work'[p] : key[2] \in Group(i)'
        /\ \A x \in Group(i) : <<"node", x>> \in work'[p] /\ (x \in Dir => <<"directory", x>> \in work'[p])
    BY <1>8, <1>9, CleanupKeysOf
  <2> QED BY <1>2, <1>3, <1>5, <1>6, <1>7, <1>9, <2>1, <2>2, <2>3 DEF PurgeOK, Destroys
<1>11. TrashRes(i) \in plan[p].res
  BY <1>1, <1>2 DEF PurgeOK
<1> QED BY <1>1, <1>2, <1>3, <1>5, <1>6, <1>7, <1>8, <1>10, <1>11, PurgeFacts, MarkedKept

(* Payloads, shards and records go, one by one: of a group whose cleanup plan  *)
(* is stored, or of what is gone already.                                      *)
Erases(p, i) ==
  /\ ent' \in Entries /\ man' = man /\ rec' \subseteq rec /\ obj' \subseteq obj
  /\ UNCHANGED <<req, plan, mut, pc>> /\ DOMAIN work' = Process
  /\ \A q \in Process \ {p} : work'[q] = work[q]
  /\ \A c \in Dir, n \in Name :
       ent'[c][n] # ent[c][n] => ent'[c][n] = None /\ c \in Group(i) /\ man[i].cleanup # {}
  /\ \A x \in (rec \ rec') \cup (obj \ obj') : x \in Group(i) \/ Gone(x)

LEMMA ErasesLeaves ==
  ASSUME NsInv, NEW p \in Process, NEW i \in TrashId, Erases(p, i)
  PROVE  /\ \A j \in TrashId : Group(j)' = Group(j)
         /\ \A x \in Node : (Placed(x)' => Placed(x)) /\ (Gone(x) => Gone(x)')
         /\ \A x : (Unborn(x)' <=> Unborn(x)) /\ (Standing(x) => Standing(x)')
         /\ \A x \in Dir : Empty(x) => Empty(x)'
<1>1. NsTypes /\ Kept /\ \A j \in TrashId : GroupPrivate(j)
  BY GroupsPrivate DEF NsInv, Kept
<1>2. ASSUME NEW j \in TrashId PROVE Group(j)' = Group(j)
  <2> DEFINE x == man[j].node C == man[j].cleanup
  <2>1. CASE x = None
    BY <2>1 DEF Group, Erases
  <2>2. CASE x # None /\ C # {}
    <3>1. \A d \in Below(ent, x) \cap Dir, n \in Name : ent'[d][n] \in {ent[d][n], None}
      BY DEF Erases
    <3>2. Below(ent', x) \subseteq Below(ent, x)
      BY <3>1, BelowShrinks, NamespaceAssumption
    <3>3. Group(j) = C /\ Below(ent, x) \subseteq C
      <4>1. Group(j) = C
        BY <1>1, <2>2 DEF GroupPrivate
      <4>2. Group(j) = Below(ent, x) \cup C
        BY <2>2 DEF Group
      <4> QED BY <4>1, <4>2
    <3>4. Group(j)' = Below(ent', x) \cup C
      <4>1. man' = man
        BY DEF Erases
      <4> QED BY <2>2, <4>1 DEF Group
    <3> QED BY <3>2, <3>3, <3>4
  <2>3. CASE x # None /\ C = {}
    <3>0. Group(j) = Below(ent, x) /\ x \in Node /\ ent \in Entries
      BY <1>1, <2>3 DEF Group, NsTypes, Manifest
    <3>1. ASSUME NEW d \in Below(ent, x) \cap Dir, NEW n \in Name, ent'[d][n] # ent[d][n] PROVE FALSE
      <4>1. d \in Group(i) /\ i # j
        BY <2>3, <3>1 DEF Erases
      <4>2. x \notin Group(i)
        BY <1>1, <4>1 DEF GroupPrivate
      <4>3. Below(ent, x) \cap Group(i) = {}
        BY <1>1, <3>0, <4>2, BelowAvoids DEF GroupPrivate
      <4> QED BY <4>1, <4>3
    <3>2. Below(ent', x) = Below(ent, x)
      BY <3>1, BelowSame, NamespaceAssumption
    <3> QED BY <3>2 DEF Group, Erases
  <2> QED BY <2>1, <2>2, <2>3
<1>3. \A x : Unborn(x)' <=> Unborn(x)
  BY DEF Unborn, Erases
<1>4. \A x \in Node : Placed(x)' => Placed(x)
  <2>1. None \notin Node
    BY NamespaceAssumption
  <2> QED BY <2>1 DEF Placed, Erases
<1>5. \A x \in Dir : Empty(x) => Empty(x)'
  BY DEF Empty, Erases
<1>6. \A x \in Node : Gone(x) => Gone(x)'
  BY <1>3, <1>4, <1>5 DEF Gone
<1>7. ASSUME NEW x, Standing(x) PROVE Standing(x)'
  <2>1. ASSUME NEW d \in Dir, NEW n \in Name, ent[d][n] = x PROVE ent'[d][n] = x
    <3>1. x # None
      BY <1>7, NamespaceAssumption DEF Standing, Node
    <3> SUFFICES ASSUME ent'[d][n] # ent[d][n] PROVE FALSE
      BY <2>1
    <3>2. d \in Group(i)
      BY DEF Erases
    <3>3. x \in Group(i)
      BY <1>1, <2>1, <3>1, <3>2 DEF GroupPrivate, Closed
    <3> QED BY <1>7, <3>3 DEF Standing
  <2>2. \A j \in TrashId : man'[j] = man[j]
    BY DEF Erases
  <2>3. Placed(x) => Placed(x)'
    BY <2>1, <2>2 DEF Placed
  <2> QED BY <1>2, <1>7, <2>3 DEF Standing
<1> QED BY <1>2, <1>3, <1>4, <1>5, <1>6, <1>7

LEMMA ErasesKept ==
  ASSUME NsInv, NEW p \in Process, NEW i \in TrashId, i = req[p].id, Purging(p), Erases(p, i), PurgeOK(p)'
  PROVE  NsInv'
<1>1. NsTypes /\ Kept /\ PurgeOK(p) /\ \A j \in TrashId : GroupPrivate(j)
  BY GroupsPrivate DEF NsInv, Kept, Steady
<1>2. /\ \A j \in TrashId : Group(j)' = Group(j)
      /\ \A x \in Node : (Placed(x)' => Placed(x)) /\ (Gone(x) => Gone(x)')
      /\ \A x : (Unborn(x)' <=> Unborn(x)) /\ (Standing(x) => Standing(x)')
      /\ \A x \in Dir : Empty(x) => Empty(x)'
  BY ErasesLeaves
<1>3. /\ man' = man /\ req' = req /\ plan' = plan /\ mut' = mut /\ pc' = pc /\ ent' \in Entries
      /\ \A d \in Dir, n \in Name : ent'[d][n] \in {ent[d][n], None}
      /\ rec' \subseteq rec /\ obj' \subseteq obj /\ DOMAIN work' = Process
  BY DEF Erases
<1>4. NsTypes'
  BY <1>1, <1>3 DEF NsTypes
<1>5. TreeOK'
  <2>1. OncePlaced(ent')
    BY <1>1, <1>3 DEF Kept, TreeOK, OncePlaced
  <2> QED BY <1>1, <1>3, <2>1 DEF Kept, TreeOK
<1>6. ASSUME NEW j \in TrashId PROVE GroupOK(j)'
  <2> DEFINE C == man[j].cleanup
  <2>1. GroupOK(j) /\ C \subseteq Node /\ None \notin C
    BY <1>1, NamespaceAssumption DEF Kept, NsTypes, Manifest
  <2>2. ASSUME C # {} PROVE /\ Closed(ent', C)
                            /\ \A d \in Dir, n \in Name : ent'[d][n] \in C => d \in C
    BY <1>3, <2>1, <2>2 DEF GroupOK, Closed
  <2> QED BY <1>2, <1>3, <2>1, <2>2 DEF GroupOK
<1>7. FreshOK'
  <2> SUFFICES ASSUME NEW q \in Process
               PROVE  /\ req[q].kind = "create" => ~Placed(req[q].node)'
                      /\ req[q].kind = "trash" => /\ man[req[q].id].node = None
                                                  /\ \A o \in Process : Purging(o) => req[o].id # req[q].id
    BY <1>3 DEF FreshOK, Purging
  <2>1. req[q].kind = "create" => ~Placed(req[q].node)'
    <3> SUFFICES ASSUME req[q].kind = "create" PROVE ~Placed(req[q].node)'
      OBVIOUS
    <3>1. \A y : y = req[q].node => ~Placed(y)'
      BY <1>1, <1>2, TypesOf DEF Kept, FreshOK
    <3> QED BY <1>3, <3>1 DEF Placed
  <2> QED BY <1>1, <2>1 DEF Kept, FreshOK
<1>8. StoredOK'
  <2>1. \A x : Doomed(x) => Doomed(x)'
    BY <1>2, <1>3 DEF Doomed
  <2>2. \A x \in Group(i) : Doomed(x)'
    <3>1. \A x \in Group(i) : man[i].deleting
      BY <1>1 DEF PurgeOK, Group
    <3> QED BY <2>1, <3>1 DEF Doomed
  <2>3. ASSUME NEW f \in File \ obj' PROVE Gone(f)' \/ Doomed(f)'
    <3>1. f \in Node
      BY DEF Node
    <3>2. Gone(f) \/ Doomed(f) \/ f \in Group(i)
      BY <1>1, <2>3 DEF Kept, StoredOK, Erases
    <3> QED BY <1>2, <2>1, <2>2, <3>1, <3>2
  <2>4. ASSUME NEW x \in Node \ rec', x = Root \/ Placed(x)' PROVE Doomed(x)'
    <3>1. x = Root \/ Placed(x)
      BY <1>2, <2>4
    <3>2. x \notin rec => Doomed(x)
      BY <1>1, <3>1 DEF Kept, StoredOK
    <3>3. x \in rec => x \in Group(i)
      BY <2>4, <3>1 DEF Erases, Gone
    <3> QED BY <2>1, <2>2, <3>2, <3>3
  <2> QED BY <2>3, <2>4 DEF StoredOK
<1>9. ASSUME NEW q \in Process \ {p} PROVE PlanOK(q)' /\ BuiltOK(q)' /\ PurgeOK(q)'
  <2>1. Untouched(q)
    <3>1. ASSUME NEW d \in Dir, NEW n \in Name, Standing(d) PROVE ent'[d][n] = ent[d][n]
      BY <3>1 DEF Erases, Standing
    <3> QED BY <1>2, <1>3, <3>1 DEF Untouched
  <2>2. ASSUME NEW j \in TrashId PROVE GroupStays(j)
    <3>1. man[j].node = None => man[j].cleanup = {} /\ Group(j) = {}
      BY <1>1, NoManifestParts DEF Kept, GroupOK, Group
    <3> QED BY <1>2, <1>3, <3>1 DEF GroupStays
  <2>3. /\ pc'[q] = pc[q] /\ req'[q] = req[q] /\ plan'[q] = plan[q] /\ mut'[q] = mut[q]
        /\ work'[q] = work[q]
    BY DEF Erases
  <2> QED BY <1>2, <1>3, <2>1, <2>2, <2>3, OthersKept
<1>10. PlanOK(p)' /\ BuiltOK(p)'
  BY <1>3 DEF NsInv, Steady, PlanOK, BuiltOK, Purging
<1>11. LeasesOK'
  BY <1>3 DEF NsInv, Steady, LeasesOK
<1> QED BY <1>4, <1>5, <1>6, <1>7, <1>8, <1>9, <1>10, <1>11 DEF NsInv, Kept, Steady

(* The parts of PurgeOK that erasing leaves alone.                             *)
LEMMA ErasesPurge ==
  ASSUME NsInv, NEW p \in Process, NEW i \in TrashId, i = req[p].id, Purging(p), Erases(p, i),
         pc[p] = "erasing" => work'[p] \subseteq work[p],
         pc[p] = "cleaning" =>
           /\ work'[p] \subseteq work[p]
           /\ \A x \in man[i].cleanup : /\ x \in Dir /\ <<"directory", x>> \notin work'[p] => Empty(x)'
                                        /\ <<"node", x>> \notin work'[p] => x \notin rec',
         pc[p] # "listed"
  PROVE  PurgeOK(p)'
<1>1. PurgeOK(p) /\ plan[p].man.node \in Node
  BY PurgeFacts DEF NsInv, Steady
<1>2. Group(i)' = Group(i) /\ \A x \in Node : Gone(x) => Gone(x)'
  BY ErasesLeaves
<1>3. /\ man' = man /\ req' = req /\ plan' = plan /\ pc' = pc
  BY DEF Erases
<1>4. PICK z \in Node : z = plan[p].man.node
  BY <1>1
<1>5. /\ req[p].kind = "purge" /\ plan[p].res = {TrashRes(i)} /\ z # None
      /\ man[i].node # None => man[i].deleting /\ man[i].node = z
      /\ man[i].node = None => Gone(z)'
  BY <1>1, <1>2, <1>4 DEF PurgeOK
<1>6. pc[p] = "erasing" => work'[p] \subseteq File /\ \A f \in work'[p] : f \in Group(i)' \/ Gone(f)'
  <2>1. File \subseteq Node
    BY DEF Node
  <2> QED BY <1>1, <1>2, <2>1 DEF PurgeOK, Destroys
<1>7. pc[p] = "cleaning" => /\ work'[p] \subseteq Keys
                            /\ \A key \in work'[p] : key[2] \in Group(i)' \/ Gone(key[2])'
                            /\ man[i].node # None => man[i].cleanup # {}
  <2>1. \A key \in Keys : key[2] \in Node
    BY DEF Keys, Node
  <2> QED BY <1>1, <1>2, <2>1 DEF PurgeOK, Destroys
<1> QED BY <1>3, <1>4, <1>5, <1>6, <1>7 DEF PurgeOK, Destroys

LEMMA EraseKept == ASSUME NsInv, NEW p \in Process, Erase(p) PROVE NsInv'
<1>1. pc[p] = "erasing" /\ UNCHANGED <<ent, man, rec, req, plan, mut, pc>>
  BY DEF Erase, stored
<1>2. PICK f \in work[p] : obj' = obj \ {f} /\ work' = [work EXCEPT ![p] = @ \ {f}]
  BY DEF Erase
<1>3. NsTypes /\ Purging(p) /\ PurgeOK(p)
  BY <1>1 DEF NsInv, Steady, Purging
<1>4. PICK i \in TrashId : i = req[p].id
  BY <1>3, PurgeFacts
<1>5. DOMAIN work' = Process /\ work'[p] \subseteq work[p] /\ \A q \in Process \ {p} : work'[q] = work[q]
  BY <1>2, <1>3 DEF NsTypes
<1>6. Erases(p, i)
  <2>1. f \in Group(i) \/ Gone(f)
    BY <1>1, <1>3, <1>4 DEF PurgeOK, Purging, Destroys
  <2> QED BY <1>1, <1>2, <1>3, <1>5, <2>1 DEF Erases, NsTypes
<1>7. PurgeOK(p)'
  BY <1>1, <1>3, <1>4, <1>5, <1>6, ErasesPurge
<1> QED BY <1>3, <1>4, <1>6, <1>7, ErasesKept

LEMMA FirstKeyIs ==
  ASSUME NEW keys, keys # {}
  PROVE  FirstKey(keys) \in keys
<1> DEFINE shards == {key \in keys : key[1] = "directory"}
<1>1. CASE shards = {}
  BY <1>1 DEF FirstKey
<1>2. CASE shards # {}
  BY <1>2 DEF FirstKey
<1> QED BY <1>1, <1>2

LEMMA CleanErases ==
  ASSUME NsInv, NEW p \in Process, Clean(p), NEW i \in TrashId, i = req[p].id
  PROVE  Purging(p) /\ Erases(p, i) /\ PurgeOK(p)'
<1>1. pc[p] = "cleaning" /\ work[p] # {} /\ UNCHANGED <<man, obj, req, plan, mut, pc>>
  BY DEF Clean
<1>2. NsTypes /\ Kept /\ Purging(p) /\ PurgeOK(p)
  BY <1>1 DEF NsInv, Steady, Purging
<1>3. PICK key \in work[p] : key = FirstKey(work[p])
  BY <1>1, FirstKeyIs
<1>4. /\ key \in Keys /\ (key[2] \in Group(i) \/ Gone(key[2])) /\ (man[i].node # None => man[i].cleanup # {})
      /\ \A x \in man[i].cleanup : /\ x \in Dir /\ <<"directory", x>> \notin work[p] => Empty(x)
                                   /\ <<"node", x>> \notin work[p] => x \notin rec
  BY <1>1, <1>2, <1>3 DEF PurgeOK, Destroys
<1>5. IF key[1] = "directory"
        THEN ent' = [ent EXCEPT ![key[2]] = [n \in Name |-> None]] /\ rec' = rec
        ELSE rec' = rec \ {key[2]} /\ ent' = ent
  BY <1>3 DEF Clean
<1>6. work' = [work EXCEPT ![p] = @ \ {key}]
  BY <1>3 DEF Clean
<1>7. /\ DOMAIN work' = Process /\ work'[p] = work[p] \ {key}
      /\ \A q \in Process \ {p} : work'[q] = work[q]
  BY <1>2, <1>6 DEF NsTypes
<1>8. PICK x : x = key[2]
  OBVIOUS
<1>9. man[i].node = None => Group(i) = {}
  BY DEF Group
<1>10. CASE key[1] = "directory"
  <2>1. key = <<"directory", x>> /\ x \in Dir
    BY <1>4, <1>8, <1>10 DEF Keys
  <2>2. /\ ent' \in Entries /\ ent'[x] = [n \in Name |-> None] /\ rec' = rec
        /\ \A c \in Dir \ {x} : ent'[c] = ent[c]
    BY <1>2, <1>5, <1>8, <1>10, <2>1 DEF NsTypes, Entries
  <2>3. \A c \in Dir, n \in Name : ent'[c][n] # ent[c][n] => ent'[c][n] = None /\ c \in Group(i) /\ man[i].cleanup # {}
    <3> SUFFICES ASSUME NEW n \in Name, ent'[x][n] # ent[x][n]
                 PROVE  ent'[x][n] = None /\ x \in Group(i) /\ man[i].cleanup # {}
      BY <2>2
    <3>1. ent'[x][n] = None
      BY <2>2
    <3>2. ~Gone(x)
      BY <2>1, <3>1 DEF Gone, Empty
    <3> QED BY <1>4, <1>8, <1>9, <3>1, <3>2
  <2>4. Erases(p, i)
    BY <1>1, <1>7, <2>2, <2>3 DEF Erases
  <2>5. \A y \in man[i].cleanup : /\ y \in Dir /\ <<"directory", y>> \notin work'[p] => Empty(y)'
                                  /\ <<"node", y>> \notin work'[p] => y \notin rec'
    <3> SUFFICES ASSUME NEW y \in man[i].cleanup
                 PROVE  /\ y \in Dir /\ <<"directory", y>> \notin work'[p] => Empty(y)'
                        /\ <<"node", y>> \notin work'[p] => y \notin rec'
      OBVIOUS
    <3>1. <<"node", y>> \in work'[p] <=> <<"node", y>> \in work[p]
      BY <1>7, <2>1
    <3>2. ASSUME y \in Dir, <<"directory", y>> \notin work'[p] PROVE Empty(y)'
      <4>1. CASE y = x
        BY <2>2, <4>1 DEF Empty
      <4>2. CASE y # x
        <5>1. <<"directory", y>> \notin work[p]
          BY <1>7, <2>1, <3>2, <4>2
        <5>2. Empty(y)
          BY <1>4, <3>2, <5>1
        <5> QED BY <2>2, <3>2, <4>2, <5>2 DEF Empty
      <4> QED BY <4>1, <4>2
    <3> QED BY <1>4, <2>2, <3>1, <3>2
  <2>6. PurgeOK(p)'
    BY <1>1, <1>2, <1>7, <2>4, <2>5, ErasesPurge
  <2> QED BY <1>2, <2>4, <2>6
<1>11. CASE key[1] # "directory"
  <2>1. key = <<"node", x>> /\ x \in Node
    BY <1>4, <1>8, <1>11 DEF Keys
  <2>2. ent' = ent /\ rec' = rec \ {x}
    BY <1>5, <1>8, <1>11
  <2>3. Erases(p, i)
    BY <1>1, <1>2, <1>4, <1>7, <1>8, <2>2 DEF Erases, NsTypes
  <2>4. \A y \in man[i].cleanup : /\ y \in Dir /\ <<"directory", y>> \notin work'[p] => Empty(y)'
                                  /\ <<"node", y>> \notin work'[p] => y \notin rec'
    <3> SUFFICES ASSUME NEW y \in man[i].cleanup
                 PROVE  /\ y \in Dir /\ <<"directory", y>> \notin work'[p] => Empty(y)'
                        /\ <<"node", y>> \notin work'[p] => y \notin rec'
      OBVIOUS
    <3>1. <<"directory", y>> \in work'[p] <=> <<"directory", y>> \in work[p]
      BY <1>7, <2>1
    <3>2. <<"node", y>> \notin work'[p] => y = x \/ <<"node", y>> \notin work[p]
      BY <1>7, <2>1
    <3>3. Empty(y) => Empty(y)'
      BY <2>2 DEF Empty
    <3> QED BY <1>4, <2>2, <3>1, <3>2, <3>3
  <2>5. PurgeOK(p)'
    BY <1>1, <1>2, <1>7, <2>3, <2>4, ErasesPurge
  <2> QED BY <1>2, <2>3, <2>5
<1> QED BY <1>10, <1>11

LEMMA CleanKept == ASSUME NsInv, NEW p \in Process, Clean(p) PROVE NsInv'
<1>1. Purging(p)
  BY DEF Clean, Purging
<1>2. PICK i \in TrashId : i = req[p].id
  BY <1>1, PurgeFacts
<1> QED BY <1>1, <1>2, CleanErases, ErasesKept

(* When the manifest goes, nothing is left of its group.                       *)
LEMMA DropLeaves ==
  ASSUME NsInv, NEW p \in Process, NEW i \in TrashId, i = req[p].id, DropManifest(p)
  PROVE  /\ ent' = ent /\ rec' = rec /\ obj' = obj
         /\ man' \in [TrashId -> Manifest] /\ man'[i] = NoManifest
         /\ \A j \in TrashId \ {i} : man'[j] = man[j] /\ Group(j)' = Group(j)
         /\ \A x \in Group(i) : Gone(x)' /\ x \notin rec
         /\ \A x \in Node : (Placed(x)' => Placed(x)) /\ (Gone(x) => Gone(x)')
         /\ \A x : (Unborn(x)' => Unborn(x)) /\ (Standing(x) => Standing(x)')
<1>1. /\ pc[p] = "cleaning" /\ work[p] = {} /\ man' = [man EXCEPT ![i] = NoManifest]
      /\ Ends(p, "done") /\ UNCHANGED <<ent, rec, obj>>
  BY DEF DropManifest
<1>2. /\ NsTypes /\ Kept /\ Purging(p) /\ PurgeOK(p) /\ \A j \in TrashId : GroupPrivate(j)
      /\ None \notin Node
  BY <1>1, GroupsPrivate, NamespaceAssumption DEF NsInv, Kept, Steady, Purging
<1>3. man' \in [TrashId -> Manifest] /\ man'[i] = NoManifest /\ \A j \in TrashId \ {i} : man'[j] = man[j]
  BY <1>1, <1>2, NoManifestParts DEF NsTypes
<1>4. \A x : Unborn(x)' => Unborn(x)
  <2>1. "done" \in Phases \ {"built"}
    BY DEF Phases
  <2>2. \A q \in Process : req'[q] \in {req[q], NoRequest}
    BY <1>1, <1>2, <2>1, EndsFacts
  <2> QED BY <2>2 DEF Unborn, NoRequest
<1>5. \A x \in Node : Placed(x)' => Placed(x)
  <2>1. NoManifest.node = None
    BY NoManifestParts
  <2> QED BY <1>1, <1>2, <1>3, <2>1 DEF Placed
<1>6. \A x \in Node : Gone(x) => Gone(x)'
  BY <1>1, <1>4, <1>5 DEF Gone, Empty
<1>7. ASSUME NEW x \in Group(i) PROVE Gone(x)' /\ x \notin rec
  <2>1. man[i].node # None
    BY <1>7 DEF Group
  <2>2. Group(i) = man[i].cleanup
    BY <1>1, <1>2, <2>1 DEF PurgeOK, Purging, GroupPrivate
  <2>3. \A y \in Group(i) : (y \in Dir => Empty(y)) /\ y \notin rec
    BY <1>1, <1>2, <2>2 DEF PurgeOK
  <2>4. x \in Node /\ x # None /\ x # Root /\ ~Unborn(x)
    BY <1>2, <1>7 DEF GroupPrivate
  <2>5. ASSUME NEW d \in Dir, NEW n \in Name, ent[d][n] = x PROVE FALSE
    <3>1. d \in Group(i)
      BY <1>2, <1>7, <2>5 DEF GroupPrivate
    <3> QED BY <2>3, <2>4, <2>5, <3>1 DEF Empty
  <2>6. ASSUME NEW j \in TrashId, man'[j].node = x PROVE FALSE
    <3>1. j # i
      BY <1>3, <2>4, <2>6, NoManifestParts
    <3> QED BY <1>2, <1>3, <1>7, <2>6, <3>1 DEF GroupPrivate
  <2>7. ~Placed(x)'
    BY <1>1, <2>5, <2>6 DEF Placed
  <2>8. x \in Dir => Empty(x)'
    BY <1>1, <1>7, <2>3 DEF Empty
  <2> QED BY <1>4, <1>7, <2>3, <2>4, <2>7, <2>8 DEF Gone
<1>8. \A j \in TrashId \ {i} : Group(j)' = Group(j)
  BY <1>1, <1>3 DEF Group
<1>9. ASSUME NEW x, Standing(x) PROVE Standing(x)'
  <2>1. Group(i)' = {}
    BY <1>3, NoManifestParts DEF Group
  <2>2. ASSUME NEW j \in TrashId, man[j].node = x PROVE man'[j].node = x
    <3>1. x # None
      BY <1>2, <1>9 DEF Standing, Node
    <3>2. x \in Group(j)
      BY <1>2, <2>2, <3>1 DEF GroupPrivate
    <3> QED BY <1>9, <3>2 DEF Standing
  <2>3. Placed(x) => Placed(x)'
    BY <1>1, <2>2 DEF Placed
  <2> QED BY <1>8, <1>9, <2>1, <2>3 DEF Standing
<1> QED BY <1>1, <1>3, <1>4, <1>5, <1>6, <1>7, <1>8, <1>9

LEMMA DropKept == ASSUME NsInv, NEW p \in Process, DropManifest(p) PROVE NsInv'
<1>1. pc[p] = "cleaning" /\ Ends(p, "done") /\ Unleased(plan[p].res, p)
  BY DEF DropManifest
<1>2. NsTypes /\ Kept /\ Purging(p) /\ PurgeOK(p) /\ \A j \in TrashId : GroupPrivate(j)
  BY <1>1, GroupsPrivate DEF NsInv, Kept, Steady, Purging
<1>3. PICK i \in TrashId : i = req[p].id
  BY <1>2, PurgeFacts
<1>4. /\ ent' = ent /\ rec' = rec /\ obj' = obj
      /\ man' \in [TrashId -> Manifest] /\ man'[i] = NoManifest
      /\ \A j \in TrashId \ {i} : man'[j] = man[j] /\ Group(j)' = Group(j)
      /\ \A x \in Group(i) : Gone(x)' /\ x \notin rec
      /\ \A x \in Node : (Placed(x)' => Placed(x)) /\ (Gone(x) => Gone(x)')
      /\ \A x : (Unborn(x)' => Unborn(x)) /\ (Standing(x) => Standing(x)')
  BY <1>3, DropLeaves
<1>5. /\ pc' \in [Process -> Phases] /\ plan' \in [Process -> AnyPlan] /\ DOMAIN work' = Process
      /\ DOMAIN mut' = Process /\ req' \in [Process -> Requests \cup {NoRequest}]
      /\ \A q \in Process : req'[q] \in Request[q] \cup {NoRequest}
      /\ \A q \in Process : pc'[q] # "built" => mut'[q] = NoMutation
      /\ pc'[p] = "done" /\ req'[p] = NoRequest
      /\ \A q \in Process \ {p} : /\ pc'[q] = pc[q] /\ req'[q] = req[q] /\ plan'[q] = plan[q]
                                  /\ mut'[q] = mut[q] /\ work'[q] = work[q]
  <2>1. "done" \in Phases \ {"built"}
    BY DEF Phases
  <2> QED BY <1>1, <1>2, <2>1, EndsFacts
<1>6. NsTypes'
  BY <1>2, <1>4, <1>5 DEF NsTypes
<1>7. TreeOK'
  <2>1. man'[i].node = None
    BY <1>4, NoManifestParts
  <2> QED BY <1>2, <1>4, <2>1 DEF Kept, TreeOK
<1>8. ASSUME NEW j \in TrashId PROVE GroupOK(j)'
  <2>1. CASE j = i
    BY <1>4, <2>1, NoManifestParts DEF GroupOK
  <2>2. CASE j # i
    <3>1. GroupOK(j) /\ man'[j] = man[j] /\ man'[i].node = None
      BY <1>2, <1>4, <2>2, NoManifestParts DEF Kept
    <3>2. man[j].cleanup \subseteq Node /\ None \notin Node
      BY <1>2, NamespaceAssumption DEF NsTypes, Manifest
    <3> QED BY <1>4, <3>1, <3>2 DEF GroupOK
  <2> QED BY <2>1, <2>2
<1>9. FreshOK'
  <2> SUFFICES ASSUME NEW q \in Process
               PROVE  /\ req'[q].kind = "create" => ~Placed(req[q].node)'
                      /\ req'[q].kind = "trash" => /\ man'[req'[q].id].node = None
                                                   /\ \A o \in Process : Purging(o)' => req'[o].id # req'[q].id
    BY DEF FreshOK
  <2>1. CASE q = p
    BY <1>5, <2>1 DEF NoRequest
  <2>2. CASE q # p
    <3>1. req'[q] = req[q]
      BY <1>5, <2>2
    <3>2. req[q].kind = "create" => ~Placed(req[q].node)'
      <4> SUFFICES ASSUME req[q].kind = "create" PROVE ~Placed(req[q].node)'
        OBVIOUS
      <4>1. \A y : y = req[q].node => ~Placed(y)'
        BY <1>2, <1>4, TypesOf DEF Kept, FreshOK
      <4> QED BY <3>1, <4>1 DEF Placed
    <3>3. req[q].kind = "trash" => man'[req[q].id].node = None
      BY <1>2, <1>4, NoManifestParts, TypesOf DEF Kept, FreshOK
    <3>4. req[q].kind = "trash" => \A o \in Process : Purging(o)' => req'[o].id # req[q].id
      BY <1>2, <1>5 DEF Kept, FreshOK, Purging
    <3> QED BY <3>1, <3>2, <3>3, <3>4
  <2> QED BY <2>1, <2>2
<1>10. StoredOK'
  <2>1. ASSUME NEW x, Doomed(x) PROVE Doomed(x)' \/ Gone(x)'
    <3>1. PICK j \in TrashId : man[j].deleting /\ x \in Group(j)
      BY <2>1 DEF Doomed
    <3>2. CASE j = i
      BY <1>4, <3>1, <3>2
    <3>3. CASE j # i
      BY <1>4, <3>1, <3>3 DEF Doomed
    <3> QED BY <3>2, <3>3
  <2>2. ASSUME NEW f \in File \ obj' PROVE Gone(f)' \/ Doomed(f)'
    BY <1>2, <1>4, <2>1, <2>2 DEF Kept, StoredOK, Node
  <2>3. ASSUME NEW x \in Node \ rec', x = Root \/ Placed(x)' PROVE Doomed(x)'
    <3>1. Doomed(x)
      BY <1>2, <1>4, <2>3 DEF Kept, StoredOK
    <3>2. ~Gone(x)'
      BY <2>3 DEF Gone
    <3> QED BY <2>1, <3>1, <3>2
  <2> QED BY <2>2, <2>3 DEF StoredOK
<1>11. ASSUME NEW q \in Process \ {p} PROVE PlanOK(q)' /\ BuiltOK(q)' /\ PurgeOK(q)'
  <2>1. ASSUME pc[q] = "built" PROVE Untouched(q)
    <3>1. TrashRes(i) \notin plan[q].res
      BY <1>1, <1>2, <1>3, <2>1 DEF Unleased, Held, PurgeOK
    <3> QED BY <1>4, <3>1 DEF Untouched
  <2>2. ASSUME NEW j \in TrashId PROVE GroupStays(j)
    <3>1. CASE j = i
      <4>1. man'[i].node = None /\ man'[i].cleanup = {}
        BY <1>4, NoManifestParts
      <4> QED BY <1>4, <3>1, <4>1 DEF GroupStays, Empty
    <3>2. CASE j # i
      <4>1. man[j].node = None => man[j].cleanup = {} /\ Group(j) = {}
        BY <1>2, NoManifestParts DEF Kept, GroupOK, Group
      <4> QED BY <1>4, <3>2, <4>1 DEF GroupStays, Empty
    <3> QED BY <3>1, <3>2
  <2>3. ent' \in Entries
    BY <1>2, <1>4 DEF NsTypes
  <2> QED BY <1>4, <1>5, <2>1, <2>2, <2>3, OthersKept
<1>12. PlanOK(p)' /\ BuiltOK(p)' /\ PurgeOK(p)'
  BY <1>5 DEF PlanOK, BuiltOK, PurgeOK, Purging
<1>13. LeasesOK'
  BY <1>5, LeasesKept
<1> QED BY <1>6, <1>7, <1>8, <1>9, <1>10, <1>11, <1>12, <1>13 DEF NsInv, Kept, Steady

-----------------------------------------------------------------------------
(* Every step, and what follows.                                               *)

LEMMA PurgeStepKept == ASSUME NsInv, Looks, NEW p \in Process, Purge(p) PROVE NsInv'
<1>1. CASE PlanClaim(p)
  BY <1>1, PlanKept
<1>2. CASE Claim(p)
  BY <1>2, ClaimKept
<1>3. CASE Collect(p)
  BY <1>3, CollectKept
<1>4. CASE Erase(p)
  BY <1>4, EraseKept
<1>5. CASE Review(p)
  BY <1>5, ReviewKept
<1>6. CASE SaveCleanup(p)
  BY <1>6, SaveCleanupKept
<1>7. CASE Clean(p)
  BY <1>7, CleanKept
<1>8. CASE DropManifest(p)
  BY <1>8, DropKept
<1> QED BY <1>1, <1>2, <1>3, <1>4, <1>5, <1>6, <1>7, <1>8 DEF Purge

LEMMA StutterKept == ASSUME NsInv, UNCHANGED vars PROVE NsInv'
<1>1. UNCHANGED <<ent, man, rec, obj, req, plan, mut, work, pc>>
  BY DEF vars
<1>2. NsTypes'
  BY <1>1 DEF NsInv, NsTypes
<1>3. /\ \A x : (Placed(x)' <=> Placed(x)) /\ (Unborn(x)' <=> Unborn(x)) /\ (Empty(x)' <=> Empty(x))
      /\ \A i : Group(i)' = Group(i)
  <2>1. \A x : Placed(x)' <=> Placed(x)
    BY <1>1 DEF Placed
  <2>2. \A x : Unborn(x)' <=> Unborn(x)
    BY <1>1 DEF Unborn
  <2>3. \A x : Empty(x)' <=> Empty(x)
    BY <1>1 DEF Empty
  <2>4. \A i : Group(i)' = Group(i)
    BY <1>1 DEF Group
  <2> QED BY <2>1, <2>2, <2>3, <2>4
<1>4. TreeOK' /\ (\A i \in TrashId : GroupOK(i)')
  BY <1>1, <1>3 DEF NsInv, Kept, TreeOK, GroupOK
<1>5. \A x : (Gone(x)' <=> Gone(x)) /\ (Doomed(x)' <=> Doomed(x)) /\ (Standing(x)' <=> Standing(x))
  BY <1>1, <1>3 DEF Gone, Doomed, Standing
<1>6. FreshOK'
  BY <1>1 DEF NsInv, Kept, FreshOK, Placed, Purging
<1>7. StoredOK'
  BY <1>1, <1>3, <1>5 DEF NsInv, Kept, StoredOK
<1>8. \A p \in Process : PlanOK(p)'
  BY <1>1 DEF NsInv, Steady, PlanOK
<1>9. \A p \in Process : BuiltOK(p)'
  <2> SUFFICES ASSUME NEW p \in Process, pc[p] = "built" PROVE BuiltOK(p)'
    BY <1>1 DEF BuiltOK
  <2>1. BuiltOK(p)
    BY DEF NsInv, Steady
  <2>2. mut'[p] = Published(req'[p], plan'[p], ent')
    BY <1>1, <2>1 DEF BuiltOK
  <2>3. BuiltFits(p)'
    BY <1>1, <1>3, <1>5, <2>1 DEF BuiltOK, BuiltFits
  <2> QED BY <2>2, <2>3 DEF BuiltOK
<1>10. \A p \in Process : PurgeOK(p)'
  <2> SUFFICES ASSUME NEW p \in Process, Purging(p)' PROVE PurgeOK(p)'
    BY DEF PurgeOK, Purging
  <2>1. NsTypes /\ Kept /\ Purging(p) /\ PurgeOK(p)
    BY <1>1 DEF Purging, NsInv, Steady
  <2>2. PICK i \in TrashId : i = req[p].id
    BY <2>1, PurgeFacts
  <2>3. man[i].node = None => man[i].cleanup = {} /\ Group(i) = {}
    BY <2>1, NoManifestParts DEF Kept, GroupOK, Group
  <2>4. GroupStays(i)
    BY <1>1, <1>3, <2>3 DEF GroupStays
  <2> QED BY <1>1, <1>5, <2>1, <2>2, <2>4, PurgeKept
<1>11. LeasesOK'
  BY <1>1 DEF NsInv, Steady, LeasesOK
<1> QED BY <1>2, <1>4, <1>6, <1>7, <1>8, <1>9, <1>10, <1>11 DEF NsInv, Kept, Steady

LEMMA StepKept == ASSUME NsInv, Looks, [Next]_vars PROVE NsInv'
<1>1. CASE UNCHANGED vars
  BY <1>1, StutterKept
<1>2. CASE Next
  <2>1. PICK p \in Process :
          \/ PlanCreate(p) \/ BuildCreate(p) \/ PlanDelete(p) \/ BuildDelete(p)
          \/ PlanMove(p) \/ BuildMove(p) \/ PlanTrash(p) \/ BuildTrash(p)
          \/ PlanRestore(p) \/ BuildRestore(p)
          \/ Commit(p) \/ Abandon(p) \/ Purge(p)
    BY <1>2 DEF Next
  <2>2. CASE PlanCreate(p) \/ PlanDelete(p) \/ PlanMove(p) \/ PlanTrash(p) \/ PlanRestore(p)
    BY <2>2, PlanKept
  <2>3. CASE BuildCreate(p) \/ BuildDelete(p) \/ BuildMove(p) \/ BuildTrash(p) \/ BuildRestore(p)
    BY <2>3, BuildKept
  <2>4. CASE Commit(p)
    BY <2>4, CommitKept
  <2>5. CASE Abandon(p)
    BY <2>5, AbandonKept
  <2>6. CASE Purge(p)
    BY <2>6, PurgeStepKept
  <2> QED BY <2>1, <2>2, <2>3, <2>4, <2>5, <2>6
<1> QED BY <1>1, <1>2

(* Planning, building and giving up change nothing that is stored, and only    *)
(* the cleaning of a permanent deletion rewrites directories.                  *)
LEMMA QuietSteps ==
  ASSUME NEW p \in Process
  PROVE  /\ PlanCreate(p) \/ BuildCreate(p) \/ PlanDelete(p) \/ BuildDelete(p) => UNCHANGED <<ent, man>>
         /\ PlanMove(p) \/ BuildMove(p) \/ PlanTrash(p) \/ BuildTrash(p) => UNCHANGED <<ent, man>>
         /\ PlanRestore(p) \/ BuildRestore(p) \/ Abandon(p) => UNCHANGED <<ent, man>>
         /\ PlanClaim(p) \/ Collect(p) \/ Erase(p) \/ Review(p) => UNCHANGED <<ent, man>>
         /\ Claim(p) \/ SaveCleanup(p) \/ DropManifest(p) => UNCHANGED ent
         /\ Clean(p) => UNCHANGED man
<1>1. PlanCreate(p) \/ BuildCreate(p) \/ PlanDelete(p) \/ BuildDelete(p) => UNCHANGED <<ent, man>>
  BY DEF PlanCreate, BuildCreate, PlanDelete, BuildDelete, Planned, Built, stored
<1>2. PlanMove(p) \/ BuildMove(p) \/ PlanTrash(p) \/ BuildTrash(p) => UNCHANGED <<ent, man>>
  BY DEF PlanMove, BuildMove, PlanTrash, BuildTrash, Planned, Built, stored
<1>3. PlanRestore(p) \/ BuildRestore(p) \/ Abandon(p) => UNCHANGED <<ent, man>>
  BY DEF PlanRestore, BuildRestore, Abandon, Planned, Built, stored
<1>4. PlanClaim(p) \/ Collect(p) \/ Erase(p) \/ Review(p) => UNCHANGED <<ent, man>>
  BY DEF PlanClaim, Planned, Collect, Erase, Review, stored
<1>5. Claim(p) \/ SaveCleanup(p) \/ DropManifest(p) => UNCHANGED ent
  BY DEF Claim, SaveCleanup, DropManifest
<1>6. Clean(p) => UNCHANGED man
  BY DEF Clean
<1> QED BY <1>1, <1>2, <1>3, <1>4, <1>5, <1>6

-----------------------------------------------------------------------------
(* What the leases alone give, however requests meet: nobody is about to put   *)
(* something over anything.                                                    *)

Writes(v, d, n) == <<d, ShardOf[n]>> \in DOMAIN v.shards
Written(v, d, n) == v.shards[<<d, ShardOf[n]>>][n]
Remembers(m) == m.node # None => m.path \in Path

(* What is about to be published is leased, and leaves each entry or ends it.  *)
Fit(v, res) ==
  /\ \A d \in Dir, n \in Name :
       Writes(v, d, n) => /\ ShardRes(d, n) \in res
                          /\ Written(v, d, n) \in Node \cup {None}
                          /\ ent[d][n] # None => Written(v, d, n) \in {None, ent[d][n]}
  /\ v.add \subseteq Node
  /\ DOMAIN v.mans \subseteq TrashId
  /\ \A i \in DOMAIN v.mans : v.mans[i] \in Manifest /\ Remembers(v.mans[i])
FitOK(p) == pc[p] = "built" => Fit(mut[p], plan[p].res)
Deletes(p) == pc[p] \in {"claimed", "erasing", "listed", "cleaning"} => req[p].kind = "purge"

LeasedInv ==
  /\ NsTypes /\ PathsOK /\ LeasesOK
  /\ \A p \in Process : PlanOK(p) /\ FitOK(p) /\ Deletes(p) /\ Remembers(plan[p].man)

LEMMA EditedFits ==
  ASSUME ent \in Entries, NEW v, NEW res, NEW c \in Dir, NEW m \in Name, NEW w \in Node \cup {None},
         v.shards = Edited1(ent, c, m, w), ShardRes(c, m) \in res,
         ent[c][m] # None => w = None,
         NEW d \in Dir, NEW n \in Name, Writes(v, d, n)
  PROVE  /\ ShardRes(d, n) \in res /\ Written(v, d, n) \in Node \cup {None}
         /\ ent[d][n] # None => Written(v, d, n) \in {None, ent[d][n]}
<1>1. DOMAIN v.shards = {<<c, ShardOf[m]>>}
  BY DEF Edited1, Edited
<1>2. d = c /\ ShardOf[n] = ShardOf[m]
  BY <1>1 DEF Writes
<1>3. PICK f : f = After(ent, v.shards)
  OBVIOUS
<1>4. f[d][n] = Written(v, d, n)
  BY <1>3 DEF After, Writes, Written
<1>5. f[d][n] = IF d = c /\ n = m THEN w ELSE ent[d][n]
  BY <1>3, EditedOne
<1>6. ent[d][n] \in Node \cup {None}
  BY DEF Entries
<1>7. ShardRes(d, n) = ShardRes(c, m)
  BY <1>2 DEF ShardRes
<1> QED BY <1>4, <1>5, <1>6, <1>7

LEMMA MovedFits ==
  ASSUME ent \in Entries, NEW v, NEW res, NEW c \in Dir, NEW m \in Name, NEW b \in Dir, NEW k \in Name,
         NEW w \in Node, v.shards = Edited2(ent, c, m, None, b, k, w),
         ShardRes(c, m) \in res, ShardRes(b, k) \in res, ent[c][m] # None, ent[b][k] = None,
         NEW d \in Dir, NEW n \in Name, Writes(v, d, n)
  PROVE  /\ ShardRes(d, n) \in res /\ Written(v, d, n) \in Node \cup {None}
         /\ ent[d][n] # None => Written(v, d, n) \in {None, ent[d][n]}
<1>1. DOMAIN v.shards = {<<c, ShardOf[m]>>, <<b, ShardOf[k]>>}
  BY DEF Edited2, Edited
<1>2. \/ d = c /\ ShardOf[n] = ShardOf[m]
      \/ d = b /\ ShardOf[n] = ShardOf[k]
  BY <1>1 DEF Writes
<1>3. PICK f : f = After(ent, v.shards)
  OBVIOUS
<1>4. f[d][n] = Written(v, d, n)
  BY <1>3 DEF After, Writes, Written
<1>5. f[d][n] = IF d = c /\ n = m THEN None ELSE IF d = b /\ n = k THEN w ELSE ent[d][n]
  <2>1. ~(c = b /\ m = k)
    OBVIOUS
  <2> QED BY <1>3, <2>1, EditedTwo
<1>6. ent[d][n] \in Node \cup {None}
  BY DEF Entries
<1>7. ShardRes(d, n) \in {ShardRes(c, m), ShardRes(b, k)}
  BY <1>2 DEF ShardRes
<1> QED BY <1>4, <1>5, <1>6, <1>7

(* What Build has looked at, under the leases, before it publishes.            *)
LEMMA BuildPublishes ==
  ASSUME NEW p \in Process,
         BuildCreate(p) \/ BuildDelete(p) \/ BuildMove(p) \/ BuildTrash(p) \/ BuildRestore(p)
  PROVE  LET r == req[p] pl == plan[p] x == ent[pl.par][Base(r.path)] IN
         /\ Leasing(p) /\ Built(p, Published(r, pl, ent))
         /\ r.kind \in {"create", "delete", "move", "trash", "restore"}
         /\ r.kind = "create" => x = None
         /\ r.kind = "move" => x # None /\ ent[pl.tgt][Base(r.to)] = None
         /\ r.kind = "trash" => x # None
         /\ r.kind = "restore" => ent[pl.par][Base(pl.man.path)] = None
<1>1. CASE BuildCreate(p)
  BY <1>1, RewriteIsEdited DEF BuildCreate, Published, Edited1
<1>2. CASE BuildDelete(p)
  BY <1>2, RewriteIsEdited DEF BuildDelete, Published, Edited1
<1>3. CASE BuildMove(p)
  BY <1>3, RewriteIsEdited DEF BuildMove, Published, Edited2
<1>4. CASE BuildTrash(p)
  BY <1>4, RewriteIsEdited DEF BuildTrash, Published, Edited1
<1>5. CASE BuildRestore(p)
  BY <1>5, RewriteIsEdited DEF BuildRestore, Published, Edited1
<1> QED BY <1>1, <1>2, <1>3, <1>4, <1>5

LEMMA BuildFits ==
  ASSUME LeasedInv, NEW p \in Process,
         BuildCreate(p) \/ BuildDelete(p) \/ BuildMove(p) \/ BuildTrash(p) \/ BuildRestore(p)
  PROVE  Fit(Published(req[p], plan[p], ent), plan[p].res)
<1> DEFINE r == req[p] pl == plan[p] x == ent[pl.par][Base(r.path)] v == Published(r, pl, ent)
<1>1. /\ NsTypes /\ PlanFits(r, pl) /\ ent \in Entries /\ Remembers(pl.man)
      /\ r.kind \in {"create", "delete", "move", "trash", "restore"} /\ pl.par \in Dir
      /\ None \notin Node
  BY BuildPublishes, NamespaceAssumption
     DEF LeasedInv, NsTypes, PlanOK, PlanFits, Leasing
<1>2. NoMutation.mans = <<>> /\ NoMutation.add = {} /\ NoMutation.shards = <<>> /\ DOMAIN <<>> = {}
  BY DEF NoMutation
<1>3. CASE r.kind = "create"
  <2>1. /\ v.shards = Edited1(ent, pl.par, Base(r.path), r.node) /\ v.add = {r.node}
        /\ v.mans = <<>>
    BY <1>3 DEF Published, NoMutation
  <2>2. /\ Base(r.path) \in Name /\ r.node \in Node /\ x = None
        /\ ShardRes(pl.par, Base(r.path)) \in pl.res
    BY <1>1, <1>3, TypesOf, BuildPublishes DEF PlanFits
  <2> HIDE DEF v
  <2>3. ASSUME NEW d \in Dir, NEW n \in Name, Writes(v, d, n)
        PROVE  /\ ShardRes(d, n) \in pl.res /\ Written(v, d, n) \in Node \cup {None}
               /\ ent[d][n] # None => Written(v, d, n) \in {None, ent[d][n]}
    BY <1>1, <2>1, <2>2, <2>3, EditedFits
  <2>4. Fit(v, pl.res)
    BY <1>2, <2>1, <2>2, <2>3 DEF Fit
  <2> QED BY <2>4 DEF v
<1>4. CASE r.kind = "delete"
  <2>1. v.shards = Edited1(ent, pl.par, Base(r.path), None) /\ v.add = {} /\ v.mans = <<>>
    BY <1>4 DEF Published, NoMutation
  <2>2. Base(r.path) \in Name /\ ShardRes(pl.par, Base(r.path)) \in pl.res
    BY <1>1, <1>4, TypesOf DEF PlanFits
  <2> HIDE DEF v
  <2>3. ASSUME NEW d \in Dir, NEW n \in Name, Writes(v, d, n)
        PROVE  /\ ShardRes(d, n) \in pl.res /\ Written(v, d, n) \in Node \cup {None}
               /\ ent[d][n] # None => Written(v, d, n) \in {None, ent[d][n]}
    BY <1>1, <2>1, <2>2, <2>3, EditedFits
  <2>4. Fit(v, pl.res)
    BY <1>2, <2>1, <2>2, <2>3 DEF Fit
  <2> QED BY <2>4 DEF v
<1>5. CASE r.kind = "move"
  <2>1. /\ v.shards = Edited2(ent, pl.par, Base(r.path), None, pl.tgt, Base(r.to), x)
        /\ v.add = {} /\ v.mans = <<>>
    BY <1>5 DEF Published, NoMutation
  <2>2. /\ Base(r.path) \in Name /\ Base(r.to) \in Name /\ pl.tgt \in Dir
        /\ ShardRes(pl.par, Base(r.path)) \in pl.res /\ ShardRes(pl.tgt, Base(r.to)) \in pl.res
        /\ x # None /\ ent[pl.tgt][Base(r.to)] = None
    BY <1>1, <1>5, TypesOf, BuildPublishes DEF PlanFits
  <2>5. x \in Node
    BY <1>1, <2>2 DEF Entries
  <2> HIDE DEF v
  <2>3. ASSUME NEW d \in Dir, NEW n \in Name, Writes(v, d, n)
        PROVE  /\ ShardRes(d, n) \in pl.res /\ Written(v, d, n) \in Node \cup {None}
               /\ ent[d][n] # None => Written(v, d, n) \in {None, ent[d][n]}
    BY <1>1, <2>1, <2>2, <2>3, <2>5, MovedFits
  <2>4. Fit(v, pl.res)
    BY <1>2, <2>1, <2>2, <2>3 DEF Fit
  <2> QED BY <2>4 DEF v
<1>6. CASE r.kind = "trash"
  <2>1. /\ v.shards = Edited1(ent, pl.par, Base(r.path), None) /\ v.add = {}
        /\ v.mans = [i \in {r.id} |-> [NoManifest EXCEPT !.node = x, !.path = r.path]]
    BY <1>6 DEF Published, NoMutation
  <2>2. /\ Base(r.path) \in Name /\ r.path \in Path /\ r.id \in TrashId /\ x # None
        /\ ShardRes(pl.par, Base(r.path)) \in pl.res
    BY <1>1, <1>6, TypesOf, BuildPublishes DEF PlanFits
  <2>5. x \in Node
    BY <1>1, <2>2 DEF Entries
  <2> HIDE DEF v, x
  <2>6. /\ [NoManifest EXCEPT !.node = x, !.path = r.path] \in Manifest
        /\ Remembers([NoManifest EXCEPT !.node = x, !.path = r.path])
    BY <2>2, <2>5 DEF Manifest, NoManifest, Remembers, Path
  <2>3. ASSUME NEW d \in Dir, NEW n \in Name, Writes(v, d, n)
        PROVE  /\ ShardRes(d, n) \in pl.res /\ Written(v, d, n) \in Node \cup {None}
               /\ ent[d][n] # None => Written(v, d, n) \in {None, ent[d][n]}
    BY <1>1, <2>1, <2>2, <2>3, EditedFits
  <2>4. Fit(v, pl.res)
    BY <2>1, <2>2, <2>3, <2>6 DEF Fit
  <2> QED BY <2>4 DEF v
<1>7. CASE r.kind = "restore"
  <2> DEFINE m == pl.man
  <2>1. /\ v.shards = Edited1(ent, pl.par, Base(m.path), m.node) /\ v.add = {}
        /\ v.mans = [i \in {r.id} |-> NoManifest]
    BY <1>7 DEF Published, NoMutation
  <2>2. /\ m \in Manifest /\ m.path \in Path /\ r.id \in TrashId /\ m.node # None
        /\ ShardRes(pl.par, Base(m.path)) \in pl.res /\ ent[pl.par][Base(m.path)] = None
    BY <1>1, <1>7, TypesOf, BuildPublishes DEF PlanFits
  <2>5. Base(m.path) \in Name /\ m.node \in Node
    BY <2>2, PathParts DEF Manifest
  <2>6. NoManifest \in Manifest /\ Remembers(NoManifest)
    BY NoManifestParts DEF Remembers
  <2> HIDE DEF v, m
  <2>3. ASSUME NEW d \in Dir, NEW n \in Name, Writes(v, d, n)
        PROVE  /\ ShardRes(d, n) \in pl.res /\ Written(v, d, n) \in Node \cup {None}
               /\ ent[d][n] # None => Written(v, d, n) \in {None, ent[d][n]}
    BY <1>1, <2>1, <2>2, <2>3, <2>5, EditedFits
  <2>4. Fit(v, pl.res)
    BY <2>1, <2>2, <2>3, <2>6 DEF Fit
  <2> QED BY <2>4 DEF v
<1> QED BY <1>1, <1>3, <1>4, <1>5, <1>6, <1>7

(* A step of p that ends entries in shards others have leased, if any.         *)
LEMMA LeasedKept ==
  ASSUME LeasedInv, NEW p \in Process, NsTypes', PathsOK', PlanOK(p)', FitOK(p)', Deletes(p)',
         Remembers(plan'[p].man),
         \A q \in Process \ {p} : /\ pc'[q] = pc[q] /\ req'[q] = req[q] /\ plan'[q] = plan[q]
                                  /\ mut'[q] = mut[q],
         pc'[p] = "built" => plan'[p].res = plan[p].res /\ (pc[p] = "built" \/ Unleased(plan[p].res, p)),
         \A q \in Process \ {p} : pc[q] = "built" =>
           \A d \in Dir, n \in Name : ShardRes(d, n) \in plan[q].res => ent'[d][n] \in {None, ent[d][n]}
  PROVE  LeasedInv'
<1>1. LeasesOK'
  <2> SUFFICES ASSUME NEW a \in Process, NEW b \in Process, a # b, pc'[a] = "built", pc'[b] = "built"
               PROVE  plan'[a].res \cap plan'[b].res = {}
    BY DEF LeasesOK
  <2>0. LeasesOK
    BY DEF LeasedInv
  <2>1. CASE a # p /\ b # p
    BY <2>0, <2>1 DEF LeasesOK
  <2>2. CASE a = p
    BY <2>0, <2>2 DEF LeasesOK, Unleased, Held
  <2>3. CASE b = p
    BY <2>0, <2>3 DEF LeasesOK, Unleased, Held
  <2> QED BY <2>1, <2>2, <2>3
<1>2. ASSUME NEW q \in Process \ {p} PROVE PlanOK(q)' /\ Deletes(q)' /\ Remembers(plan'[q].man)
  BY DEF LeasedInv, PlanOK, Deletes, Remembers
<1>3. ASSUME NEW q \in Process \ {p} PROVE FitOK(q)'
  <2> SUFFICES ASSUME pc[q] = "built" PROVE Fit(mut[q], plan[q].res)'
    BY DEF FitOK
  <2> DEFINE v == mut[q] res == plan[q].res
  <2>1. Fit(v, res) /\ mut'[q] = v /\ plan'[q].res = res
    BY DEF LeasedInv, FitOK
  <2>2. ASSUME NEW d \in Dir, NEW n \in Name, Writes(v, d, n)
        PROVE  /\ ShardRes(d, n) \in res /\ Written(v, d, n) \in Node \cup {None}
               /\ ent'[d][n] # None => Written(v, d, n) \in {None, ent'[d][n]}
    BY <2>1, <2>2 DEF Fit
  <2>3. /\ v.add \subseteq Node /\ DOMAIN v.mans \subseteq TrashId
        /\ \A i \in DOMAIN v.mans : v.mans[i] \in Manifest /\ Remembers(v.mans[i])
    BY <2>1 DEF Fit
  <2> HIDE DEF v, res
  <2> QED BY <2>1, <2>2, <2>3 DEF Fit, Writes, Written
<1> QED BY <1>1, <1>2, <1>3 DEF LeasedInv

LEMMA LeasedPlans ==
  ASSUME LeasedInv, NEW p \in Process,
         PlanCreate(p) \/ PlanDelete(p) \/ PlanMove(p) \/ PlanTrash(p) \/ PlanRestore(p) \/ PlanClaim(p)
  PROVE  LeasedInv'
<1>1. NsTypes /\ PathsOK
  BY DEF LeasedInv
<1>2. PICK value \in AnyPlan : /\ Planned(p, value) /\ PlanFits(req[p], value)
                               /\ value.man = NoManifest \/ \E i \in TrashId : value.man = man[i]
  BY <1>1, PlanValue
<1>3. /\ pc' = [pc EXCEPT ![p] = "planned"] /\ plan' = [plan EXCEPT ![p] = value]
      /\ UNCHANGED <<ent, man, rec, obj, req, mut, work>> /\ pc[p] = "idle"
  BY <1>2 DEF Planned, stored
<1>4. NsTypes' /\ plan'[p] = value /\ pc'[p] = "planned"
  BY <1>1, <1>3 DEF NsTypes, Phases
<1>5. PathsOK' /\ PlanOK(p)' /\ FitOK(p)' /\ Deletes(p)'
  BY <1>1, <1>2, <1>3, <1>4 DEF PathsOK, PlanOK, FitOK, Deletes
<1>6. Remembers(plan'[p].man)
  BY <1>1, <1>2, <1>4, NoManifestParts DEF PathsOK, Remembers
<1>7. \A q \in Process \ {p} : /\ pc'[q] = pc[q] /\ req'[q] = req[q] /\ plan'[q] = plan[q]
                               /\ mut'[q] = mut[q]
  BY <1>1, <1>3 DEF NsTypes
<1> QED BY <1>3, <1>4, <1>5, <1>6, <1>7, LeasedKept

LEMMA LeasedBuilds ==
  ASSUME LeasedInv, NEW p \in Process,
         BuildCreate(p) \/ BuildDelete(p) \/ BuildMove(p) \/ BuildTrash(p) \/ BuildRestore(p)
  PROVE  LeasedInv'
<1> DEFINE v == Published(req[p], plan[p], ent)
<1>1. /\ NsTypes /\ PathsOK /\ PlanOK(p) /\ Remembers(plan[p].man) /\ Fit(v, plan[p].res)
      /\ req[p].kind \in {"create", "delete", "move", "trash", "restore"}
  BY BuildFits, BuildPublishes DEF LeasedInv
<1>2. Leasing(p) /\ Built(p, v)
  BY BuildPublishes
<1> HIDE DEF v
<1>3. /\ pc' = [pc EXCEPT ![p] = "built"] /\ mut' = [mut EXCEPT ![p] = v]
      /\ UNCHANGED <<ent, man, rec, obj, req, plan, work>>
      /\ pc[p] = "planned" /\ Unleased(plan[p].res, p)
  BY <1>2 DEF Leasing, Built, stored
<1>4. NsTypes' /\ mut'[p] = v /\ pc'[p] = "built"
  BY <1>1, <1>3 DEF NsTypes, Phases
<1>5. PathsOK' /\ PlanOK(p)' /\ Deletes(p)'
  BY <1>1, <1>3, <1>4 DEF PathsOK, PlanOK, Deletes
<1>6. FitOK(p)'
  BY <1>1, <1>3, <1>4 DEF FitOK, Fit, Writes, Written
<1>7. \A q \in Process \ {p} : /\ pc'[q] = pc[q] /\ req'[q] = req[q] /\ plan'[q] = plan[q]
                               /\ mut'[q] = mut[q]
  BY <1>1, <1>3 DEF NsTypes
<1> QED BY <1>1, <1>3, <1>4, <1>5, <1>6, <1>7, LeasedKept

LEMMA CommitEntry ==
  ASSUME LeasedInv, NEW p \in Process, Commit(p), NEW d \in Dir, NEW n \in Name
  PROVE  /\ ent'[d][n] = IF Writes(mut[p], d, n) THEN Written(mut[p], d, n) ELSE ent[d][n]
         /\ ent'[d][n] \in Node \cup {None}
         /\ ent[d][n] # None => ent'[d][n] \in {None, ent[d][n]}
         /\ Writes(mut[p], d, n) => ShardRes(d, n) \in plan[p].res
<1>1. Fit(mut[p], plan[p].res) /\ ent \in Entries
  BY DEF LeasedInv, FitOK, Commit, NsTypes
<1>2. ent'[d][n] = IF Writes(mut[p], d, n) THEN Written(mut[p], d, n) ELSE ent[d][n]
  BY DEF Commit, Writes, Written
<1>3. ent[d][n] \in Node \cup {None}
  BY <1>1 DEF Entries
<1> QED BY <1>1, <1>2, <1>3 DEF Fit

LEMMA LeasedCommits ==
  ASSUME LeasedInv, NEW p \in Process, Commit(p)
  PROVE  LeasedInv'
<1> DEFINE new == mut[p]
<1>1. NsTypes /\ PathsOK /\ LeasesOK /\ Fit(new, plan[p].res) /\ pc[p] = "built"
  BY DEF LeasedInv, FitOK, Commit
<1>2. /\ Ends(p, "done") /\ UNCHANGED obj /\ ent' = After(ent, new.shards)
      /\ man' = [i \in TrashId |-> IF i \in DOMAIN new.mans THEN new.mans[i] ELSE man[i]]
      /\ rec' = (rec \cup new.add) \ new.del
  BY DEF Commit, After
<1>3. ent' \in Entries
  BY <1>2, CommitEntry, EntriesAfter
<1>4. man' \in [TrashId -> Manifest] /\ rec' \subseteq Node /\ PathsOK'
  BY <1>1, <1>2 DEF NsTypes, Fit, PathsOK, Remembers
<1>5. /\ pc' \in [Process -> Phases] /\ plan' \in [Process -> AnyPlan] /\ DOMAIN work' = Process
      /\ DOMAIN mut' = Process /\ req' \in [Process -> Requests \cup {NoRequest}]
      /\ \A q \in Process : req'[q] \in Request[q] \cup {NoRequest}
      /\ \A q \in Process : pc'[q] # "built" => mut'[q] = NoMutation
      /\ pc'[p] = "done"
      /\ \A q \in Process \ {p} : /\ pc'[q] = pc[q] /\ req'[q] = req[q] /\ plan'[q] = plan[q]
                                  /\ mut'[q] = mut[q]
  <2>1. "done" \in Phases \ {"built"}
    BY DEF Phases
  <2> QED BY <1>1, <1>2, <2>1, EndsFacts
<1>6. NsTypes'
  BY <1>1, <1>2, <1>3, <1>4, <1>5 DEF NsTypes
<1>7. PlanOK(p)' /\ FitOK(p)' /\ Deletes(p)' /\ Remembers(plan'[p].man)
  <2>1. plan'[p] = NoPlan
    BY <1>1, <1>2 DEF NsTypes, Ends
  <2> QED BY <1>5, <2>1, NoPlanParts, NoManifestParts DEF PlanOK, FitOK, Deletes, Remembers
<1>8. ASSUME NEW q \in Process \ {p}, pc[q] = "built", NEW d \in Dir, NEW n \in Name,
             ShardRes(d, n) \in plan[q].res
      PROVE  ent'[d][n] \in {None, ent[d][n]}
  <2>1. ShardRes(d, n) \notin plan[p].res
    BY <1>1, <1>8 DEF LeasesOK
  <2> QED BY <2>1, CommitEntry
<1> QED BY <1>4, <1>5, <1>6, <1>7, <1>8, LeasedKept

LEMMA LeasedEnds ==
  ASSUME LeasedInv, NEW p \in Process, NEW phase \in {"idle", "done"}, Ends(p, phase),
         ent' = ent, man' \in [TrashId -> Manifest], PathsOK', rec' = rec, obj' = obj
  PROVE  LeasedInv'
<1>1. NsTypes
  BY DEF LeasedInv
<1>2. /\ pc' \in [Process -> Phases] /\ plan' \in [Process -> AnyPlan] /\ DOMAIN work' = Process
      /\ DOMAIN mut' = Process /\ req' \in [Process -> Requests \cup {NoRequest}]
      /\ \A q \in Process : req'[q] \in Request[q] \cup {NoRequest}
      /\ \A q \in Process : pc'[q] # "built" => mut'[q] = NoMutation
      /\ pc'[p] = phase
      /\ \A q \in Process \ {p} : /\ pc'[q] = pc[q] /\ req'[q] = req[q] /\ plan'[q] = plan[q]
                                  /\ mut'[q] = mut[q]
  <2>1. phase \in Phases \ {"built"}
    BY DEF Phases
  <2> QED BY <1>1, <2>1, EndsFacts
<1>3. NsTypes'
  BY <1>1, <1>2 DEF NsTypes
<1>4. PlanOK(p)' /\ FitOK(p)' /\ Deletes(p)' /\ Remembers(plan'[p].man)
  <2>1. plan'[p] = NoPlan
    BY <1>1 DEF NsTypes, Ends
  <2> QED BY <1>2, <2>1, NoPlanParts, NoManifestParts DEF PlanOK, FitOK, Deletes, Remembers
<1> QED BY <1>2, <1>3, <1>4, LeasedKept

(* A step of a permanent deletion, after which its lease is not held.          *)
LEMMA LeasedPurges ==
  ASSUME LeasedInv, NEW p \in Process, NEW phase \in {"claimed", "erasing", "listed", "cleaning"},
         pc[p] \in {"claimed", "erasing", "listed", "cleaning"} \/ req[p].kind = "purge",
         pc' = [pc EXCEPT ![p] = phase], UNCHANGED <<req, mut>>, DOMAIN work' = Process,
         NEW x \in AnyPlan, plan' = [plan EXCEPT ![p] = x], Remembers(x.man),
         ent' \in Entries, \A d \in Dir, n \in Name : ent'[d][n] \in {None, ent[d][n]},
         man' \in [TrashId -> Manifest], PathsOK', rec' \subseteq rec, obj' \subseteq obj
  PROVE  LeasedInv'
<1>1. NsTypes /\ pc[p] # "built"
  BY DEF LeasedInv, PlanOK
<1>2. NsTypes' /\ pc'[p] = phase /\ plan'[p] = x
  <2>1. phase \in Phases
    BY DEF Phases
  <2> QED BY <1>1, <2>1 DEF NsTypes
<1>3. PlanOK(p)' /\ FitOK(p)' /\ Deletes(p)' /\ Remembers(plan'[p].man)
  BY <1>2 DEF LeasedInv, PlanOK, FitOK, Deletes
<1>4. \A q \in Process \ {p} : /\ pc'[q] = pc[q] /\ req'[q] = req[q] /\ plan'[q] = plan[q]
                               /\ mut'[q] = mut[q]
  BY <1>1 DEF NsTypes
<1> QED BY <1>2, <1>3, <1>4, LeasedKept

LEMMA LeasedPurge == ASSUME LeasedInv, NEW p \in Process, Purge(p) PROVE LeasedInv'
<1> DEFINE i == req[p].id m == plan[p].man
<1>1. /\ NsTypes /\ PathsOK /\ Remembers(m) /\ m \in Manifest /\ plan[p] \in AnyPlan
      /\ plan = [plan EXCEPT ![p] = plan[p]] /\ DOMAIN work = Process
      /\ ent \in Entries /\ man \in [TrashId -> Manifest]
  BY TypesOf DEF LeasedInv, NsTypes
<1>2. \A d \in Dir, n \in Name : ent[d][n] \in {None, ent[d][n]}
  OBVIOUS
<1>3. CASE PlanClaim(p)
  BY <1>3, LeasedPlans
<1>4. CASE Claim(p)
  <2>1. /\ req[p].kind = "purge" /\ pc' = [pc EXCEPT ![p] = "claimed"]
        /\ UNCHANGED <<ent, rec, obj, req, plan, mut, work>>
        /\ man' = man \/ man' = [man EXCEPT ![i] = [m EXCEPT !.deleting = TRUE]]
    BY <1>4 DEF Claim
  <2> HIDE DEF i, m
  <2>2. [m EXCEPT !.deleting = TRUE] \in Manifest /\ Remembers([m EXCEPT !.deleting = TRUE])
    BY <1>1 DEF Manifest, Remembers
  <2>3. man' \in [TrashId -> Manifest] /\ PathsOK'
    BY <1>1, <2>1, <2>2 DEF PathsOK, Remembers
  <2> QED BY <1>1, <1>2, <2>1, <2>3, LeasedPurges DEF m
<1>5. CASE Collect(p)
  BY <1>1, <1>2, <1>5, LeasedPurges DEF Collect, stored, PathsOK
<1>6. CASE Erase(p)
  <2>1. pc[p] = "erasing" /\ UNCHANGED <<ent, man, rec, req, plan, mut, pc>>
    BY <1>6 DEF Erase
  <2>2. obj' \subseteq obj /\ DOMAIN work' = Process
    BY <1>1, <1>6 DEF Erase
  <2>3. pc' = [pc EXCEPT ![p] = "erasing"] /\ PathsOK'
    BY <1>1, <2>1 DEF NsTypes, PathsOK
  <2> QED BY <1>1, <1>2, <2>1, <2>2, <2>3, LeasedPurges
<1>7. CASE Review(p)
  <2>1. CASE man[i].node = None \/ ~man[i].deleting
    <3>1. Ends(p, "done") /\ UNCHANGED <<ent, man, rec, obj>>
      BY <1>7, <2>1 DEF Review, stored
    <3> QED BY <1>1, <3>1, LeasedEnds DEF PathsOK
  <2>2. CASE ~(man[i].node = None \/ ~man[i].deleting) /\ man[i].cleanup = {}
    <3> DEFINE S == Subtree(man[i].node) x == [plan[p] EXCEPT !.man.cleanup = S]
    <3>1. /\ pc[p] = "erasing" /\ pc' = [pc EXCEPT ![p] = "listed"]
          /\ UNCHANGED <<ent, man, rec, obj, req, mut, work>>
      BY <1>7, <2>2 DEF Review, stored
    <3>2. plan' = [plan EXCEPT ![p].man.cleanup = S]
      BY <1>7, <2>2 DEF Review
    <3>3. i \in TrashId
      BY <1>1, <1>7, TypesOf DEF Review, LeasedInv, Deletes
    <3>4. S \subseteq Node
      BY <1>1, <2>2, <3>3, SubtreeIsBelow, BelowNodes, NamespaceAssumption DEF Manifest
    <3> HIDE DEF S
    <3>5. x \in AnyPlan /\ Remembers(x.man) /\ plan' = [plan EXCEPT ![p] = x]
      BY <1>1, <3>2, <3>4 DEF AnyPlan, Manifest, Remembers
    <3> HIDE DEF x
    <3> QED BY <1>1, <1>2, <3>1, <3>5, LeasedPurges DEF PathsOK
  <2>3. CASE ~(man[i].node = None \/ ~man[i].deleting) /\ man[i].cleanup # {}
    <3>1. /\ pc[p] = "erasing" /\ pc' = [pc EXCEPT ![p] = "cleaning"]
          /\ UNCHANGED <<ent, man, rec, obj, req, mut, plan>> /\ DOMAIN work' = Process
      BY <1>1, <1>7, <2>3 DEF Review, stored
    <3> QED BY <1>1, <1>2, <3>1, LeasedPurges DEF PathsOK
  <2> QED BY <2>1, <2>2, <2>3
<1>8. CASE SaveCleanup(p)
  <2> DEFINE live == man[i]
             saved == IF live.cleanup = {} THEN [live EXCEPT !.cleanup = m.cleanup] ELSE live
  <2>1. /\ pc[p] = "listed" /\ pc' = [pc EXCEPT ![p] = "cleaning"] /\ live.node # None
        /\ man' = [man EXCEPT ![i] = saved] /\ UNCHANGED <<ent, rec, obj, req, plan, mut>>
    BY <1>8 DEF SaveCleanup
  <2>2. DOMAIN work' = Process
    BY <1>1, <1>8 DEF SaveCleanup
  <2>3. man' \in [TrashId -> Manifest] /\ PathsOK'
    <3>1. CASE i \in TrashId
      <4>1. saved \in Manifest /\ Remembers(saved)
        BY <1>1, <3>1 DEF Manifest, Remembers, PathsOK
      <4> HIDE DEF saved, m
      <4> QED BY <1>1, <2>1, <4>1, <3>1 DEF PathsOK, Remembers
    <3>2. CASE i \notin TrashId
      BY <1>1, <2>1, <3>2 DEF PathsOK
    <3> QED BY <3>1, <3>2
  <2> QED BY <1>1, <1>2, <2>1, <2>2, <2>3, LeasedPurges
<1>9. CASE Clean(p)
  <2> DEFINE key == FirstKey(work[p])
  <2>1. /\ pc[p] = "cleaning" /\ UNCHANGED <<man, obj, req, plan, mut, pc>>
        /\ \/ ent' = [ent EXCEPT ![key[2]] = [n \in Name |-> None]] /\ rec' = rec
           \/ ent' = ent /\ rec' \subseteq rec
    BY <1>9 DEF Clean
  <2>2. DOMAIN work' = Process
    BY <1>1, <1>9 DEF Clean
  <2> HIDE DEF key
  <2>3. /\ ent' \in Entries /\ \A d \in Dir, n \in Name : ent'[d][n] \in {None, ent[d][n]}
        /\ rec' \subseteq rec
    BY <1>1, <2>1 DEF Entries
  <2>4. pc' = [pc EXCEPT ![p] = "cleaning"] /\ PathsOK'
    BY <1>1, <2>1 DEF NsTypes, PathsOK
  <2> QED BY <1>1, <2>1, <2>2, <2>3, <2>4, LeasedPurges
<1>10. CASE DropManifest(p)
  <2>1. Ends(p, "done") /\ UNCHANGED <<ent, rec, obj>> /\ man' = [man EXCEPT ![i] = NoManifest]
    BY <1>10 DEF DropManifest
  <2>2. man' \in [TrashId -> Manifest] /\ PathsOK'
    BY <1>1, <2>1, NoManifestParts DEF PathsOK
  <2> QED BY <2>1, <2>2, LeasedEnds
<1> QED BY <1>3, <1>4, <1>5, <1>6, <1>7, <1>8, <1>9, <1>10 DEF Purge

LEMMA LeasedStep == ASSUME LeasedInv, [Next]_vars PROVE LeasedInv'
<1>1. CASE UNCHANGED vars
  BY <1>1 DEF LeasedInv, NsTypes, PathsOK, LeasesOK, PlanOK, FitOK, Fit, Writes, Written, Deletes, vars
<1>2. CASE Next
  <2>1. PICK p \in Process :
          \/ PlanCreate(p) \/ BuildCreate(p) \/ PlanDelete(p) \/ BuildDelete(p)
          \/ PlanMove(p) \/ BuildMove(p) \/ PlanTrash(p) \/ BuildTrash(p)
          \/ PlanRestore(p) \/ BuildRestore(p)
          \/ Commit(p) \/ Abandon(p) \/ Purge(p)
    BY <1>2 DEF Next
  <2>2. CASE Abandon(p)
    <3>1. PICK phase \in {"idle", "done"} : Ends(p, phase)
      BY <2>2 DEF Abandon
    <3>2. UNCHANGED <<ent, man, rec, obj>>
      BY <2>2 DEF Abandon, stored
    <3>3. man' \in [TrashId -> Manifest] /\ PathsOK'
      BY <3>2 DEF LeasedInv, NsTypes, PathsOK
    <3> QED BY <3>1, <3>2, <3>3, LeasedEnds
  <2> QED BY <2>1, <2>2, LeasedPlans, LeasedBuilds, LeasedCommits, LeasedPurge
<1> QED BY <1>1, <1>2

LEMMA InitLeased == Init => LeasedInv
<1> SUFFICES ASSUME Init PROVE LeasedInv
  OBVIOUS
<1>1. NsInv /\ \A p \in Process : pc[p] = "idle" /\ plan[p] = NoPlan
  BY InitInv DEF Init
<1> QED BY <1>1, NoPlanParts, NoManifestParts
        DEF NsInv, Kept, GroupOK, PathsOK, Steady, LeasedInv, FitOK, Deletes, Remembers

LEMMA LeasedTypes == LeasedInv => TypeOK
<1> SUFFICES ASSUME LeasedInv PROVE TypeOK
  OBVIOUS
<1>1. NsTypes
  BY DEF LeasedInv
<1>2. \A i \in TrashId : /\ man[i].node \in Node \cup {None} /\ man[i].deleting \in BOOLEAN
                         /\ man[i].cleanup \subseteq Node
  BY <1>1 DEF NsTypes, Manifest
<1>3. ASSUME NEW p \in Process
      PROVE  plan[p].par \in Node \cup {None} /\ DOMAIN mut[p].mans \subseteq TrashId
  <2>1. plan[p].par \in Node \cup {None}
    BY <1>1, TypesOf
  <2>2. CASE pc[p] = "built"
    BY <2>1, <2>2 DEF LeasedInv, FitOK, Fit
  <2>3. CASE pc[p] # "built"
    <3>1. mut[p].mans = <<>>
      BY <1>1, <2>3 DEF NsTypes, NoMutation
    <3> QED BY <2>1, <3>1
  <2> QED BY <2>2, <2>3
<1> QED BY <1>1, <1>2, <1>3 DEF TypeOK, NsTypes, Entries

THEOREM NamespaceLeased == Spec => []LeasedInv
BY InitLeased, LeasedStep, PTL DEF Spec

(* The stored tree, the trash and every process keep their shape, however      *)
(* requests meet.                                                              *)
THEOREM NamespaceTypes == Spec => []TypeOK
BY NamespaceLeased, LeasedTypes, PTL

LEMMA StepOverwritesNothing ==
  ASSUME LeasedInv, [Next]_vars, NEW d \in Dir, NEW n \in Name, ent[d][n] # None
  PROVE  ent'[d][n] \in {None, ent[d][n]}
<1>1. CASE UNCHANGED ent
  BY <1>1
<1>2. CASE ~UNCHANGED ent
  <2>1. PICK p \in Process : Commit(p) \/ Clean(p)
    <3>1. Next
      BY <1>2 DEF vars
    <3> QED BY <1>2, <3>1, QuietSteps DEF Next, Purge
  <2>2. CASE Commit(p)
    BY <2>2, CommitEntry
  <2>3. CASE Clean(p)
    <3>1. ent' = [ent EXCEPT ![FirstKey(work[p])[2]] = [m \in Name |-> None]] \/ ent' = ent
      BY <2>3 DEF Clean
    <3> QED BY <3>1 DEF LeasedInv, NsTypes, Entries
  <2> QED BY <2>1, <2>2, <2>3
<1> QED BY <1>1, <1>2

(* Whatever meets whatever, no operation puts anything over something else: a  *)
(* commit writes the shards its leases cover, and where there is an entry in   *)
(* them it writes that entry or none.                                          *)
THEOREM NothingIsOverwritten == Spec => NothingOverwritten
<1> DEFINE Spares == \A d \in Dir, n \in Name : ent[d][n] # None => ent'[d][n] \in {None, ent[d][n]}
<1>1. LeasedInv /\ [Next]_vars => [Spares]_vars
  BY StepOverwritesNothing
<1> QED BY <1>1, NamespaceLeased, PTL DEF Spec, NothingOverwritten

-----------------------------------------------------------------------------
(* What is not looked at again.                                                *)

LEMMA InitLooks == Init => Looks
BY DEF Init, Looks, LookOK

LEMMA OthersLook ==
  ASSUME NEW q \in Process, LookOK(q), pc'[q] = pc[q], req'[q] = req[q], plan'[q] = plan[q],
         pc[q] = "planned" /\ req[q].kind \in {"trash", "restore"} /\ Standing(plan[q].par)
           => Standing(plan[q].par)',
         pc[q] = "planned" /\ Looking(q) => man'[req[q].id] = man[req[q].id]
  PROVE  LookOK(q)'
<1> SUFFICES ASSUME pc[q] = "planned" PROVE LookOK(q)'
  BY DEF LookOK
<1>1. Looking(q)' => Looking(q)
  BY DEF Looking
<1>2. PICK d : d = plan[q].par
  OBVIOUS
<1>3. req[q].kind \in {"trash", "restore"} => Standing(d)'
  BY <1>2 DEF LookOK, Standing, Placed, Group
<1> QED BY <1>1, <1>2, <1>3 DEF LookOK

(* A process that has looked at an unclaimed group is alone with it.           *)
LEMMA LookingAlone ==
  ASSUME GroupsApart, NEW p \in Process, NEW q \in Process, p # q, Looking(q),
         req[p].kind \in {"restore", "purge"}, pc[p] \notin {"idle", "done"}
  PROVE  req[p].id # req[q].id
BY DEF GroupsApart

(* A commit leaves what it does not remove standing.                           *)
LEMMA CommitLeavesStanding ==
  ASSUME NsInv, NEW p \in Process, Commit(p), NEW d, Standing(d), d \notin Removed(p)
  PROVE  Standing(d)'
<1> DEFINE r == req[p] pl == plan[p] c == pl.par x == ent[pl.par][Base(r.path)]
<1>1. /\ Effect(p) /\ BuiltFits(p) /\ PlanFits(r, pl) /\ Orderly(p) /\ pc[p] = "built"
      /\ r.kind \in {"create", "delete", "move", "trash", "restore"}
  BY CommitEffect, CommitOrderly
<1>2. NsTypes /\ Kept /\ d \in Dir /\ d # None /\ d \in Node /\ c \in Dir
  BY <1>1, NamespaceAssumption DEF NsInv, Standing, BuiltFits, Node
<1>3. \A i \in TrashId : man[i].node # d
  <2> SUFFICES ASSUME NEW i \in TrashId, man[i].node = d PROVE FALSE
    OBVIOUS
  <2>1. GroupPrivate(i)
    BY <1>2, GroupsPrivate DEF Kept
  <2> QED BY <1>2, <2>1 DEF GroupPrivate, Standing
<1>4. ASSUME r.kind = "trash"
      PROVE  /\ Removed(p) = Below(ent, x) /\ x # None /\ r.id \in TrashId
             /\ man'[r.id].node = x /\ \A i \in TrashId \ {r.id} : man'[i] = man[i]
  <2>1. mut[p] = Published(r, pl, ent)
    BY <1>1 DEF NsInv, Steady, BuiltOK
  <2>2. r.id \in TrashId
    BY <1>2, <1>4, TypesOf
  <2>3. mut[p].mans = [i \in {r.id} |-> [NoManifest EXCEPT !.node = x, !.path = r.path]]
    BY <1>4, <2>1 DEF Published, NoMutation
  <2> HIDE DEF x
  <2>4. mut[p].mans[r.id].node = x
    <3>1. mut[p].mans[r.id] = [NoManifest EXCEPT !.node = x, !.path = r.path]
      BY <2>3
    <3> QED BY <3>1 DEF NoManifest
  <2> USE DEF x
  <2>5. Removed(p) = Subtree(x)
    BY <1>4, <2>4 DEF Removed
  <2>6. man'[r.id] = [NoManifest EXCEPT !.node = x, !.path = r.path]
    BY <1>1, <1>2, <1>4, <2>2 DEF Effect, NsTypes
  <2>7. \A i \in TrashId \ {r.id} : man'[i] = man[i]
    BY <1>1, <1>2, <1>4, <2>2 DEF Effect, NsTypes
  <2> QED BY <1>1, <1>4, <2>2, <2>5, <2>6, <2>7, SubtreeIsBelow DEF BuiltFits, NoManifest
<1>5. d = Root \/ Placed(d)'
  <2> SUFFICES ASSUME NEW e \in Dir, NEW n \in Name, ent[e][n] = d PROVE Placed(d)'
    BY <1>3 DEF Standing, Placed
  <2>1. CASE r.kind \in {"create", "restore"}
    BY <1>1, <1>2, <2>1 DEF Effect, Sets, BuiltFits, Placed
  <2>2. CASE r.kind = "delete"
    <3>1. d # pl.node
      BY <2>2 DEF Removed
    <3> QED BY <1>1, <1>2, <2>2, <3>1 DEF Effect, Sets, BuiltFits, Placed
  <2>3. CASE r.kind = "move"
    <3>1. pl.tgt \in Dir /\ Base(r.to) \in Name
      BY <1>1, <1>2, <2>3, TypesOf DEF PlanFits
    <3> QED BY <1>1, <1>2, <2>3, <3>1 DEF Effect, BuiltFits, Placed
  <2>4. CASE r.kind = "trash"
    <3>1. d # x
      BY <1>4, <2>4, BelowHas, NamespaceAssumption
    <3> QED BY <1>1, <1>2, <2>4, <3>1 DEF Effect, Sets, Placed
  <2> QED BY <1>1, <2>1, <2>2, <2>3, <2>4
<1>6. ASSUME NEW i \in TrashId PROVE d \notin Group(i)'
  <2>1. CASE man'[i] = man[i]
    BY <1>1, <2>1, CommitGroups DEF Standing
  <2>2. CASE man'[i] # man[i] /\ man'[i].node = None
    BY <1>1, <2>2, CommitGroups
  <2>3. CASE man'[i] # man[i] /\ man'[i].node # None
    <3>1. r.kind = "trash" /\ i = r.id
      BY <1>1, <2>3 DEF Orderly
    <3>2. Group(i)' = Below(ent', x)
      BY <1>1, <1>4, <2>3, <3>1, CommitGroups
    <3>3. \A e \in Dir, n \in Name : ent'[e][n] \in {ent[e][n], None}
      BY <1>1, <3>1 DEF Effect, Sets
    <3>4. Below(ent', x) \subseteq Below(ent, x)
      BY <3>3, BelowShrinks, NamespaceAssumption
    <3> QED BY <1>4, <3>1, <3>2, <3>4
  <2> QED BY <2>1, <2>2, <2>3
<1> QED BY <1>2, <1>5, <1>6 DEF Standing

LEMMA CommitLooks ==
  ASSUME NsInv, Looks, LooksApart, NEW p \in Process, Commit(p)
  PROVE  Looks'
<1> DEFINE r == req[p] pl == plan[p]
<1>1. /\ NsTypes /\ Kept /\ Effect(p) /\ pc[p] = "built"
      /\ r.kind \in {"create", "delete", "move", "trash", "restore"}
  BY CommitEffect DEF NsInv
<1>2. pc'[p] = "done" /\ \A q \in Process \ {p} : pc'[q] = pc[q] /\ req'[q] = req[q] /\ plan'[q] = plan[q]
  <2>1. Ends(p, "done") /\ "done" \in Phases \ {"built"}
    BY DEF Commit, Phases
  <2> QED BY <1>1, <2>1, EndsFacts
<1> SUFFICES ASSUME NEW q \in Process \ {p}, pc[q] = "planned" PROVE LookOK(q)'
  BY <1>2 DEF Looks, LookOK
<1>3. ASSUME req[q].kind \in {"trash", "restore"}, Standing(plan[q].par) PROVE Standing(plan[q].par)'
  <2>1. PICK d : d = plan[q].par
    OBVIOUS
  <2>2. d \notin Removed(p)
    BY <1>1, <1>3, <2>1 DEF LooksApart, ParentsApart
  <2>3. Standing(d)'
    BY <1>3, <2>1, <2>2, CommitLeavesStanding
  <2>4. plan'[q] = plan[q]
    BY <1>2
  <2> QED BY <2>1, <2>3, <2>4 DEF Standing, Placed, Group
<1>4. ASSUME Looking(q) PROVE man'[req[q].id] = man[req[q].id]
  <2>1. req[q].id \in TrashId
    BY <1>1, <1>4, TypesOf DEF Looking
  <2>2. CASE r.kind \in {"create", "delete", "move"}
    BY <1>1, <2>2 DEF Effect
  <2>3. CASE r.kind = "restore"
    <3>1. r.id # req[q].id
      BY <1>1, <1>4, <2>3, LookingAlone DEF LooksApart
    <3> QED BY <1>1, <2>1, <2>3, <3>1 DEF Effect, NsTypes
  <2>4. CASE r.kind = "trash"
    <3>1. man[r.id].node = None
      BY <1>1, <2>4 DEF Kept, FreshOK
    <3>2. man[req[q].id].node # None
      <4>1. LookOK(q) /\ PlanOK(q)
        BY DEF Looks, NsInv, Steady
      <4> QED BY <1>4, <4>1 DEF LookOK, PlanOK, PlanFits, Looking
    <3> QED BY <1>1, <2>1, <2>4, <3>1, <3>2 DEF Effect, NsTypes
  <2> QED BY <1>1, <2>2, <2>3, <2>4
<1> QED BY <1>2, <1>3, <1>4, OthersLook DEF Looks

(* A step of a permanent deletion that changes nothing but its own group.      *)
LEMMA GroupStepLooks ==
  ASSUME NsInv, Looks, LooksApart, NEW p \in Process, req[p].kind = "purge",
         pc[p] \notin {"idle", "done"}, pc'[p] # "planned",
         \A q \in Process \ {p} : pc'[q] = pc[q] /\ req'[q] = req[q] /\ plan'[q] = plan[q],
         \A d : Standing(d) => Standing(d)',
         \A j \in TrashId \ {req[p].id} : man'[j] = man[j]
  PROVE  Looks'
<1> SUFFICES ASSUME NEW q \in Process \ {p}, pc[q] = "planned" PROVE LookOK(q)'
  BY DEF Looks, LookOK
<1>1. Looking(q) => req[q].id # req[p].id /\ req[q].id \in TrashId
  BY LookingAlone, TypesOf DEF LooksApart, NsInv, Looking
<1>2. Standing(plan[q].par) => Standing(plan[q].par)'
  <2>1. PICK d : d = plan[q].par
    OBVIOUS
  <2>2. Standing(d) => Standing(d)'
    OBVIOUS
  <2>3. d = plan'[q].par
    BY <2>1
  <2>4. Standing(d)' => Standing(plan[q].par)'
    BY <2>3 DEF Standing, Placed, Group
  <2>5. Standing(plan[q].par) => Standing(d)
    BY <2>1
  <2> QED BY <2>2, <2>4, <2>5
<1> QED BY <1>1, <1>2, OthersLook DEF Looks

(* A step that changes neither the tree nor the trash.                         *)
LEMMA StillLooks ==
  ASSUME Looks, NEW p \in Process, ent' = ent, man' = man, LookOK(p)',
         \A q \in Process \ {p} : pc'[q] = pc[q] /\ req'[q] = req[q] /\ plan'[q] = plan[q]
  PROVE  Looks'
<1> SUFFICES ASSUME NEW q \in Process \ {p} PROVE LookOK(q)'
  BY DEF Looks
<1>1. Standing(plan[q].par) => Standing(plan[q].par)'
  BY DEF Standing, Placed, Group
<1> QED BY <1>1, OthersLook DEF Looks

LEMMA PlanLooks ==
  ASSUME NsInv, Looks, NEW p \in Process,
         PlanCreate(p) \/ PlanDelete(p) \/ PlanMove(p) \/ PlanTrash(p) \/ PlanRestore(p) \/ PlanClaim(p)
  PROVE  Looks'
<1> DEFINE r == req[p]
<1>1. NsTypes /\ Kept
  BY DEF NsInv
<1>2. PICK value : Planned(p, value)
  BY DEF PlanCreate, PlanDelete, PlanMove, PlanTrash, PlanRestore, PlanClaim
<1>3. /\ plan' = [plan EXCEPT ![p] = value] /\ pc' = [pc EXCEPT ![p] = "planned"]
      /\ UNCHANGED <<ent, man, req>>
  BY <1>2 DEF Planned, stored
<1>4. /\ pc'[p] = "planned" /\ plan'[p] = value
      /\ \A q \in Process \ {p} : pc'[q] = pc[q] /\ req'[q] = req[q] /\ plan'[q] = plan[q]
  BY <1>1, <1>3 DEF NsTypes
<1>5. CASE PlanCreate(p) \/ PlanDelete(p) \/ PlanMove(p)
  <2>1. LookOK(p)'
    BY <1>3, <1>5 DEF PlanCreate, PlanDelete, PlanMove, LookOK, Looking
  <2> QED BY <1>3, <1>4, <2>1, StillLooks
<1>6. CASE PlanTrash(p) \/ PlanRestore(p)
  <2>1. PICK path \in Path :
          /\ plan'[p].par = Resolve(Parent(path)) /\ Resolve(Parent(path)) \in Dir
          /\ r.kind = "restore" => plan'[p].man = man[r.id]
    <3>1. CASE PlanTrash(p)
      <4> DEFINE par == Resolve(Parent(r.path))
                 res == {ShardRes(par, Base(r.path)), TrashRes(r.id)} \cup AllShards(Subtree(Resolve(r.path)))
      <4>1. r.kind = "trash" /\ Resolve(r.path) # None /\ plan' = [plan EXCEPT ![p] = [NoPlan EXCEPT !.par = par, !.res = res]]
        BY <3>1 DEF PlanTrash, Planned
      <4>2. r.path \in Path /\ par \in Dir
        BY <1>1, <4>1, TypesOf, ResolvedEntry
      <4> HIDE DEF par, res
      <4>3. plan'[p].par = par
        BY <1>1, <4>1 DEF NoPlan, NsTypes
      <4> QED BY <4>1, <4>2, <4>3 DEF par
    <3>2. CASE PlanRestore(p)
      <4> DEFINE m == man[r.id] par == Resolve(Parent(m.path))
                 res == {ShardRes(par, Base(m.path)), TrashRes(r.id)}
      <4>1. /\ r.kind = "restore" /\ m.node # None /\ par \in Dir
            /\ plan' = [plan EXCEPT ![p] = [NoPlan EXCEPT !.par = par, !.man = m, !.res = res]]
        BY <3>2 DEF PlanRestore, Planned
      <4>2. m.path \in Path
        BY <1>1, <4>1, TypesOf DEF Kept, GroupOK
      <4> HIDE DEF par, res, m
      <4>3. plan'[p].par = par /\ plan'[p].man = m
        BY <1>1, <4>1 DEF NoPlan, NsTypes
      <4> QED BY <4>1, <4>2, <4>3 DEF par, m
    <3> QED BY <1>6, <3>1, <3>2
  <2>2. PICK d : d = Resolve(Parent(path))
    OBVIOUS
  <2>3. Standing(d)
    BY <1>1, <2>1, <2>2, ResolvedStands, PathParts
  <2>4. Standing(d)'
    BY <1>3, <2>3 DEF Standing, Placed, Group
  <2>5. r.kind \in {"trash", "restore"} /\ req' = req /\ man' = man
    BY <1>3, <1>6 DEF PlanTrash, PlanRestore
  <2>6. LookOK(p)'
    BY <2>1, <2>2, <2>4, <2>5 DEF LookOK, Looking
  <2> QED BY <1>3, <1>4, <2>6, StillLooks
<1>7. CASE PlanClaim(p)
  <2> DEFINE m == man[r.id] res == {TrashRes(r.id)}
  <2>1. r.kind = "purge" /\ plan' = [plan EXCEPT ![p] = [NoPlan EXCEPT !.man = m, !.res = res]]
    BY <1>7 DEF PlanClaim, Planned
  <2> HIDE DEF m, res
  <2>2. plan'[p].man = m
    BY <1>1, <2>1 DEF NoPlan, NsTypes
  <2>3. LookOK(p)'
    BY <1>3, <2>1, <2>2 DEF LookOK, Looking, m
  <2> QED BY <1>3, <1>4, <2>3, StillLooks
<1> QED BY <1>5, <1>6, <1>7

LEMMA PurgeLooks ==
  ASSUME NsInv, Looks, LooksApart, NEW p \in Process, Purge(p)
  PROVE  Looks'
<1>1. NsTypes
  BY DEF NsInv
<1>2. CASE PlanClaim(p)
  BY <1>2, PlanLooks
<1>3. CASE Collect(p) \/ Erase(p) \/ Review(p)
  <2>1. pc'[p] # "planned" /\ \A q \in Process \ {p} : pc'[q] = pc[q] /\ req'[q] = req[q] /\ plan'[q] = plan[q]
    <3>1. CASE Collect(p) \/ Erase(p)
      BY <1>1, <3>1 DEF Collect, Erase, NsTypes
    <3>2. CASE Review(p)
      <4>1. CASE Ends(p, "done")
        BY <1>1, <4>1 DEF Ends, NsTypes
      <4>2. CASE ~Ends(p, "done")
        BY <1>1, <3>2, <4>2 DEF Review, NsTypes
      <4> QED BY <4>1, <4>2
    <3> QED BY <1>3, <3>1, <3>2
  <2>2. ent' = ent /\ man' = man
    BY <1>3, QuietSteps
  <2> QED BY <2>1, <2>2, StillLooks DEF LookOK
<1>4. CASE Claim(p)
  <2>1. \A d : Standing(d) => Standing(d)'
    BY <1>4, ClaimKept
  <2>2. /\ req[p].kind = "purge" /\ pc[p] = "planned" /\ pc' = [pc EXCEPT ![p] = "claimed"]
        /\ UNCHANGED <<req, plan>> /\ \A j \in TrashId \ {req[p].id} : man'[j] = man[j]
    BY <1>1, <1>4 DEF Claim, NsTypes
  <2>3. pc'[p] # "planned" /\ \A q \in Process \ {p} : pc'[q] = pc[q]
    BY <1>1, <2>2 DEF NsTypes
  <2> QED BY <2>1, <2>2, <2>3, GroupStepLooks
<1>5. CASE SaveCleanup(p)
  <2>1. \A d : Standing(d) => Standing(d)'
    BY <1>5, SaveCleanupKept
  <2>2. /\ pc[p] = "listed" /\ pc' = [pc EXCEPT ![p] = "cleaning"]
        /\ UNCHANGED <<req, plan>> /\ \A j \in TrashId \ {req[p].id} : man'[j] = man[j]
    BY <1>1, <1>5 DEF SaveCleanup, NsTypes
  <2>3. req[p].kind = "purge" /\ pc'[p] # "planned" /\ \A q \in Process \ {p} : pc'[q] = pc[q]
    BY <1>1, <2>2, PurgeFacts DEF NsTypes, Purging
  <2> QED BY <2>1, <2>2, <2>3, GroupStepLooks
<1>6. CASE Clean(p)
  <2>1. pc[p] = "cleaning" /\ UNCHANGED <<man, req, plan, pc>>
    BY <1>6 DEF Clean
  <2>2. req[p].kind = "purge" /\ req[p].id \in TrashId
    BY <2>1, PurgeFacts DEF Purging
  <2>3. \A d : Standing(d) => Standing(d)'
    BY <1>6, <2>2, CleanErases, ErasesLeaves
  <2> QED BY <2>1, <2>2, <2>3, GroupStepLooks
<1>7. CASE DropManifest(p)
  <2>1. pc[p] = "cleaning" /\ Ends(p, "done")
    BY <1>7 DEF DropManifest
  <2>2. req[p].kind = "purge" /\ req[p].id \in TrashId
    BY <2>1, PurgeFacts DEF Purging
  <2>3. pc'[p] # "planned" /\ \A q \in Process \ {p} : pc'[q] = pc[q] /\ req'[q] = req[q] /\ plan'[q] = plan[q]
    BY <1>1, <2>1 DEF Ends, NsTypes
  <2>4. /\ \A d : Standing(d) => Standing(d)'
        /\ \A j \in TrashId \ {req[p].id} : man'[j] = man[j]
    BY <1>7, <2>2, DropLeaves
  <2> QED BY <2>1, <2>2, <2>3, <2>4, GroupStepLooks
<1> QED BY <1>2, <1>3, <1>4, <1>5, <1>6, <1>7 DEF Purge

LEMMA StepLooks == ASSUME NsInv, Looks, LooksApart, [Next]_vars PROVE Looks'
<1>1. CASE UNCHANGED vars
  <2>1. UNCHANGED <<ent, man, req, plan, pc>>
    BY <1>1 DEF vars
  <2> QED BY <2>1 DEF Looks, LookOK, Looking, Standing, Placed, Group
<1>2. CASE Next
  <2>0. NsTypes
    BY DEF NsInv
  <2>1. PICK p \in Process :
          \/ PlanCreate(p) \/ BuildCreate(p) \/ PlanDelete(p) \/ BuildDelete(p)
          \/ PlanMove(p) \/ BuildMove(p) \/ PlanTrash(p) \/ BuildTrash(p)
          \/ PlanRestore(p) \/ BuildRestore(p)
          \/ Commit(p) \/ Abandon(p) \/ Purge(p)
    BY <1>2 DEF Next
  <2>2. CASE PlanCreate(p) \/ PlanDelete(p) \/ PlanMove(p) \/ PlanTrash(p) \/ PlanRestore(p)
    BY <2>2, PlanLooks
  <2>3. CASE BuildCreate(p) \/ BuildDelete(p) \/ BuildMove(p) \/ BuildTrash(p) \/ BuildRestore(p)
    <3>1. /\ pc' = [pc EXCEPT ![p] = "built"] /\ UNCHANGED <<ent, man, req, plan>>
      BY <2>3 DEF BuildCreate, BuildDelete, BuildMove, BuildTrash, BuildRestore, Built, stored
    <3>2. pc'[p] = "built" /\ \A q \in Process \ {p} : pc'[q] = pc[q]
      BY <2>0, <3>1 DEF NsTypes
    <3> QED BY <3>1, <3>2, StillLooks DEF LookOK
  <2>4. CASE Commit(p)
    BY <2>4, CommitLooks
  <2>5. CASE Abandon(p)
    <3>1. PICK phase \in {"idle", "done"} : Ends(p, phase)
      BY <2>5 DEF Abandon
    <3>2. pc'[p] # "planned" /\ \A q \in Process \ {p} : pc'[q] = pc[q] /\ req'[q] = req[q] /\ plan'[q] = plan[q]
      BY <2>0, <3>1 DEF Ends, NsTypes
    <3> QED BY <2>5, <3>2, QuietSteps, StillLooks DEF LookOK
  <2>6. CASE Purge(p)
    BY <2>6, PurgeLooks
  <2> QED BY <2>1, <2>2, <2>3, <2>4, <2>5, <2>6
<1> QED BY <1>1, <1>2

(* The inductive invariant of the tree and the trash: no process finds what it *)
(* read untrue when it commits, and what a permanent deletion is about to      *)
(* destroy is in its own group; as long as requests do not meet where they do  *)
(* not look again.                                                             *)
THEOREM NamespaceInductive == Spec /\ []LooksApart => [](NsInv /\ Looks)
<1>1. Init => NsInv /\ Looks
  BY InitInv, InitLooks
<1>2. NsInv /\ Looks /\ LooksApart /\ [Next]_vars => (NsInv /\ Looks)'
  BY StepKept, StepLooks
<1> QED BY <1>1, <1>2, PTL DEF Spec

LEMMA AtMostOne ==
  ASSUME NEW S, \A a, b \in S : a = b
  PROVE  IsFiniteSet(S) /\ Cardinality(S) \in {0, 1} /\ (Cardinality(S) = 1 => \E a \in S : TRUE)
<1>1. CASE S = {}
  BY <1>1, FS_EmptySet
<1>2. CASE S # {}
  <2>1. PICK a \in S : TRUE
    BY <1>2
  <2>2. S = {a}
    BY <2>1
  <2> QED BY <2>1, <2>2, FS_Singleton
<1> QED BY <1>1, <1>2

LEMMA OncePlacedCounts == NsInv => NamespaceInv
<1> SUFFICES ASSUME NsInv PROVE NamespaceInv
  OBVIOUS
<1>1. NsTypes /\ Kept /\ ent \in Entries /\ TreeOK /\ None \notin Node
  BY NamespaceAssumption DEF NsInv, Kept, NsTypes
<1>2. TypeOK
  <2>1. ASSUME NEW p \in Process PROVE plan[p].par \in Node \cup {None} /\ DOMAIN mut[p].mans \subseteq TrashId
    <3>1. plan[p].par \in Node \cup {None}
      BY <1>1, TypesOf
    <3>2. CASE pc[p] = "built"
      <4>1. mut[p] = Published(req[p], plan[p], ent) /\ PlanFits(req[p], plan[p]) /\ req[p].kind # "purge"
        BY <3>2 DEF NsInv, Steady, BuiltOK, PlanOK
      <4>2. /\ req[p].kind \in {"create", "delete", "move", "trash", "restore"}
            /\ req[p].kind \in {"trash", "restore"} => req[p].id \in TrashId
        BY <1>1, <4>1, TypesOf, RequestParts DEF PlanFits
      <4>3. NoMutation.mans = <<>> /\ DOMAIN <<>> = {}
        BY DEF NoMutation
      <4>4. CASE req[p].kind \in {"create", "delete", "move"}
        <5>1. mut[p].mans = <<>>
          BY <4>1, <4>4 DEF Published, NoMutation
        <5> QED BY <3>1, <4>3, <5>1
      <4>5. CASE req[p].kind \in {"trash", "restore"}
        <5>1. DOMAIN mut[p].mans = {req[p].id}
          BY <4>1, <4>5 DEF Published, NoMutation
        <5> QED BY <3>1, <4>2, <4>5, <5>1
      <4> QED BY <4>2, <4>4, <4>5
    <3>3. CASE pc[p] # "built"
      <4>1. mut[p].mans = <<>> /\ DOMAIN <<>> = {}
        BY <1>1, <3>3 DEF NsTypes, NoMutation
      <4> QED BY <3>1, <4>1
    <3> QED BY <3>2, <3>3
  <2>2. \A i \in TrashId : /\ man[i].node \in Node \cup {None}
                           /\ man[i].deleting \in BOOLEAN /\ man[i].cleanup \subseteq Node
    BY <1>1 DEF NsTypes, Manifest
  <2> QED BY <1>1, <2>1, <2>2 DEF TypeOK, NsTypes, Entries
<1>3. ASSUME NEW x \in Node
      PROVE  Cardinality({y \in Dir \X Name : ent[y[1]][y[2]] = x})
               + Cardinality({i \in TrashId : man[i].node = x}) <= IF x = Root THEN 0 ELSE 1
  <2> DEFINE P == {y \in Dir \X Name : ent[y[1]][y[2]] = x}
             Q == {i \in TrashId : man[i].node = x}
  <2>0. x # None
    BY <1>1
  <2>1. \A y, z \in P : y = z
    <3>1. \A d, e \in Dir, n, m \in Name : ent[d][n] = x /\ ent[e][m] = x => d = e /\ n = m
      BY <1>1, <2>0 DEF TreeOK, OncePlaced
    <3> QED BY <3>1
  <2>2. \A i, j \in Q : i = j
    BY <1>1, <2>0 DEF TreeOK
  <2>3. \A y \in P, i \in Q : FALSE
    BY <1>1, <2>0 DEF TreeOK
  <2>4. x = Root => P = {} /\ Q = {}
    BY <1>1, <2>0 DEF TreeOK, OncePlaced
  <2>5. P = {} \/ Q = {}
    BY <2>3
  <2> HIDE DEF P, Q
  <2>6. Cardinality(P) \in {0, 1} /\ Cardinality(Q) \in {0, 1}
    BY <2>1, <2>2, AtMostOne
  <2>7. Cardinality(P) + Cardinality(Q) <= IF x = Root THEN 0 ELSE 1
    BY <2>4, <2>5, <2>6, FS_EmptySet
  <2> QED BY <2>7 DEF P, Q
<1>4. OnePlace
  BY <1>3 DEF OnePlace
<1> QED BY <1>2, <1>4 DEF NamespaceInv

(* No node is ever in two places, in the tree or in the trash.                 *)
THEOREM NamespaceAlways == Spec /\ []LooksApart => []NamespaceInv
BY NamespaceInductive, OncePlacedCounts, PTL

LEMMA StoredLive == NsInv => LiveIntact
<1> SUFFICES ASSUME NsInv PROVE LiveIntact
  OBVIOUS
<1>1. NsTypes /\ Kept /\ StoredOK /\ Live \subseteq Node
  <2>1. Live = Below(ent, Root) /\ Root \in Node /\ ent \in Entries
    BY SubtreeIsBelow, NamespaceAssumption DEF Live, Node, NsInv, NsTypes
  <2> QED BY <2>1, BelowNodes, NamespaceAssumption DEF NsInv, Kept
<1>2. ASSUME NEW x \in Live PROVE (x = Root \/ Placed(x)) /\ ~Doomed(x) /\ ~Gone(x)
  BY <1>1, LiveStands DEF Placed, Doomed, Gone
<1>3. Live \cap File \subseteq obj
  BY <1>1, <1>2 DEF StoredOK
<1>4. Live \subseteq rec
  BY <1>1, <1>2 DEF StoredOK
<1> QED BY <1>3, <1>4 DEF LiveIntact

(* A file that can be reached has its payload and its records: no permanent    *)
(* deletion destroys what was restored, moved out or never in its group.       *)
THEOREM LiveIntactAlways == Spec /\ []LooksApart => []LiveIntact
BY NamespaceInductive, StoredLive, PTL

(* A claimed group stays claimed, with the same node, until nothing is left.   *)
LEMMA ClaimStays ==
  ASSUME NsInv, Looks, [Next]_vars, NEW i \in TrashId, man[i].deleting,
         NEW x, x = man[i].node
  PROVE  \/ man'[i].deleting /\ man'[i].node = x
         \/ man'[i].node = None /\ Gone(x)'
<1>1. NsTypes /\ Kept /\ man[i].node # None
  BY NoManifestParts DEF NsInv, Kept, GroupOK
<1>2. CASE man'[i] = man[i]
  BY <1>2
<1>3. CASE man'[i] # man[i]
  <2>1. PICK p \in Process : Commit(p) \/ Claim(p) \/ SaveCleanup(p) \/ DropManifest(p)
    <3>1. ~UNCHANGED man
      BY <1>3
    <3>2. Next
      BY <3>1 DEF vars
    <3> QED BY <3>1, <3>2, QuietSteps DEF Next, Purge
  <2>2. CASE Commit(p)
    BY <1>3, <2>2, CommitOrderly DEF Orderly
  <2>3. CASE Claim(p)
    <3>1. /\ req[p].kind = "purge" /\ pc[p] = "planned" /\ ~plan[p].man.deleting
          /\ man' = [man EXCEPT ![req[p].id] = [plan[p].man EXCEPT !.deleting = TRUE]]
      BY <1>3, <2>3 DEF Claim
    <3>2. i = req[p].id /\ man[i] = plan[p].man
      BY <1>1, <1>3, <3>1 DEF NsTypes, Looks, LookOK, Looking
    <3>3. man'[i] = [man[i] EXCEPT !.deleting = TRUE] /\ man[i] \in Manifest
      BY <1>1, <3>1, <3>2 DEF NsTypes
    <3> QED BY <3>3 DEF Manifest
  <2>4. CASE SaveCleanup(p)
    <3> DEFINE live == man[req[p].id]
               saved == IF live.cleanup = {} THEN [live EXCEPT !.cleanup = plan[p].man.cleanup] ELSE live
    <3>1. man' = [man EXCEPT ![req[p].id] = saved] /\ live.deleting
      BY <2>4 DEF SaveCleanup
    <3>2. i = req[p].id /\ man[i] \in Manifest
      BY <1>1, <1>3, <3>1 DEF NsTypes
    <3>3. saved.deleting /\ saved.node = man[i].node
      BY <3>1, <3>2 DEF Manifest
    <3> HIDE DEF saved
    <3>4. man'[i] = saved
      BY <1>1, <3>1, <3>2 DEF NsTypes
    <3> QED BY <3>3, <3>4
  <2>5. CASE DropManifest(p)
    <3>1. man' = [man EXCEPT ![req[p].id] = NoManifest]
      BY <2>5 DEF DropManifest
    <3>2. i = req[p].id
      BY <1>1, <1>3, <3>1 DEF NsTypes
    <3>3. x \in Group(i)
      <4>1. GroupPrivate(i)
        BY <1>1, GroupsPrivate DEF Kept
      <4> QED BY <1>1, <4>1 DEF GroupPrivate
    <3>4. man'[i] = NoManifest /\ Gone(x)'
      BY <2>5, <3>2, <3>3, DropLeaves
    <3> QED BY <3>4, NoManifestParts
  <2> QED BY <2>1, <2>2, <2>3, <2>4, <2>5
<1> QED BY <1>2, <1>3

(* What is live is somewhere in the tree, and no trash group has it.           *)
LiveElsewhere == \A x \in Live : (x = Root \/ Placed(x)) /\ \A i \in TrashId : man[i].node # x

LEMMA LiveApart == NsInv => LiveElsewhere
<1> SUFFICES ASSUME NsInv, NEW x \in Live
             PROVE  (x = Root \/ Placed(x)) /\ \A i \in TrashId : man[i].node # x
  BY DEF LiveElsewhere
<1>1. NsTypes /\ Kept /\ x \in Node /\ None \notin Node
  <2>1. Live = Below(ent, Root) /\ Root \in Node /\ ent \in Entries
    BY SubtreeIsBelow, NamespaceAssumption DEF Live, Node, NsInv, NsTypes
  <2> QED BY <2>1, BelowNodes, NamespaceAssumption DEF NsInv
<1>2. ASSUME NEW i \in TrashId, man[i].node = x PROVE x \in Group(i)
  <2>1. GroupPrivate(i)
    BY <1>1, GroupsPrivate DEF Kept
  <2> QED BY <1>1, <1>2, <2>1 DEF GroupPrivate
<1> QED BY <1>1, <1>2, LiveStands DEF Placed

(* Once a permanent deletion has claimed a group nobody can restore it, and    *)
(* its root is not seen again, also after the manifest has gone.               *)
THEOREM ClaimAlwaysBlocks == Spec /\ []LooksApart => ClaimBlocksRestore
<1> DEFINE Blocks == \A i \in TrashId :
                       man[i].deleting => /\ man'[i].deleting \/ man'[i].node = None
                                          /\ man[i].node \notin Live'
<1>1. NsInv /\ Looks /\ LiveElsewhere' /\ [Next]_vars => [Blocks]_vars
  <2> SUFFICES ASSUME NsInv, Looks, LiveElsewhere', [Next]_vars, NEW i \in TrashId, man[i].deleting
               PROVE  /\ man'[i].deleting \/ man'[i].node = None
                      /\ man[i].node \notin Live'
    OBVIOUS
  <2>1. PICK x : x = man[i].node
    OBVIOUS
  <2>2. \/ man'[i].deleting /\ man'[i].node = x
        \/ man'[i].node = None /\ Gone(x)'
    BY <2>1, ClaimStays
  <2>3. x \notin Live'
    BY <2>2 DEF Gone, LiveElsewhere
  <2> QED BY <2>1, <2>2, <2>3
<1>2. NsInv => LiveElsewhere
  BY LiveApart
<1> QED BY <1>1, <1>2, NamespaceInductive, PTL DEF Spec, ClaimBlocksRestore

-----------------------------------------------------------------------------
(* Nothing is lost, and nothing is put where it cannot be found.               *)

Reached == \A x \in rec : x \in Live \/ \E i \in TrashId : x \in Group(i)

(* A directory does not go into what it has; two that are moved at the same    *)
(* time by different processes might, each being clear before both are done.   *)
Clear(p) ==
  LET r == req[p] pl == plan[p] IN
  pc[p] = "built" /\ r.kind = "move" => pl.tgt \notin Below(ent, ent[pl.par][Base(r.path)])
ReachInv == Reached /\ \A p \in Process : Clear(p)

LEMMA LiveIs == Live = Below(ent, Root)
BY SubtreeIsBelow DEF Live

LEMMA LiveThen == Live' = Below(ent', Root)
BY DEF Live, Subtree, Below, Children, Kids

LEMMA ReachedIsNoOrphan == Reached <=> NoOrphan
<1>1. \A i \in TrashId : Group(i) = IF man[i].node = None THEN {} ELSE Subtree(man[i].node) \cup man[i].cleanup
  BY SubtreeIsBelow DEF Group
<1> QED BY <1>1 DEF Reached, NoOrphan

(* What is stored or has an entry can be reached, and so an operation that     *)
(* holds a directory that stands holds one that is live.                       *)
LEMMA FoundSomewhere ==
  ASSUME NsInv, Reached, NEW x \in Node, x = Root \/ Placed(x)
  PROVE  x \in Live \/ \E i \in TrashId : x \in Group(i)
<1>1. x \notin rec => Doomed(x)
  BY DEF NsInv, Kept, StoredOK
<1> QED BY <1>1 DEF Reached, Doomed

LEMMA StandingIsLive == ASSUME NsInv, Reached, NEW d, Standing(d) PROVE d \in Live
BY FoundSomewhere DEF Standing, Node

(* What is to be created is nowhere and has nothing.                           *)
LEMMA FreshEmpty ==
  ASSUME NsInv, Reached, NEW v, Unborn(v)
  PROVE  ~Placed(v) /\ v # Root /\ (v \in Dir => Empty(v))
<1>1. NsTypes /\ Kept /\ OncePlaced(ent) /\ ent \in Entries
  BY DEF NsInv, Kept, TreeOK, NsTypes
<1>2. PICK p \in Process : req[p].kind = "create" /\ req[p].node = v
  BY DEF Unborn
<1>3. ~Placed(v)
  BY <1>1, <1>2 DEF Kept, FreshOK
<1>4. v # Root
  <2>1. req[p] \in Request[p]
    BY <1>1, <1>2 DEF NsTypes, NoRequest
  <2> QED BY <1>2, <2>1, NamespaceAssumption DEF FreshIds
<1>5. ASSUME v \in Dir, NEW n \in Name, ent[v][n] # None PROVE FALSE
  <2> DEFINE y == ent[v][n]
  <2>1. y \in Node /\ y # Root /\ Placed(y)
    BY <1>1, <1>5 DEF Entries, OncePlaced, Placed
  <2>2. ASSUME NEW i \in TrashId, y \in Group(i) PROVE FALSE
    <3>1. GroupPrivate(i)
      BY <1>1, GroupsPrivate DEF Kept
    <3>2. v \in Group(i)
      BY <1>5, <2>2, <3>1 DEF GroupPrivate
    <3> QED BY <3>1, <3>2 DEF GroupPrivate
  <2>3. y \in Live
    BY <2>1, <2>2, FoundSomewhere
  <2>4. PICK d \in Live \cap Dir, m \in Name : ent[d][m] = y
    BY <1>1, <2>1, <2>3, LiveStands
  <2>5. v \in Live
    BY <1>1, <1>5, <2>4 DEF OncePlaced
  <2> QED BY <1>1, <1>3, <1>4, <2>5, LiveStands DEF Placed
<1> QED BY <1>3, <1>4, <1>5 DEF Empty

-----------------------------------------------------------------------------
(* A commit.                                                                   *)

(* What was live still is, or has been deleted, or is in the group it went to. *)
LEMMA CommitReaches ==
  ASSUME NsInv, ReachInv, NEW p \in Process, Commit(p), NEW x \in Live
  PROVE  \/ x \in Live'
         \/ req[p].kind = "trash" /\ \E i \in TrashId : x \in Group(i)'
         \/ req[p].kind = "delete" /\ x = plan[p].node
<1> DEFINE r == req[p] pl == plan[p] c == pl.par
<1>1. /\ Effect(p) /\ BuiltFits(p) /\ PlanFits(r, pl) /\ pc[p] = "built"
      /\ r.kind \in {"create", "delete", "move", "trash", "restore"}
  BY CommitEffect
<1>2. NsTypes /\ Kept /\ c \in Dir /\ ent \in Entries
  BY <1>1 DEF NsInv, NsTypes, BuiltFits, Standing
<1>3. Live = Below(ent, Root) /\ Live' = Below(ent', Root) /\ Closed(ent', Live') /\ Root \in Live'
  BY LiveIs, LiveThen, BelowClosed, BelowHas, NamespaceAssumption
<1>4. \A T : Root \in T /\ Closed(ent, T) => x \in T
  BY <1>3, BelowLeast, NamespaceAssumption
<1>5. CASE r.kind \in {"create", "restore"}
  <2>1. \A d \in Dir, n \in Name : ent[d][n] \in {ent'[d][n], None}
    BY <1>1, <1>5 DEF Effect, BuiltFits, Sets
  <2>2. Closed(ent, Live')
    BY <1>3, <2>1 DEF Closed
  <2> QED BY <1>3, <1>4, <2>2
<1>6. CASE r.kind = "delete"
  <2> DEFINE y == pl.node
  <2>1. \A d \in Dir, n \in Name : ent[d][n] \in {ent'[d][n], y}
    BY <1>1, <1>6 DEF Effect, BuiltFits, Sets
  <2>2. y \in Dir => Empty(y)
    BY <1>1, <1>6 DEF BuiltFits
  <2>3. Closed(ent, Live' \cup {y})
    BY <1>3, <2>1, <2>2 DEF Closed, Empty
  <2> QED BY <1>3, <1>4, <1>6, <2>3
<1>7. CASE r.kind = "trash"
  <2> DEFINE y == ent[c][Base(r.path)]
  <2>1. \A d \in Dir, n \in Name : ent[d][n] \in {ent'[d][n], y}
    BY <1>1, <1>7 DEF Effect, Sets
  <2>2. r.id \in TrashId /\ man' = [man EXCEPT ![r.id] = [NoManifest EXCEPT !.node = y, !.path = r.path]]
    BY <1>1, <1>2, <1>7, TypesOf DEF Effect
  <2>3. man'[r.id] = [NoManifest EXCEPT !.node = y, !.path = r.path]
    BY <1>2, <2>2 DEF NsTypes
  <2>4. man'[r.id].node = y /\ man'[r.id].cleanup = {} /\ y # None
    BY <1>1, <1>7, <2>3 DEF NoManifest, BuiltFits
  <2>5. PICK z : z = y
    OBVIOUS
  <2>6. PICK i \in TrashId : i = r.id
    BY <2>2
  <2>7. Closed(ent', Below(ent', z)) /\ z \in Below(ent', z)
    BY BelowClosed, BelowHas, NamespaceAssumption
  <2>8. Closed(ent, Live' \cup Below(ent', z))
    BY <1>3, <2>1, <2>5, <2>7 DEF Closed
  <2>9. Group(i)' = Below(ent', z)
    BY <2>4, <2>5, <2>6 DEF Group
  <2> QED BY <1>3, <1>4, <1>7, <2>8, <2>9
<1>8. CASE r.kind = "move"
  <2> DEFINE y == ent[c][Base(r.path)] t == pl.tgt k == Base(r.to)
  <2>1. \A d \in Dir, n \in Name : ent[d][n] \in {ent'[d][n], y, None}
    BY <1>1, <1>8 DEF Effect, BuiltFits
  <2>2. t \in Live /\ t \notin Below(ent, y) /\ t \in Dir /\ k \in Name /\ y # None
    BY <1>1, <1>2, <1>8, TypesOf, StandingIsLive DEF BuiltFits, Standing, ReachInv, Clear
  <2>3. ent'[t][k] = y
    BY <1>1, <1>8, <2>2 DEF Effect
  <2>4. Closed(ent, Below(ent, y)) /\ y \in Below(ent, y)
    BY BelowClosed, BelowHas, NamespaceAssumption
  <2> HIDE DEF y, t, k
  <2>5. Closed(ent, Live' \cup Below(ent, y))
    BY <1>3, <2>1, <2>4 DEF Closed
  <2>6. t \in Live'
    <3>1. Live \subseteq Live' \cup Below(ent, y)
      BY <1>3, <2>5, BelowLeast, NamespaceAssumption
    <3> QED BY <2>2, <3>1
  <2>7. y \in Live'
    BY <1>3, <2>2, <2>3, <2>6 DEF Closed
  <2>8. Closed(ent, Live')
    BY <1>3, <2>1, <2>7 DEF Closed
  <2> QED BY <1>3, <1>4, <2>8
<1> QED BY <1>1, <1>5, <1>6, <1>7, <1>8

LEMMA CommitKeepsReached ==
  ASSUME NsInv, ReachInv, NEW p \in Process, Commit(p)
  PROVE  Reached'
<1> DEFINE r == req[p] pl == plan[p] c == pl.par
<1>1. /\ Effect(p) /\ BuiltFits(p) /\ PlanFits(r, pl) /\ Orderly(p)
      /\ r.kind \in {"create", "delete", "move", "trash", "restore"}
  BY CommitEffect, CommitOrderly
<1>2. NsTypes /\ Kept /\ Reached /\ c \in Dir /\ Standing(c) /\ c \in Live
  BY <1>1, StandingIsLive DEF NsInv, BuiltFits, Standing, ReachInv
<1>3. Live' = Below(ent', Root) /\ Closed(ent', Live')
  BY LiveThen, BelowClosed, NamespaceAssumption
<1>4. ASSUME r.kind \in {"create", "move", "restore"} PROVE c \in Live'
  BY <1>2, <1>4, CommitReaches
<1> SUFFICES ASSUME NEW x \in rec' PROVE x \in Live' \/ \E i \in TrashId : x \in Group(i)'
  BY DEF Reached
<1>5. CASE r.kind = "create" /\ x = r.node
  <2>1. Base(r.path) \in Name /\ r.node \in Node
    BY <1>2, <1>5, TypesOf
  <2>2. ent'[c][Base(r.path)] = x
    BY <1>1, <1>2, <1>5, <2>1 DEF Effect, Sets
  <2> QED BY <1>2, <1>3, <1>4, <1>5, <2>1, <2>2, NamespaceAssumption DEF Closed
<1>6. CASE x \in rec /\ x \in Live
  <2>1. ~(r.kind = "delete" /\ x = pl.node)
    BY <1>1 DEF Effect
  <2> QED BY <1>6, <2>1, CommitReaches
<1>7. ASSUME NEW i \in TrashId, x \in Group(i) PROVE x \in Live' \/ \E j \in TrashId : x \in Group(j)'
  <2>1. CASE man'[i] = man[i]
    BY <1>1, <1>7, <2>1, CommitGroups
  <2>2. CASE man'[i] # man[i]
    <3>1. r.kind \in {"trash", "restore"} /\ i = r.id
      BY <1>1, <1>2, <2>2 DEF Effect, NsTypes
    <3>2. r.kind # "trash"
      BY <1>2, <1>7, <3>1 DEF Kept, FreshOK, Group
    <3> DEFINE m == pl.man b == Base(pl.man.path)
    <3>3. /\ man[i] = m /\ ent[c][b] = None /\ ~m.deleting /\ b \in Name
          /\ \A d \in Dir, n \in Name : ent'[d][n] = IF d = c /\ n = b THEN m.node ELSE ent[d][n]
      BY <1>1, <3>1, <3>2, PathParts DEF BuiltFits, PlanFits, Effect, Sets
    <3>4. Group(i) = Below(ent, m.node) /\ m.node # None
      BY <1>2, <1>7, <3>3 DEF Group, Kept, GroupOK
    <3>5. m.node \in Live'
      BY <1>2, <1>3, <1>4, <3>1, <3>2, <3>3, <3>4 DEF Closed
    <3>6. Below(ent, m.node) \subseteq Below(ent', m.node)
      BY <3>3, BelowGrows, NamespaceAssumption
    <3>7. Below(ent', m.node) \subseteq Live'
      BY <1>3, <3>5, BelowLeast, NamespaceAssumption
    <3> QED BY <1>7, <3>4, <3>6, <3>7
  <2> QED BY <2>1, <2>2
<1>8. x \in rec \/ (r.kind = "create" /\ x = r.node)
  BY <1>1 DEF Orderly
<1> QED BY <1>2, <1>5, <1>6, <1>7, <1>8 DEF Reached

(* Whatever another process commits meanwhile, but another directory's move,   *)
(* the target stays clear: what comes to be below x was below nothing of x's.  *)
LEMMA CommitKeepsClear ==
  ASSUME NsInv, ReachInv, MovesApart, NEW p \in Process, Commit(p), NEW q \in Process
  PROVE  Clear(q)'
<1>0. pc'[p] = "done" /\ \A o \in Process \ {p} : pc'[o] = pc[o] /\ req'[o] = req[o] /\ plan'[o] = plan[o]
  <2>1. NsTypes /\ Ends(p, "done") /\ "done" \in Phases \ {"built"}
    BY DEF NsInv, Commit, Phases
  <2> QED BY <2>1, EndsFacts
<1> SUFFICES ASSUME q # p, pc[q] = "built", req[q].kind = "move" PROVE Clear(q)'
  BY <1>0 DEF Clear
<1> DEFINE c == plan[q].par b == Base(req[q].path) t == plan[q].tgt
<1>1. PICK x : x = ent[c][b]
  OBVIOUS
<1>2. /\ NsTypes /\ Kept /\ Reached /\ BuiltFits(q) /\ PlanFits(req[q], plan[q])
      /\ t \notin Below(ent, x) /\ ent \in Entries
  BY <1>1 DEF NsInv, Steady, BuiltOK, PlanOK, ReachInv, Clear, NsTypes
<1>3. /\ c \in Dir /\ b \in Name /\ ShardRes(c, b) \in plan[q].res /\ x # None
      /\ t \in Dir /\ Standing(t) /\ x \in Below(ent, x)
  BY <1>1, <1>2, TypesOf, BelowHas, NamespaceAssumption DEF BuiltFits, PlanFits
<1> DEFINE r == req[p] pl == plan[p] d == plan[p].par
<1>4. /\ Effect(p) /\ BuiltFits(p) /\ PlanFits(r, pl) /\ Orderly(p) /\ pc[p] = "built"
      /\ r.kind \in {"create", "delete", "move", "trash", "restore"}
  BY CommitEffect, CommitOrderly
<1>5. ent'[c][b] = x
  <2>1. plan[p].res \cap plan[q].res = {}
    BY <1>4 DEF NsInv, Steady, LeasesOK
  <2> QED BY <1>1, <1>3, <1>4, <2>1 DEF Orderly
<1> SUFFICES t \notin Below(ent', x)
  BY <1>0, <1>5 DEF Clear
<1> HIDE DEF c, b, t
<1>6. \A G : t \notin G /\ Closed(ent', Below(ent, x) \cup G) => t \notin Below(ent', x)
  BY <1>2, <1>3, BelowLeast, NamespaceAssumption
<1>7. Closed(ent, Below(ent, x))
  BY BelowClosed, NamespaceAssumption
<1>8. CASE r.kind \in {"delete", "trash"}
  <2>1. \A e \in Dir, n \in Name : ent'[e][n] \in {ent[e][n], None}
    BY <1>4, <1>8 DEF Effect, Sets
  <2>2. Closed(ent', Below(ent, x) \cup {})
    BY <1>7, <2>1 DEF Closed
  <2> QED BY <1>6, <2>2
<1>9. CASE r.kind \in {"create", "restore"}
  <2>1. PICK v : v = IF r.kind = "create" THEN r.node ELSE pl.man.node
    OBVIOUS
  <2>2. \A e \in Dir, n \in Name : ent'[e][n] # ent[e][n] => e = d /\ ent'[e][n] = v
    BY <1>4, <1>9, <2>1 DEF Effect, Sets
  <2>3. PICK G : v \in G /\ Closed(ent, G) /\ t \notin G /\ d \notin G
    <3>1. d = Root \/ Placed(d)
      BY <1>4 DEF BuiltFits, Standing
    <3>2. CASE r.kind = "create"
      <4>1. Unborn(v) /\ ~Placed(v) /\ v # Root /\ (v \in Dir => Empty(v))
        BY <1>2, <2>1, <3>2, FreshEmpty DEF Unborn
      <4>2. Closed(ent, {v})
        BY <4>1 DEF Closed, Empty
      <4> QED BY <1>3, <3>1, <4>1, <4>2 DEF Standing
    <3>3. CASE r.kind = "restore"
      <4>1. r.id \in TrashId /\ man[r.id].node = v /\ v # None
        BY <1>2, <1>4, <2>1, <3>3, TypesOf DEF BuiltFits, PlanFits
      <4>2. GroupPrivate(r.id)
        BY <1>2, <4>1, GroupsPrivate DEF Kept
      <4> QED BY <1>3, <1>4, <4>1, <4>2 DEF GroupPrivate, Standing, BuiltFits
    <3> QED BY <1>9, <3>2, <3>3
  <2>4. Closed(ent', Below(ent, x) \cup G)
    BY <1>7, <2>2, <2>3 DEF Closed
  <2> QED BY <1>6, <2>3, <2>4
<1>10. CASE r.kind = "move"
  <2>1. PICK y : y = ent[d][Base(r.path)]
    OBVIOUS
  <2>2. \A e \in Dir, n \in Name : ent'[e][n] \in {ent[e][n], None, y}
    BY <1>4, <1>10, <2>1 DEF Effect
  <2>3. y \notin Dir \/ x \notin Dir
    BY <1>1, <1>4, <1>10, <2>1 DEF MovesApart, MovesDir, c, b
  <2>4. CASE y \notin Dir
    <3>1. Closed(ent', Below(ent, x) \cup {y})
      BY <1>7, <2>2, <2>4 DEF Closed
    <3> QED BY <1>3, <1>6, <2>4, <3>1
  <2>5. CASE x \notin Dir
    <3>1. Closed(ent', {x})
      BY <2>5 DEF Closed
    <3> QED BY <1>3, <2>5, <3>1, BelowLeast, NamespaceAssumption
  <2> QED BY <2>3, <2>4, <2>5
<1> QED BY <1>4, <1>8, <1>9, <1>10

-----------------------------------------------------------------------------
(* The other steps.                                                            *)

(* Steps that move nothing and delete no record.                               *)
LEMMA CalmReached ==
  ASSUME Reached, ent' = ent, rec' \subseteq rec, \A i \in TrashId : Group(i) \subseteq Group(i)'
  PROVE  Reached'
<1>1. Live' = Live
  BY LiveIs, LiveThen
<1> QED BY <1>1 DEF Reached

LEMMA CalmClear ==
  ASSUME ReachInv, NEW q \in Process, ent' = ent,
         pc'[q] = "built" /\ req'[q].kind = "move" =>
           pc[q] = "built" /\ req'[q] = req[q] /\ plan'[q] = plan[q]
  PROVE  Clear(q)'
<1> SUFFICES ASSUME pc'[q] = "built" /\ req'[q].kind = "move" PROVE Clear(q)'
  BY DEF Clear
<1>1. pc[q] = "built" /\ req'[q] = req[q] /\ plan'[q] = plan[q]
  OBVIOUS
<1>2. plan[q].tgt \notin Below(ent, ent[plan[q].par][Base(req[q].path)])
  BY <1>1 DEF ReachInv, Clear
<1> QED BY <1>1, <1>2 DEF Clear

LEMMA ClaimedNode ==
  ASSUME NsInv, Looks, NEW p \in Process, Claim(p) \/ SaveCleanup(p), NEW i \in TrashId
  PROVE  man'[i].node = man[i].node /\ man[i].cleanup \subseteq man'[i].cleanup
<1>1. NsTypes /\ man[i] \in Manifest
  BY DEF NsInv, NsTypes
<1>2. CASE man'[i] = man[i]
  BY <1>2
<1>3. CASE man'[i] # man[i] /\ Claim(p)
  <2>1. /\ req[p].kind = "purge" /\ pc[p] = "planned" /\ ~plan[p].man.deleting
        /\ man' = [man EXCEPT ![req[p].id] = [plan[p].man EXCEPT !.deleting = TRUE]]
    BY <1>3 DEF Claim
  <2>2. i = req[p].id /\ man[i] = plan[p].man
    BY <1>1, <1>3, <2>1 DEF NsTypes, Looks, LookOK, Looking
  <2>3. man'[i] = [man[i] EXCEPT !.deleting = TRUE]
    BY <1>1, <2>1, <2>2 DEF NsTypes
  <2> QED BY <1>1, <2>3 DEF Manifest
<1>4. CASE man'[i] # man[i] /\ SaveCleanup(p)
  <2>1. PICK saved : /\ man' = [man EXCEPT ![req[p].id] = saved]
                     /\ saved = LET live == man[req[p].id]
                                IN IF live.cleanup = {} THEN [live EXCEPT !.cleanup = plan[p].man.cleanup]
                                                        ELSE live
    BY <1>4 DEF SaveCleanup
  <2>2. i = req[p].id
    BY <1>1, <1>4, <2>1 DEF NsTypes
  <2>3. saved.node = man[i].node /\ man[i].cleanup \subseteq saved.cleanup
    BY <1>1, <2>1, <2>2 DEF Manifest
  <2> QED BY <1>1, <2>1, <2>2, <2>3 DEF NsTypes
<1> QED BY <1>2, <1>3, <1>4

LEMMA SameReach ==
  ASSUME NsInv, Looks, ReachInv, NEW p \in Process,
         \/ PlanCreate(p) \/ PlanDelete(p) \/ PlanMove(p) \/ PlanTrash(p) \/ PlanRestore(p)
         \/ PlanClaim(p) \/ BuildCreate(p) \/ BuildDelete(p) \/ BuildTrash(p) \/ BuildRestore(p)
         \/ Abandon(p) \/ Claim(p) \/ Collect(p) \/ Erase(p) \/ Review(p) \/ SaveCleanup(p)
  PROVE  ReachInv'
<1>1. NsTypes
  BY DEF NsInv
<1>2. ent' = ent /\ rec' = rec
  BY DEF PlanCreate, PlanDelete, PlanMove, PlanTrash, PlanRestore, PlanClaim, Planned, BuildCreate,
         BuildDelete, BuildTrash, BuildRestore, Built, Abandon, Claim, Collect, Erase, Review,
         SaveCleanup, stored
<1>3. ASSUME NEW q \in Process
      PROVE  pc'[q] = "built" /\ req'[q].kind = "move" =>
               pc[q] = "built" /\ req'[q] = req[q] /\ plan'[q] = plan[q]
  <2>1. CASE PlanCreate(p) \/ PlanDelete(p) \/ PlanMove(p) \/ PlanTrash(p) \/ PlanRestore(p) \/ PlanClaim(p)
    BY <1>1, <2>1 DEF PlanCreate, PlanDelete, PlanMove, PlanTrash, PlanRestore, PlanClaim, Planned, NsTypes
  <2>2. CASE BuildCreate(p) \/ BuildDelete(p) \/ BuildTrash(p) \/ BuildRestore(p)
    BY <1>1, <2>2 DEF BuildCreate, BuildDelete, BuildTrash, BuildRestore, Built, NsTypes
  <2>3. CASE Claim(p) \/ Collect(p) \/ Erase(p) \/ SaveCleanup(p)
    BY <1>1, <2>3 DEF Claim, Collect, Erase, SaveCleanup, NsTypes
  <2>4. ASSUME NEW phase \in {"idle", "done"}, Ends(p, phase)
        PROVE  pc'[q] = "built" => pc[q] = "built" /\ req'[q] = req[q] /\ plan'[q] = plan[q]
    BY <1>1, <2>4 DEF Ends, NsTypes
  <2>5. CASE Abandon(p)
    BY <2>4, <2>5 DEF Abandon
  <2>6. CASE Review(p)
    <3>1. CASE Ends(p, "done")
      BY <2>4, <3>1
    <3>2. CASE ~Ends(p, "done")
      BY <1>1, <2>6, <3>2 DEF Review, NsTypes
    <3> QED BY <3>1, <3>2
  <2> QED BY <2>1, <2>2, <2>3, <2>5, <2>6
<1>4. \A i \in TrashId : Group(i) \subseteq Group(i)'
  <2>1. CASE man' = man
    BY <1>2, <2>1 DEF Group
  <2>2. CASE Claim(p) \/ SaveCleanup(p)
    <3>1. \A i \in TrashId : man'[i].node = man[i].node /\ man[i].cleanup \subseteq man'[i].cleanup
      BY <2>2, ClaimedNode
    <3> QED BY <1>2, <3>1 DEF Group
  <2> QED BY <2>1, <2>2 DEF PlanCreate, PlanDelete, PlanMove, PlanTrash, PlanRestore, PlanClaim, Planned,
         BuildCreate, BuildDelete, BuildTrash, BuildRestore, Built, Abandon, Collect, Erase, Review, stored
<1>5. Reached'
  BY <1>2, <1>4, CalmReached DEF ReachInv
<1>6. \A q \in Process : Clear(q)'
  BY <1>2, <1>3, CalmClear
<1> QED BY <1>5, <1>6 DEF ReachInv

(* A move that has found both ends in the tree it sees does not go below what  *)
(* it moves: a path that leads there would pass through it.                    *)
LEMMA PrefixOfParent ==
  ASSUME NEW a \in Path, NEW b \in Path, IsPrefix(a, Parent(b))
  PROVE  IsPrefix(a, b)
<1>1. /\ a \in Seq(Name) /\ b \in Seq(Name) /\ Parent(b) \in Seq(Name)
      /\ Len(Parent(b)) = Len(b) - 1 /\ Len(b) \in Nat /\ Len(a) \in Nat
      /\ \A i \in 1..(Len(b) - 1) : Parent(b)[i] = b[i]
  BY PathParts DEF Path
<1>2. Len(a) <= Len(b) - 1 /\ SubSeq(Parent(b), 1, Len(a)) = a
  BY <1>1 DEF IsPrefix
<1>3. \A i \in 1..Len(a) : SubSeq(Parent(b), 1, Len(a))[i] = Parent(b)[i]
  BY <1>1, <1>2
<1>4. \A i \in 1..Len(a) : SubSeq(b, 1, Len(a))[i] = b[i]
  BY <1>1, <1>2
<1>5. \A i \in 1..Len(a) : SubSeq(b, 1, Len(a))[i] = a[i]
  BY <1>1, <1>2, <1>3, <1>4
<1>6. SubSeq(b, 1, Len(a)) \in Seq(Name) /\ Len(SubSeq(b, 1, Len(a))) = Len(a)
  BY <1>1, <1>2
<1>7. SubSeq(b, 1, Len(a)) = a
  BY <1>1, <1>5, <1>6
<1> QED BY <1>1, <1>2, <1>7 DEF IsPrefix

LEMMA BuildMoveReach ==
  ASSUME NsInv, ReachInv, NEW p \in Process, BuildMove(p)
  PROVE  ReachInv'
<1> DEFINE r == req[p] pl == plan[p]
<1>1. /\ r.kind = "move" /\ pc[p] = "planned" /\ Resolve(Parent(r.path)) = pl.par
      /\ Resolve(Parent(r.to)) = pl.tgt /\ ent[pl.par][Base(r.path)] # None
      /\ UNCHANGED <<stored, req, plan>> /\ pc' = [pc EXCEPT ![p] = "built"]
  BY DEF BuildMove, Leasing, Built
<1>2. NsTypes /\ PlanFits(r, pl) /\ OncePlaced(ent) /\ ent \in Entries
  BY <1>1 DEF NsInv, Steady, PlanOK, Kept, TreeOK, NsTypes
<1>3. pl.par \in Dir /\ pl.tgt \in Dir /\ ~IsPrefix(r.path, r.to) /\ r.path \in Path /\ r.to \in Path
  BY <1>1, <1>2, TypesOf DEF PlanFits
<1>4. pl.tgt \notin Below(ent, ent[pl.par][Base(r.path)])
  <2>1. Walk(ent, r.path) = ent[pl.par][Base(r.path)]
    BY <1>1, <1>3, ResolveIsWalk, WalkOn
  <2>2. Walk(ent, Parent(r.to)) = pl.tgt /\ Parent(r.to) \in Seq(Name)
    BY <1>1, <1>3, ResolveIsWalk, PathParts
  <2>3. ~IsPrefix(r.path, Parent(r.to))
    BY <1>3, PrefixOfParent
  <2> QED BY <1>1, <1>2, <1>3, <2>1, <2>2, <2>3, PathPasses
<1>5. ent' = ent /\ man' = man /\ rec' = rec
  BY <1>1 DEF stored
<1>6. \A i \in TrashId : Group(i)' = Group(i)
  BY <1>5 DEF Group
<1>7. Reached'
  BY <1>5, <1>6, CalmReached DEF ReachInv
<1>8. ASSUME NEW q \in Process PROVE Clear(q)'
  <2>1. CASE q = p
    BY <1>1, <1>4, <1>5, <2>1 DEF Clear
  <2>2. CASE q # p
    <3>1. pc'[q] = pc[q] /\ req'[q] = req[q] /\ plan'[q] = plan[q]
      BY <1>1, <1>2, <2>2 DEF NsTypes
    <3> QED BY <1>5, <3>1, CalmClear
  <2> QED BY <2>1, <2>2
<1> QED BY <1>7, <1>8 DEF ReachInv

LEMMA CleanReach == ASSUME NsInv, ReachInv, NEW p \in Process, Clean(p) PROVE ReachInv'
<1>1. NsTypes /\ Kept /\ Reached
  BY DEF NsInv, ReachInv
<1>2. PICK i \in TrashId : Erases(p, i)
  <2>1. req[p].id \in TrashId
    BY PurgeFacts DEF Clean, Purging
  <2> QED BY <2>1, CleanErases
<1>3. \A j \in TrashId : Group(j)' = Group(j)
  BY <1>2, ErasesLeaves
<1>4. /\ \A d \in Dir, n \in Name : ent'[d][n] # ent[d][n] => ent'[d][n] = None /\ d \in Group(i)
      /\ rec' \subseteq rec /\ UNCHANGED <<req, plan, pc>>
  BY <1>2 DEF Erases
<1>5. Live' = Live
  <2>1. \A d \in Live \cap Dir, n \in Name : ent'[d][n] = ent[d][n]
    BY <1>1, <1>4, LiveStands
  <2> QED BY <2>1, LiveIs, LiveThen, BelowSame, NamespaceAssumption
<1>6. Reached'
  BY <1>1, <1>3, <1>4, <1>5 DEF Reached
<1>7. ASSUME NEW q \in Process PROVE Clear(q)'
  <2> SUFFICES ASSUME pc[q] = "built", req[q].kind = "move" PROVE Clear(q)'
    BY <1>4 DEF Clear
  <2> DEFINE c == plan[q].par b == Base(req[q].path)
  <2>1. /\ c \in Dir /\ b \in Name /\ Standing(c) /\ plan[q].tgt \notin Below(ent, ent[c][b])
    BY <1>1, TypesOf DEF NsInv, Steady, BuiltOK, BuiltFits, Standing, ReachInv, Clear
  <2>2. ent'[c][b] = ent[c][b]
    BY <1>4, <2>1 DEF Standing
  <2>3. Below(ent', ent[c][b]) \subseteq Below(ent, ent[c][b])
    BY <1>4, BelowShrinks, NamespaceAssumption
  <2> QED BY <1>4, <2>1, <2>2, <2>3 DEF Clear
<1> QED BY <1>6, <1>7 DEF ReachInv

LEMMA DropReach == ASSUME NsInv, ReachInv, NEW p \in Process, DropManifest(p) PROVE ReachInv'
<1>1. NsTypes /\ Reached /\ Purging(p) /\ Ends(p, "done")
  BY DEF NsInv, ReachInv, DropManifest, Purging
<1>2. PICK i \in TrashId : i = req[p].id
  BY <1>1, PurgeFacts
<1>3. /\ ent' = ent /\ rec' = rec /\ \A j \in TrashId \ {i} : Group(j)' = Group(j)
      /\ \A x \in Group(i) : x \notin rec
  BY <1>2, DropLeaves
<1>4. Live' = Live
  BY <1>3, LiveIs, LiveThen
<1>5. Reached'
  BY <1>1, <1>3, <1>4 DEF Reached
<1>6. \A q \in Process : pc'[q] = "built" => pc[q] = "built" /\ req'[q] = req[q] /\ plan'[q] = plan[q]
  BY <1>1 DEF Ends, NsTypes
<1> QED BY <1>3, <1>5, <1>6, CalmClear DEF ReachInv

-----------------------------------------------------------------------------

LEMMA InitReach == Init => ReachInv
<1> SUFFICES ASSUME Init PROVE ReachInv
  OBVIOUS
<1>1. ent = Tree /\ Root \in Node /\ Tree \in Entries
  BY NamespaceAssumption DEF Init, Node, Entries
<1>2. Live = Below(Tree, Root) /\ Root \in Live /\ Closed(Tree, Live) /\ Live \in SUBSET Node
  BY <1>1, LiveIs, BelowHas, BelowClosed, BelowNodes, NamespaceAssumption
<1>3. \A d \in Dir, n \in Name : Tree[d][n] \in Live \cup {None}
  BY <1>2, NamespaceAssumption DEF IsTree, Closed
<1>4. rec \subseteq Live
  BY <1>2, <1>3 DEF Init
<1>5. \A p \in Process : pc[p] = "idle"
  BY DEF Init
<1> QED BY <1>4, <1>5 DEF ReachInv, Reached, Clear

LEMMA StepReach == ASSUME NsInv, Looks, ReachInv, MovesApart, [Next]_vars PROVE ReachInv'
<1>1. CASE UNCHANGED vars
  <2>1. ent' = ent /\ man' = man /\ rec' = rec /\ pc' = pc /\ req' = req /\ plan' = plan
    BY <1>1 DEF vars
  <2>2. \A i \in TrashId : Group(i)' = Group(i)
    BY <2>1 DEF Group
  <2> QED BY <2>1, <2>2, CalmReached, CalmClear DEF ReachInv
<1>2. CASE Next
  <2>1. PICK p \in Process :
          \/ PlanCreate(p) \/ BuildCreate(p) \/ PlanDelete(p) \/ BuildDelete(p)
          \/ PlanMove(p) \/ BuildMove(p) \/ PlanTrash(p) \/ BuildTrash(p)
          \/ PlanRestore(p) \/ BuildRestore(p)
          \/ Commit(p) \/ Abandon(p) \/ Purge(p)
    BY <1>2 DEF Next
  <2>2. CASE Commit(p)
    BY <2>2, CommitKeepsReached, CommitKeepsClear DEF ReachInv
  <2>3. CASE BuildMove(p)
    BY <2>3, BuildMoveReach
  <2>4. CASE Clean(p)
    BY <2>4, CleanReach
  <2>5. CASE DropManifest(p)
    BY <2>5, DropReach
  <2> QED BY <2>1, <2>2, <2>3, <2>4, <2>5, SameReach DEF Purge
<1> QED BY <1>1, <1>2

(* No node is lost, however far a trash, a restore, a permanent deletion or a  *)
(* move has come when its process stops, unless two directories are moved at   *)
(* the same time (tree_v4.go checks each against its own path only).           *)
THEOREM NoOrphanAlways == Spec /\ []Apart => []NoOrphan
<1>1. Init => ReachInv
  BY InitReach
<1>2. NsInv /\ Looks /\ ReachInv /\ Apart /\ [Next]_vars => ReachInv'
  BY StepReach DEF Apart
<1>0. Apart => LooksApart
  BY DEF Apart
<1>3. ReachInv => NoOrphan
  BY ReachedIsNoOrphan DEF ReachInv
<1> QED BY <1>0, <1>1, <1>2, <1>3, NamespaceInductive, PTL DEF Spec

LEMMA GrowsLive ==
  ASSUME NsInv, ReachInv, [Next]_vars, NEW d \in Dir, NEW n \in Name, ent'[d][n] \notin {None, ent[d][n]}
  PROVE  d \in Live
<1>1. ~UNCHANGED ent
  OBVIOUS
<1>2. Next
  BY <1>1 DEF vars
<1>3. PICK p \in Process : Commit(p) \/ Clean(p)
  BY <1>1, <1>2, QuietSteps DEF Next, Purge
<1>4. CASE Commit(p)
  BY <1>4, CommitOrderly, StandingIsLive DEF Orderly, ReachInv
<1>5. CASE Clean(p)
  <2>1. req[p].id \in TrashId
    BY <1>5, PurgeFacts DEF Clean, Purging
  <2> QED BY <1>5, <2>1, CleanErases DEF Erases
<1> QED BY <1>3, <1>4, <1>5

(* Whatever becomes visible does so in a directory that can be reached at that *)
(* moment: one that was trashed, moved away or deleted since the path was      *)
(* resolved is noticed.                                                        *)
THEOREM AlwaysAddedToLive == Spec /\ []Apart => AddedToLive
<1> DEFINE grown == {d \in Dir : \E n \in Name : ent'[d][n] \notin {None, ent[d][n]}}
           Grows == grown # {} => grown \subseteq Live
<1>1. Init => ReachInv
  BY InitReach
<1>2. NsInv /\ Looks /\ ReachInv /\ Apart /\ [Next]_vars => ReachInv'
  BY StepReach DEF Apart
<1>0. Apart => LooksApart
  BY DEF Apart
<1>3. NsInv /\ ReachInv /\ [Next]_vars => [Grows]_vars
  BY GrowsLive
<1> QED BY <1>0, <1>1, <1>2, <1>3, NamespaceInductive, PTL DEF Spec, AddedToLive
=============================================================================
