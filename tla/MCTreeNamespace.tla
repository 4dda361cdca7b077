-------------------------- MODULE MCTreeNamespace --------------------------
(* Instances of TreeNamespace for TLC.                                         *)
EXTENDS TreeNamespace

MCDir == {"root", "A", "B", "C", "D"}
MCFile == {"F", "G"}
MCName == {"x", "y"}
MCShardOf == [n \in MCName |-> n]
Empty == [n \in MCName |-> None]
\* /x is A, /x/x is C with the file F at /x/x/y; /y is B
MCTree == [d \in MCDir |->
             CASE d = "root" -> [x |-> "A", y |-> "B"]
               [] d = "A"    -> [x |-> "C", y |-> None]
               [] d = "C"    -> [x |-> None, y |-> "F"]
               [] OTHER      -> Empty]

Create(path, node) == [kind |-> "create", path |-> path, node |-> node]
Delete(path) == [kind |-> "delete", path |-> path]
Move(path, to) == [kind |-> "move", path |-> path, to |-> to]
Trash(path, id) == [kind |-> "trash", path |-> path, id |-> id]
Restore(id) == [kind |-> "restore", id |-> id]
DeleteTrash(id) == [kind |-> "purge", id |-> id]

MCRequest ==
  [p \in Process |->
    CASE p = "writer"  -> {Create(<<"y", "y", "y">>, "G"), DeleteTrash("t"),
                           Create(<<"x">>, "D"), Move(<<"x", "x">>, <<"y", "x">>),
                           Move(<<"y">>, <<"x", "y">>)}
      [] p = "mover"   -> {Move(<<"x">>, <<"y", "y">>), Delete(<<"y">>),
                           Trash(<<"x", "x">>, "u")}
      [] p = "trasher" -> {Trash(<<"x">>, "t"), Trash(<<"y">>, "t")}
      [] p = "keeper"  -> {Restore("t"), Restore("u"), DeleteTrash("u")}
      [] p = "cleaner" -> {DeleteTrash("t")}]
=============================================================================
