----------------------------- MODULE MCTreeTxn -----------------------------
(* Instances of TreeTxn for TLC: two directory shards, with one lease each.    *)
(*   a, b, c   leased, without generation checks: replaceFile, deletePath, ... *)
(*   e, f      leased renamePath across directories: generations enforced      *)
(*   r, q, s   same-parent renames                                             *)
(* c, f and s touch shard 2 only, the others both.                             *)
EXTENDS TreeTxn

MCKey == {1, 2}
MCRename == Tx \cap {"r", "q", "s"}
MCFenced == Tx \cap {"e", "f"}
MCParts == [t \in Tx |-> IF t \in {"c", "f", "s"} THEN {2} ELSE {1, 2}]
MCNeeds == [t \in Tx |-> IF t \in MCRename THEN {} ELSE MCParts[t]]
=============================================================================
