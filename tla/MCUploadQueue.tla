--------------------------- MODULE MCUploadQueue ---------------------------
(* Instance of UploadQueue for TLC: two rows, of which the second has no bytes. *)
EXTENDS UploadQueue

(* The abandoned requests of the first row may arrive late.                    *)
MCLingering == {1} \X {"put", "cancel"}

(* A bound on what is uploaded where: only a part of an archive with two parts *)
(* goes to path q, and nobody else writes there.                               *)
PathsApart ==
  /\ file'["q"] \in {file["q"]} \cup Key
  /\ \A k \in Key : item[k].st = "new" /\ item'[k].path = "q"
       => \E B \in batches' : k \in B /\ Cardinality(B) > 1
MCSpec == Init /\ file["q"] = Absent /\ [][Next /\ PathsApart]_vars /\ Fairness
=============================================================================
