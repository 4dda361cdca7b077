--------------------------- MODULE AtomicNamespace ---------------------------
(* What the v4 metadata namespace promises to its readers: a metadata          *)
(* transaction replaces the values of all of its participant objects in one    *)
(* indivisible step, at most once, and nothing else ever changes what a reader *)
(* sees.  TreeTxn implements this with envelopes, manifests and leases.        *)

CONSTANTS Key,      \* participant objects: directory shards, nodes, manifests
          Tx,       \* transaction identifiers
          NoTx,     \* writer of the value every object starts with
          Parts     \* Parts[t]: the participants transaction t replaces

VARIABLES view,       \* view[k]: the transaction whose value a reader of k gets
          published   \* the transactions whose effect has become visible

avars == <<view, published>>

Init == /\ view = [k \in Key |-> NoTx]
        /\ published = {}

Publish(t) == /\ t \notin published
              /\ published' = published \cup {t}
              /\ view' = [k \in Key |-> IF k \in Parts[t] THEN t ELSE view[k]]

Next == \E t \in Tx : Publish(t)

Spec == Init /\ [][Next]_avars
=============================================================================
