------------------------------ MODULE MCUpload ------------------------------
(* Instances of Upload for TLC.                                                *)
EXTENDS Upload

(* A handler completes two uploads and cancels the first, beside a recovery    *)
(* loop that looks for what was left.                                          *)
SagaServes ==
  [p \in Process |->
    CASE p = "client"  -> {<<"cancel", "u">>} \cup ({"write", "complete"} \X Id)
      [] p = "janitor" -> {"recover"} \X Id]

(* One upload whose chunks come to two handlers.                               *)
BytesServes ==
  [p \in Process |->
    CASE p = "client"  -> {"write", "complete", "cancel"} \X Id
      [] p = "other"   -> {"write", "status"} \X Id
      [] p = "janitor" -> {"recover"} \X Id]
=============================================================================
