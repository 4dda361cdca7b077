------------------------------ MODULE DriftPage ------------------------------
(* The drift page of the web application, one part at a time: its moves, and   *)
(* its list and rescan.  The parts share no state (they only meet in the rows  *)
(* ticked for an estimate, which the estimate takes as they are), so a product *)
(* of their states would show nothing more than each of them does on its own.  *)
EXTENDS DriftActions, DriftList

VARIABLE part   \* the part this behaviour is of

pvars == <<part, dvars, lvars>>

PagesInit ==
  /\ part \in {"actions", "list"}
  /\ DriftInit /\ ListInit
  /\ part = "actions" => scan = Nothing

PagesNext ==
  \/ part = "actions" /\ DriftNext /\ UNCHANGED <<part, lvars>>
  \/ part = "list" /\ ListNext /\ UNCHANGED <<part, dvars>>

(* Requests end, timers and intervals fire, leases end and goroutines run.  No *)
(* user has to do anything.                                                    *)
ActionsFairness ==
  /\ WF_dvars(part = "actions" /\ Started)
  /\ WF_dvars(part = "actions" /\ LoadActions)
  /\ WF_dvars(part = "actions" /\ HandleList)
  /\ WF_dvars(part = "actions" /\ Listed)
  /\ WF_dvars(part = "actions" /\ PollActions)
  /\ WF_dvars(part = "actions" /\ HandlePoll)
  /\ WF_dvars(part = "actions" /\ Polled)
  /\ \A p \in Plan : /\ WF_dvars(part = "actions" /\ Resume(p))
                     /\ WF_dvars(part = "actions" /\ Execute(p))
                     /\ WF_dvars(part = "actions" /\ LeaseEnds(p))
                     /\ WF_dvars(part = "actions" /\ HandleRetry(p))
                     /\ WF_dvars(part = "actions" /\ Retried(p))
                     /\ WF_dvars(part = "actions" /\ HandleDismiss(p))
                     /\ WF_dvars(part = "actions" /\ Dismissed(p))
ListFairness ==
  /\ WF_lvars(part = "list" /\ Searched)
  /\ WF_lvars(part = "list" /\ LoadDrift)
  /\ WF_lvars(part = "list" /\ LoadScan)
  /\ WF_lvars(part = "list" /\ \E r \in flight : HandleGet(r))
  /\ WF_lvars(part = "list" /\ \E r \in flight : Loaded(r))
  /\ WF_lvars(part = "list" /\ HandleCurrent)
  /\ WF_lvars(part = "list" /\ ScanLoaded)
  /\ WF_lvars(part = "list" /\ HandleStart)
  /\ WF_lvars(part = "list" /\ ScanBegun)
  /\ WF_lvars(part = "list" /\ ResumeScan)
  /\ WF_lvars(part = "list" /\ SaveSnapshot)
  /\ WF_lvars(part = "list" /\ EndScan)
  /\ WF_lvars(part = "list" /\ ScanLeaseEnds)

PagesSpec == PagesInit /\ [][PagesNext]_pvars /\ ActionsFairness /\ ListFairness
=============================================================================
