---------------------------- MODULE DriftActions ----------------------------
(* The physical moves of the drift page of the web application                 *)
(* (apps/web/app/features/drift): the user estimates a plan, acknowledges its  *)
(* cost and starts it; the page shows the actions of all plans, polls the      *)
(* running ones and synchronises the whole list from time to time; actions are *)
(* retried and dismissed.  The server (internal/drift/action.go) runs an       *)
(* action in a goroutine that dies with its process, and starts it again when  *)
(* a reader finds it without one.                                              *)
(* Plan p has at most the action p.                                            *)
EXTENDS Naturals, FiniteSets

CONSTANTS Plans,       \* bound: number of plans ever made
          Starts,      \* bound: number of actions ever started
          MaxTrouble   \* bound: failed requests, failed moves, crashes

ASSUME DriftAssumption == Plans \in Nat /\ Starts \in Nat /\ MaxTrouble \in Nat

Plan == 1..Plans
NoPlan == 0

VARIABLES
  made, planning,   \* plans made so far; a plan is being made
  plan, acknowledged, starting,   \* the dialog, its checkbox, the plan being started
  agreed,           \* the plans whose cost the user acknowledged, each while it was shown
  row,              \* row[p]: the status of action p the page shows
  actionList, polling, \* the list request and the round of polls
  retrying, dismissing,   \* the requests of the buttons of action p
  act, worker, hidden,    \* the server: status, goroutine and dismissal of action p
  trouble

planDialog == <<made, planning, plan, acknowledged, starting, agreed>>
actionsPage == <<row, actionList, polling, retrying, dismissing>>
server == <<act, worker, hidden>>
dvars == <<planDialog, actionsPage, server, trouble>>

Terminal == {"completed", "failed"}
Statuses == {"none", "pending", "running"} \cup Terminal
IsTerminal(status) == status \in Terminal
NoRows == [p \in Plan |-> "none"]
Rest == [pc |-> "idle", stale |-> FALSE, who |-> {}, seen |-> NoRows]

DriftInit ==
  /\ made = 0 /\ planning = FALSE /\ plan = NoPlan /\ acknowledged = FALSE
  /\ starting = NoPlan /\ agreed = {}
  /\ row = NoRows
  /\ actionList = Rest /\ polling = Rest
  /\ retrying = [p \in Plan |-> "idle"] /\ dismissing = [p \in Plan |-> "idle"]
  /\ act = NoRows /\ worker = [p \in Plan |-> "none"] /\ hidden = {}
  /\ trouble = 0

DTrouble == trouble < MaxTrouble /\ trouble' = trouble + 1
DFine == trouble' = trouble

-----------------------------------------------------------------------------
(* The dialog *)

(* The Estimate button; the dialog covers it while a plan is shown.            *)
MayEstimate == plan = NoPlan /\ ~planning /\ made < Plans
PreparePlan ==
  /\ MayEstimate
  /\ planning' = TRUE
  /\ DFine /\ UNCHANGED <<made, plan, acknowledged, starting, agreed, actionsPage, server>>

PlanKept(p) == plan' = p /\ acknowledged' = acknowledged
PlanShown(p) == plan' = p /\ acknowledged' = FALSE
PlanMade ==
  /\ planning
  /\ planning' = FALSE
  /\ \/ made' = made + 1 /\ PlanShown(made + 1) /\ DFine
     \/ DTrouble /\ UNCHANGED <<made, plan, acknowledged>>
  /\ UNCHANGED <<starting, agreed, actionsPage, server>>

Acknowledge ==
  /\ plan # NoPlan
  /\ acknowledged' = ~acknowledged
  /\ agreed' = IF acknowledged' THEN agreed \cup {plan} ELSE agreed \ {plan}
  /\ DFine /\ UNCHANGED <<made, planning, plan, starting, actionsPage, server>>

ClosePlan ==
  /\ plan # NoPlan /\ starting = NoPlan
  /\ plan' = NoPlan
  /\ DFine /\ UNCHANGED <<made, planning, acknowledged, starting, agreed, actionsPage, server>>

(* The button of the dialog starts the action and closes the dialog.           *)
MayStart ==
  /\ plan # NoPlan /\ acknowledged /\ starting = NoPlan
  /\ Cardinality({p \in Plan : act[p] # "none"}) < Starts
StartAction ==
  /\ MayStart
  /\ starting' = plan /\ plan' = NoPlan
  /\ DFine /\ UNCHANGED <<made, planning, acknowledged, agreed, actionsPage, server>>

-----------------------------------------------------------------------------
(* The server *)

Kick(w, K) == [p \in Plan |-> IF p \in K /\ w[p] \in {"none", "expired"} THEN "kicked" ELSE w[p]]
(* NeedsKick: pending, or running with a lease that ended.                     *)
NeedsKickNot == {}
NeedsKick == {p \in Plan : act[p] = "pending" \/ worker[p] = "expired"}

(* The goroutine takes the action: it takes a lease and undoes a dismissal.    *)
Resume(p) ==
  /\ worker[p] = "kicked"
  /\ act' = [act EXCEPT ![p] = "running"]
  /\ worker' = [worker EXCEPT ![p] = "runs"]
  /\ hidden' = hidden \ {p}
  /\ DFine /\ UNCHANGED <<planDialog, actionsPage>>
Execute(p) ==
  /\ worker[p] = "runs"
  /\ \/ act' = [act EXCEPT ![p] = "completed"] /\ DFine
     \/ act' = [act EXCEPT ![p] = "failed"] /\ DTrouble
  /\ worker' = [worker EXCEPT ![p] = "none"]
  /\ UNCHANGED <<planDialog, actionsPage, hidden>>
Crash(p) ==
  /\ worker[p] \in {"kicked", "runs"}
  /\ DTrouble
  /\ worker' = [worker EXCEPT ![p] = IF @ = "runs" THEN "leased" ELSE "none"]
  /\ UNCHANGED <<planDialog, actionsPage, act, hidden>>
LeaseEnds(p) ==
  /\ worker[p] = "leased"
  /\ worker' = [worker EXCEPT ![p] = "expired"]
  /\ DFine /\ UNCHANGED <<planDialog, actionsPage, act, hidden>>

-----------------------------------------------------------------------------
(* Starting, retrying and dismissing an action *)

(* markMutation: a list that is on its way must not be shown any more.         *)
Stale(l) == [l EXCEPT !.stale = l.pc # "idle"]

(* The success of a start also drops a plan made meanwhile.                    *)
Started ==
  /\ starting # NoPlan
  /\ starting' = NoPlan
  /\ \/ /\ act' = [act EXCEPT ![starting] = "pending"]
        /\ worker' = Kick(worker, {starting})
        /\ plan' = NoPlan
        /\ row' = [row EXCEPT ![starting] = "pending"]
        /\ actionList' = Stale(actionList)
        /\ DFine
     \/ DTrouble /\ UNCHANGED <<plan, row, actionList, act, worker>>
  /\ UNCHANGED <<made, planning, acknowledged, agreed, polling, retrying, dismissing, hidden>>

MayRetry(p) == row[p] = "failed" /\ retrying[p] = "idle"
RetryAction(p) ==
  /\ MayRetry(p)
  /\ retrying' = [retrying EXCEPT ![p] = "asked"]
  /\ DFine /\ UNCHANGED <<planDialog, row, actionList, polling, dismissing, server>>
(* CreateAction finds the action and kicks it; a completed one is left alone.  *)
HandleRetry(p) ==
  /\ retrying[p] = "asked"
  /\ retrying' = [retrying EXCEPT ![p] = act[p]]
  /\ IF act[p] = "completed" THEN UNCHANGED server
     ELSE /\ worker' = Kick(worker, {p}) /\ act' = act
          /\ hidden' = IF act[p] = "failed" THEN hidden \ {p} ELSE hidden
  /\ DFine /\ UNCHANGED <<planDialog, row, actionList, polling, dismissing>>
(* markDriftActionRetrying: the record may still be that of the failed run.    *)
MarkRetrying(status) == IF IsTerminal(status) THEN "pending" ELSE status
Retried(p) ==
  /\ retrying[p] # "idle"
  /\ \/ /\ retrying[p] # "asked"
        /\ row' = [row EXCEPT ![p] = MarkRetrying(retrying[p])]
        /\ actionList' = Stale(actionList) /\ DFine
     \/ DTrouble /\ UNCHANGED <<row, actionList>>
  /\ retrying' = [retrying EXCEPT ![p] = "idle"]
  /\ UNCHANGED <<planDialog, polling, dismissing, server>>

MayDismiss(p) == IsTerminal(row[p]) /\ dismissing[p] = "idle"
DismissAction(p) ==
  /\ MayDismiss(p)
  /\ dismissing' = [dismissing EXCEPT ![p] = "asked"]
  /\ DFine /\ UNCHANGED <<planDialog, row, actionList, polling, retrying, server>>
HandleDismiss(p) ==
  /\ dismissing[p] = "asked"
  /\ IF IsTerminal(act[p])
     THEN hidden' = hidden \cup {p} /\ dismissing' = [dismissing EXCEPT ![p] = "done"]
     ELSE hidden' = hidden /\ dismissing' = [dismissing EXCEPT ![p] = "refused"]
  /\ DFine /\ UNCHANGED <<planDialog, row, actionList, polling, retrying, act, worker>>
Dismissed(p) ==
  /\ dismissing[p] # "idle"
  /\ \/ /\ dismissing[p] = "done"
        /\ row' = [row EXCEPT ![p] = "none"] /\ actionList' = Stale(actionList) /\ DFine
     \/ dismissing[p] = "refused" /\ DFine /\ UNCHANGED <<row, actionList>>
     \/ DTrouble /\ UNCHANGED <<row, actionList>>
  /\ dismissing' = [dismissing EXCEPT ![p] = "idle"]
  /\ UNCHANGED <<planDialog, polling, retrying, server>>

-----------------------------------------------------------------------------
(* Following the actions *)

LoadActions ==
  /\ actionList.pc = "idle"
  /\ actionList' = [Rest EXCEPT !.pc = "asked"]
  /\ DFine /\ UNCHANGED <<planDialog, row, polling, retrying, dismissing, server>>
HandleList ==
  /\ actionList.pc = "asked"
  /\ actionList' = [actionList EXCEPT !.pc = "answered",
                   !.seen = [p \in Plan |-> IF p \in hidden THEN "none" ELSE act[p]]]
  /\ worker' = Kick(worker, NeedsKick \ hidden)
  /\ DFine /\ UNCHANGED <<planDialog, row, polling, retrying, dismissing, act, hidden>>
Listed ==
  /\ actionList.pc # "idle"
  /\ \/ /\ actionList.pc = "answered"
        /\ row' = IF actionList.stale THEN row ELSE actionList.seen
        /\ DFine
     \/ DTrouble /\ row' = row
  /\ actionList' = Rest
  /\ UNCHANGED <<planDialog, polling, retrying, dismissing, server>>

Unfinished == {p \in Plan : row[p] # "none" /\ ~IsTerminal(row[p])}
PollActions ==
  /\ polling.pc = "idle" /\ Unfinished # {}
  /\ polling' = [Rest EXCEPT !.pc = "asked", !.who = Unfinished]
  /\ DFine /\ UNCHANGED <<planDialog, row, actionList, retrying, dismissing, server>>
HandlePoll ==
  /\ polling.pc = "asked"
  /\ polling' = [polling EXCEPT !.pc = "answered", !.seen = act]
  /\ worker' = Kick(worker, NeedsKick \cap polling.who)
  /\ DFine /\ UNCHANGED <<planDialog, row, actionList, retrying, dismissing, act, hidden>>
Polled ==
  /\ polling.pc # "idle"
  /\ \/ /\ polling.pc = "answered"
        /\ row' = [p \in Plan |-> IF p \in polling.who THEN polling.seen[p] ELSE row[p]]
        /\ actionList' = Stale(actionList) /\ DFine
     \/ DTrouble /\ UNCHANGED <<row, actionList>>
  /\ polling' = Rest
  /\ UNCHANGED <<planDialog, retrying, dismissing, server>>

User ==
  \/ PreparePlan \/ Acknowledge \/ ClosePlan \/ StartAction
  \/ \E p \in Plan : RetryAction(p) \/ DismissAction(p)
Page ==
  \/ PlanMade \/ Started \/ LoadActions \/ HandleList \/ Listed
  \/ PollActions \/ HandlePoll \/ Polled
  \/ \E p \in Plan : HandleRetry(p) \/ Retried(p) \/ HandleDismiss(p) \/ Dismissed(p)
Server == \E p \in Plan : Resume(p) \/ Execute(p) \/ Crash(p) \/ LeaseEnds(p)
DriftNext == User \/ Page \/ Server

DriftSpec == DriftInit /\ [][DriftNext]_dvars

-----------------------------------------------------------------------------
(* One type invariant: rows are of actions, and the list and the polls hold    *)
(* statuses the server had.                                                    *)
DriftTypeOK ==
  /\ row \in [Plan -> Statuses] /\ act \in [Plan -> Statuses] /\ hidden \subseteq Plan
  /\ \A p \in Plan : row[p] # "none" => act[p] # "none"

(* Objects are moved only for a plan whose cost the user acknowledged while    *)
(* that plan was on the screen, and did not take back, whatever plans were     *)
(* closed, failed or replaced before.                                          *)
AcknowledgedOnly ==
  /\ acknowledged /\ plan # NoPlan => plan \in agreed
  /\ \A p \in Plan : starting = p \/ act[p] # "none" => p \in agreed
DriftInv == DriftTypeOK /\ AcknowledgedOnly

(* An action that was started reaches its end and the page says so, although   *)
(* the process that runs it may die, unless the user dismissed it: only the    *)
(* polls and the list make the server take up an action again.                 *)
MovesEnd ==
  \A p \in Plan : act[p] = "pending" ~> IsTerminal(row[p]) \/ p \in hidden
=============================================================================
