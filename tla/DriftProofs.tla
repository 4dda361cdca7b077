----------------------------- MODULE DriftProofs -----------------------------
(* The drift page, for any number of plans, edits, rescans and troubles:       *)
(* objects are moved only for an acknowledged plan, and the list is the right  *)
(* one.                                                                        *)
EXTENDS DriftPage, FiniteSetTheorems, TLAPS

-----------------------------------------------------------------------------
(* Plans and moves                                                             *)

Answer == [pc : {"idle", "asked", "answered"}, stale : BOOLEAN, who : SUBSET Plan,
           seen : [Plan -> Statuses]]

DriftTypes ==
  /\ made \in Nat /\ plan \in Nat /\ starting \in Nat
  /\ acknowledged \in BOOLEAN /\ agreed \subseteq Plan
  /\ row \in [Plan -> Statuses] /\ act \in [Plan -> Statuses] /\ hidden \subseteq Plan
  /\ actionList \in Answer /\ polling \in Answer
  /\ retrying \in [Plan -> {"idle", "asked"} \cup Statuses]
  /\ worker \in [Plan -> {"none", "kicked", "runs", "leased", "expired"}]

(* Plans are numbered as they are made, and only such plans are started.       *)
PlansMade ==
  /\ made <= Plans /\ (planning => made < Plans)
  /\ plan <= made /\ starting <= made
  /\ \A p \in Plan : act[p] # "none" => p <= made

(* The plan on the screen has not been started: who takes the acknowledgement  *)
(* back does not take it from an action that runs.                             *)
ShownIsNew == plan # NoPlan => plan # starting /\ act[plan] = "none"

(* Rows, answers on their way, retries and goroutines are of actions there are. *)
AnswersReal ==
  \A p \in Plan :
    \/ row[p] # "none" \/ actionList.seen[p] # "none" \/ polling.seen[p] # "none"
    \/ retrying[p] # "idle" \/ worker[p] # "none"
    => act[p] # "none"

DriftIInv == DriftTypes /\ PlansMade /\ ShownIsNew /\ AnswersReal /\ AcknowledgedOnly

LEMMA DriftIInvImplies == DriftIInv => DriftInv
BY DEF DriftIInv, DriftTypes, AnswersReal, DriftInv, DriftTypeOK

LEMMA DriftInitially == DriftInit => DriftIInv
<1> SUFFICES ASSUME DriftInit PROVE DriftIInv
  OBVIOUS
<1> USE DriftAssumption DEF DriftInit, Plan, NoPlan
<1>1. DriftTypes
  BY DEF DriftTypes, Answer, Statuses, Terminal, Rest, NoRows
<1>2. PlansMade /\ ShownIsNew
  BY DEF PlansMade, ShownIsNew, NoRows
<1>3. AnswersReal
  BY DEF AnswersReal, Rest, NoRows
<1>4. AcknowledgedOnly
  BY DEF AcknowledgedOnly, NoRows
<1> QED BY <1>1, <1>2, <1>3, <1>4 DEF DriftIInv

-----------------------------------------------------------------------------
(* The dialog *)

LEMMA DialogKeeps ==
  ASSUME DriftIInv, PreparePlan \/ PlanMade \/ Acknowledge \/ ClosePlan \/ StartAction
  PROVE  DriftIInv'
<1> USE DriftAssumption
<1> SUFFICES DriftTypes' /\ PlansMade' /\ ShownIsNew' /\ AnswersReal' /\ AcknowledgedOnly'
  BY DEF DriftIInv
<1>u. UNCHANGED <<row, actionList, polling, retrying, worker, act, hidden>>
  BY DEF PreparePlan, PlanMade, Acknowledge, ClosePlan, StartAction, actionsPage, server
<1>a. AnswersReal'
  BY <1>u DEF DriftIInv, AnswersReal
<1>1. CASE PreparePlan
  BY <1>1, <1>u, <1>a DEF PreparePlan, MayEstimate, DriftIInv, DriftTypes, PlansMade, ShownIsNew,
     AcknowledgedOnly
<1>2. CASE PlanMade
  <2>1. CASE planning /\ made' = made + 1 /\ PlanShown(made + 1) /\ UNCHANGED <<starting, agreed>>
    <3>1. made + 1 \in Plan /\ act[made + 1] = "none" /\ starting # made + 1
      BY <2>1 DEF DriftIInv, DriftTypes, PlansMade, Plan, Statuses, Terminal
    <3>2. DriftTypes'
      <4>1. made' \in Nat /\ plan' \in Nat /\ starting' \in Nat
        BY <2>1 DEF PlanShown, DriftIInv, DriftTypes
      <4>2. acknowledged' \in BOOLEAN /\ agreed' \subseteq Plan
        BY <2>1 DEF PlanShown, DriftIInv, DriftTypes
      <4> QED BY <4>1, <4>2, <1>u DEF DriftIInv, DriftTypes
    <3>3. PlansMade'
      <4>1. /\ made \in Nat /\ starting \in Nat /\ made' = made + 1 /\ plan' = made + 1
            /\ starting' = starting /\ ~planning'
        BY <2>1, <1>2 DEF PlanMade, PlanShown, DriftIInv, DriftTypes
      <4>2. made' <= Plans /\ plan' <= made' /\ starting' <= made'
        BY <4>1, <3>1 DEF Plan, DriftIInv, PlansMade
      <4>3. \A p \in Plan : act'[p] # "none" => p <= made'
        BY <4>1, <1>u DEF Plan, DriftIInv, PlansMade
      <4> QED BY <4>1, <4>2, <4>3 DEF PlansMade
    <3>4. ShownIsNew' /\ AcknowledgedOnly'
      BY <2>1, <3>1, <1>u DEF PlanShown, DriftIInv, ShownIsNew, AcknowledgedOnly
    <3> QED BY <3>2, <3>3, <3>4, <1>a
  <2>2. CASE UNCHANGED <<made, plan, acknowledged, starting, agreed>>
    BY <2>2, <1>2, <1>u, <1>a DEF PlanMade, DriftIInv, DriftTypes, PlansMade, ShownIsNew, AcknowledgedOnly
  <2> QED BY <2>1, <2>2, <1>2 DEF PlanMade
<1>3. CASE Acknowledge
  <2>1. plan \in Plan
    BY <1>3 DEF Acknowledge, DriftIInv, DriftTypes, PlansMade, Plan, NoPlan
  <2>2. AcknowledgedOnly'
    BY <1>3, <2>1, <1>u DEF Acknowledge, DriftIInv, DriftTypes, ShownIsNew, AcknowledgedOnly
  <2> QED BY <1>3, <2>1, <2>2, <1>u, <1>a DEF Acknowledge, DriftIInv, DriftTypes, PlansMade, ShownIsNew
<1>4. CASE ClosePlan
  BY <1>4, <1>u, <1>a DEF ClosePlan, DriftIInv, DriftTypes, PlansMade, ShownIsNew, AcknowledgedOnly, NoPlan
<1>5. CASE StartAction
  BY <1>5, <1>u, <1>a DEF StartAction, MayStart, DriftIInv, DriftTypes, PlansMade, ShownIsNew,
     AcknowledgedOnly, NoPlan
<1> QED BY <1>1, <1>2, <1>3, <1>4, <1>5

-----------------------------------------------------------------------------
(* Requests and the server.  A step that starts nothing and adds no action     *)
(* keeps what the dialog needs.                                                *)

SameActions == \A p \in Plan : act'[p] # "none" <=> act[p] # "none"

LEMMA SameActionsKeep ==
  ASSUME DriftIInv, DriftTypes', AnswersReal', SameActions, UNCHANGED planDialog
  PROVE  DriftIInv'
<1>1. PlansMade'
  BY DEF DriftIInv, PlansMade, SameActions, planDialog
<1>2. ShownIsNew'
  <2>1. plan # NoPlan => plan \in Plan
    BY DriftAssumption DEF DriftIInv, DriftTypes, PlansMade, Plan, NoPlan
  <2> QED BY <2>1 DEF DriftIInv, ShownIsNew, SameActions, planDialog
<1>3. AcknowledgedOnly'
  BY DEF DriftIInv, AcknowledgedOnly, SameActions, planDialog
<1> QED BY <1>1, <1>2, <1>3 DEF DriftIInv

LEMMA StaleType == ASSUME NEW l \in Answer PROVE Stale(l) \in Answer /\ Stale(l).seen = l.seen
BY DEF Stale, Answer

LEMMA KickKeeps ==
  ASSUME NEW w \in [Plan -> {"none", "kicked", "runs", "leased", "expired"}], NEW K
  PROVE  /\ Kick(w, K) \in [Plan -> {"none", "kicked", "runs", "leased", "expired"}]
         /\ \A p \in Plan : Kick(w, K)[p] # "none" => w[p] # "none" \/ p \in K
BY DEF Kick

LEMMA NeedsKickReal ==
  ASSUME DriftIInv, NEW p \in NeedsKick PROVE act[p] # "none"
BY DEF DriftIInv, AnswersReal, NeedsKick

LEMMA StartedKeeps == ASSUME DriftIInv, Started PROVE DriftIInv'
<1> USE DriftAssumption
<1>0. starting \in Plan
  BY DEF Started, DriftIInv, DriftTypes, PlansMade, Plan, NoPlan
<1>1. CASE /\ act' = [act EXCEPT ![starting] = "pending"]
           /\ worker' = Kick(worker, {starting})
           /\ plan' = NoPlan
           /\ row' = [row EXCEPT ![starting] = "pending"]
           /\ actionList' = Stale(actionList)
  <2>1. DriftTypes'
    BY <1>0, <1>1, StaleType, KickKeeps
       DEF Started, DriftIInv, DriftTypes, NoPlan, Statuses
  <2>2. AnswersReal'
    BY <1>0, <1>1, StaleType, KickKeeps DEF Started, DriftIInv, DriftTypes, AnswersReal, Statuses
  <2>3. PlansMade' /\ ShownIsNew'
    BY <1>0, <1>1 DEF Started, DriftIInv, DriftTypes, PlansMade, ShownIsNew, NoPlan, Plan
  <2>4. AcknowledgedOnly'
    BY <1>0, <1>1 DEF Started, DriftIInv, DriftTypes, AcknowledgedOnly, NoPlan, Plan
  <2> QED BY <2>1, <2>2, <2>3, <2>4 DEF DriftIInv
<1>2. CASE UNCHANGED <<plan, row, actionList, act, worker>>
  BY <1>2 DEF Started, DriftIInv, DriftTypes, AnswersReal, PlansMade, ShownIsNew, AcknowledgedOnly,
     NoPlan, Plan
<1> QED BY <1>1, <1>2 DEF Started

LEMMA ButtonsKeep ==
  ASSUME DriftIInv, NEW p \in Plan,
         \/ RetryAction(p) \/ HandleRetry(p) \/ Retried(p)
         \/ DismissAction(p) \/ HandleDismiss(p) \/ Dismissed(p)
  PROVE  DriftIInv'
<1>1. UNCHANGED <<planDialog, act, polling>>
  BY DEF RetryAction, HandleRetry, Retried, DismissAction, HandleDismiss, Dismissed, server
<1>2. SameActions
  BY <1>1 DEF SameActions
<1>3. DriftTypes' /\ AnswersReal'
  <2>1. CASE RetryAction(p)
    <3>1. row[p] = "failed" /\ act[p] # "none"
      BY <2>1 DEF RetryAction, MayRetry, DriftIInv, AnswersReal
    <3> QED BY <2>1, <3>1, <1>1 DEF RetryAction, DriftIInv, DriftTypes, AnswersReal, planDialog, server
  <2>2. CASE HandleRetry(p)
    <3>1. act[p] # "none"
      BY <2>2 DEF HandleRetry, DriftIInv, AnswersReal
    <3>2. worker' = worker \/ worker' = Kick(worker, {p})
      BY <2>2 DEF HandleRetry, server
    <3>3. /\ worker' \in [Plan -> {"none", "kicked", "runs", "leased", "expired"}]
          /\ \A q \in Plan : worker'[q] # "none" => act[q] # "none"
      BY <3>1, <3>2, KickKeeps DEF DriftIInv, DriftTypes, AnswersReal
    <3>4. hidden' \subseteq Plan
      BY <2>2 DEF HandleRetry, DriftIInv, DriftTypes, server
    <3>5. /\ retrying' \in [Plan -> {"idle", "asked"} \cup Statuses]
          /\ \A q \in Plan : retrying'[q] # "idle" => act[q] # "none"
      BY <2>2, <3>1 DEF HandleRetry, DriftIInv, DriftTypes, AnswersReal
    <3>6. UNCHANGED <<row, actionList, polling, planDialog, act>>
      BY <2>2, <1>1 DEF HandleRetry
    <3> QED BY <3>3, <3>4, <3>5, <3>6 DEF DriftIInv, DriftTypes, AnswersReal, planDialog
  <2>3. CASE Retried(p)
    <3>1. act[p] # "none"
      BY <2>3 DEF Retried, DriftIInv, AnswersReal
    <3>2. /\ row' \in [Plan -> Statuses]
          /\ \A q \in Plan : row'[q] # "none" => act[q] # "none"
      <4>1. retrying[p] \in {"idle", "asked"} \cup Statuses
        BY DEF DriftIInv, DriftTypes
      <4>2. CASE retrying[p] # "asked" /\ row' = [row EXCEPT ![p] = MarkRetrying(retrying[p])]
        <5>1. MarkRetrying(retrying[p]) \in Statuses
          BY <4>1, <4>2, <2>3 DEF Retried, MarkRetrying, Statuses, IsTerminal, Terminal
        <5> QED BY <4>2, <5>1, <3>1 DEF DriftIInv, DriftTypes, AnswersReal
      <4>3. CASE row' = row
        BY <4>3 DEF DriftIInv, DriftTypes, AnswersReal
      <4> QED BY <4>2, <4>3, <2>3 DEF Retried
    <3>3. actionList' \in Answer /\ actionList'.seen = actionList.seen
      BY <2>3, StaleType DEF Retried, DriftIInv, DriftTypes
    <3>4. /\ retrying' \in [Plan -> {"idle", "asked"} \cup Statuses]
          /\ \A q \in Plan : retrying'[q] # "idle" => act[q] # "none"
      BY <2>3 DEF Retried, DriftIInv, DriftTypes, AnswersReal
    <3>5. UNCHANGED <<planDialog, polling, act, worker, hidden>>
      BY <2>3 DEF Retried, server
    <3> QED BY <3>2, <3>3, <3>4, <3>5 DEF DriftIInv, DriftTypes, AnswersReal, planDialog
  <2>4. CASE DismissAction(p)
    BY <2>4 DEF DismissAction, DriftIInv, DriftTypes, AnswersReal, planDialog, server
  <2>5. CASE HandleDismiss(p)
    <3>1. hidden' \subseteq Plan
      BY <2>5 DEF HandleDismiss, DriftIInv, DriftTypes
    <3> QED BY <2>5, <3>1 DEF HandleDismiss, DriftIInv, DriftTypes, AnswersReal, planDialog
  <2>6. CASE Dismissed(p)
    <3>1. /\ row' \in [Plan -> Statuses]
          /\ \A q \in Plan : row'[q] # "none" => act[q] # "none"
      BY <2>6 DEF Dismissed, DriftIInv, DriftTypes, AnswersReal, Statuses
    <3>2. actionList' \in Answer /\ actionList'.seen = actionList.seen
      BY <2>6, StaleType DEF Dismissed, DriftIInv, DriftTypes
    <3>3. UNCHANGED <<planDialog, polling, retrying, act, worker, hidden>>
      BY <2>6 DEF Dismissed, server
    <3> QED BY <3>1, <3>2, <3>3 DEF DriftIInv, DriftTypes, AnswersReal, planDialog
  <2> QED BY <2>1, <2>2, <2>3, <2>4, <2>5, <2>6
<1> QED BY <1>1, <1>2, <1>3, SameActionsKeep

LEMMA FollowingKeeps ==
  ASSUME DriftIInv,
         LoadActions \/ HandleList \/ Listed \/ PollActions \/ HandlePoll \/ Polled
  PROVE  DriftIInv'
<1>1. UNCHANGED <<planDialog, act, hidden, retrying>>
  BY DEF LoadActions, HandleList, Listed, PollActions, HandlePoll, Polled, server
<1>2. SameActions
  BY <1>1 DEF SameActions
<1>3. /\ worker' \in [Plan -> {"none", "kicked", "runs", "leased", "expired"}]
      /\ \A p \in Plan : worker'[p] # "none" => act[p] # "none"
  <2>1. worker' = worker \/ \E K \in SUBSET NeedsKick : worker' = Kick(worker, K)
    BY DEF LoadActions, HandleList, Listed, PollActions, HandlePoll, Polled, server
  <2>2. CASE worker' = worker
    BY <2>2 DEF DriftIInv, DriftTypes, AnswersReal
  <2>3. ASSUME NEW K \in SUBSET NeedsKick, worker' = Kick(worker, K)
        PROVE  <1>3!1 /\ <1>3!2
    BY <2>3, KickKeeps, NeedsKickReal DEF DriftIInv, DriftTypes, AnswersReal
  <2> QED BY <2>1, <2>2, <2>3
<1>4. /\ row' \in [Plan -> Statuses]
      /\ \A p \in Plan : row'[p] # "none" => act[p] # "none"
  <2>1. \/ row' = row \/ row' = actionList.seen
        \/ row' = [p \in Plan |-> IF p \in polling.who THEN polling.seen[p] ELSE row[p]]
    BY DEF LoadActions, HandleList, Listed, PollActions, HandlePoll, Polled
  <2> QED BY <2>1 DEF DriftIInv, DriftTypes, AnswersReal, Answer
<1>5. /\ actionList' \in Answer
      /\ \A p \in Plan : actionList'.seen[p] # "none" => act[p] # "none"
  <2>1. \/ actionList' \in {actionList, Stale(actionList), Rest, [Rest EXCEPT !.pc = "asked"]}
        \/ actionList' = [actionList EXCEPT !.pc = "answered",
                            !.seen = [p \in Plan |-> IF p \in hidden THEN "none" ELSE act[p]]]
    BY DEF LoadActions, HandleList, Listed, PollActions, HandlePoll, Polled
  <2>2. Rest \in Answer /\ [Rest EXCEPT !.pc = "asked"] \in Answer
    BY DEF Rest, Answer, NoRows, Statuses
  <2>3. [p \in Plan |-> IF p \in hidden THEN "none" ELSE act[p]] \in [Plan -> Statuses]
    BY DEF DriftIInv, DriftTypes, Statuses
  <2>4. actionList \in Answer /\ Stale(actionList) \in Answer /\ Stale(actionList).seen = actionList.seen
    BY StaleType DEF DriftIInv, DriftTypes
  <2>5. \A p \in Plan : Rest.seen[p] = "none" /\ [Rest EXCEPT !.pc = "asked"].seen[p] = "none"
    BY DEF Rest, NoRows
  <2>6. CASE actionList' \in {actionList, Stale(actionList), Rest, [Rest EXCEPT !.pc = "asked"]}
    <3>1. \A p \in Plan : actionList.seen[p] # "none" => act[p] # "none"
      BY DEF DriftIInv, AnswersReal
    <3> QED BY <2>2, <2>4, <2>5, <2>6, <3>1
  <2>7. CASE actionList' = [actionList EXCEPT !.pc = "answered",
                              !.seen = [p \in Plan |-> IF p \in hidden THEN "none" ELSE act[p]]]
    <3>1. actionList' \in Answer
      BY <2>3, <2>4, <2>7 DEF Answer
    <3>2. actionList'.seen = [p \in Plan |-> IF p \in hidden THEN "none" ELSE act[p]]
      BY <2>4, <2>7 DEF Answer
    <3> QED BY <3>1, <3>2
  <2> QED BY <2>1, <2>6, <2>7
<1>6. /\ polling' \in Answer
      /\ \A p \in Plan : polling'.seen[p] # "none" => act[p] # "none"
  <2>1. \/ polling' = polling \/ polling' = Rest
        \/ polling' = [Rest EXCEPT !.pc = "asked", !.who = Unfinished]
        \/ polling' = [polling EXCEPT !.pc = "answered", !.seen = act]
    BY DEF LoadActions, HandleList, Listed, PollActions, HandlePoll, Polled
  <2>2. Rest \in Answer /\ [Rest EXCEPT !.pc = "asked", !.who = Unfinished] \in Answer
    BY DEF Rest, Answer, NoRows, Statuses, Unfinished
  <2>3. \A p \in Plan : /\ Rest.seen[p] = "none"
                        /\ [Rest EXCEPT !.pc = "asked", !.who = Unfinished].seen[p] = "none"
    BY DEF Rest, NoRows
  <2>4. polling \in Answer /\ act \in [Plan -> Statuses]
    BY DEF DriftIInv, DriftTypes
  <2>5. CASE polling' \in {polling, Rest, [Rest EXCEPT !.pc = "asked", !.who = Unfinished]}
    <3>1. \A p \in Plan : polling.seen[p] # "none" => act[p] # "none"
      BY DEF DriftIInv, AnswersReal
    <3> QED BY <2>2, <2>3, <2>4, <2>5, <3>1
  <2>6. CASE polling' = [polling EXCEPT !.pc = "answered", !.seen = act]
    <3>1. polling' \in Answer /\ polling'.seen = act
      BY <2>4, <2>6 DEF Answer
    <3> QED BY <3>1
  <2> QED BY <2>1, <2>5, <2>6
<1>7. DriftTypes' /\ AnswersReal'
  BY <1>1, <1>3, <1>4, <1>5, <1>6 DEF DriftIInv, DriftTypes, AnswersReal, planDialog
<1> QED BY <1>1, <1>2, <1>7, SameActionsKeep

LEMMA ServerKeeps ==
  ASSUME DriftIInv, NEW p \in Plan, Resume(p) \/ Execute(p) \/ Crash(p) \/ LeaseEnds(p)
  PROVE  DriftIInv'
<1>1. worker[p] # "none" /\ act[p] # "none"
  BY DEF Resume, Execute, Crash, LeaseEnds, DriftIInv, AnswersReal
<1>2. UNCHANGED <<planDialog, actionsPage>>
  BY DEF Resume, Execute, Crash, LeaseEnds
<1>3. act' \in [Plan -> Statuses] /\ SameActions
  BY <1>1 DEF Resume, Execute, Crash, LeaseEnds, DriftIInv, DriftTypes, SameActions, Statuses, Terminal
<1>4. /\ worker' \in [Plan -> {"none", "kicked", "runs", "leased", "expired"}]
      /\ \A q \in Plan : worker'[q] # "none" => worker[q] # "none"
  BY <1>1 DEF Resume, Execute, Crash, LeaseEnds, DriftIInv, DriftTypes
<1>5. hidden' \subseteq Plan
  BY DEF Resume, Execute, Crash, LeaseEnds, DriftIInv, DriftTypes
<1>6. DriftTypes' /\ AnswersReal'
  BY <1>2, <1>3, <1>4, <1>5
     DEF DriftIInv, DriftTypes, AnswersReal, SameActions, planDialog, actionsPage
<1> QED BY <1>2, <1>3, <1>6, SameActionsKeep

-----------------------------------------------------------------------------
LEMMA DriftNextKeeps == ASSUME DriftIInv, [DriftNext]_dvars PROVE DriftIInv'
<1>1. CASE User
  BY <1>1, DialogKeeps, ButtonsKeep DEF User
<1>2. CASE Page
  BY <1>2, DialogKeeps, ButtonsKeep, StartedKeeps, FollowingKeeps DEF Page
<1>3. CASE Server
  BY <1>3, ServerKeeps DEF Server
<1>4. CASE UNCHANGED dvars
  BY <1>4 DEF dvars, planDialog, actionsPage, server, DriftIInv, DriftTypes, PlansMade, ShownIsNew,
     AnswersReal, AcknowledgedOnly
<1> QED BY <1>1, <1>2, <1>3, <1>4 DEF DriftNext

(* An action is only ever started for a plan whose cost the user acknowledged  *)
(* while it was on the screen, and every row is of an action there is.         *)
THEOREM AcknowledgedAlways == PagesSpec => []DriftInv
<1>1. PagesInit => DriftIInv
  BY DriftInitially DEF PagesInit
<1>2. DriftIInv /\ [PagesNext]_pvars => DriftIInv'
  BY DriftNextKeeps DEF PagesNext, pvars
<1>3. QED
  BY <1>1, <1>2, DriftIInvImplies, PTL DEF PagesSpec

-----------------------------------------------------------------------------
(* List, filters and rescans                                                   *)

Wants == Queries \X Filters \X (0..(LastPage + 1))
Requests == [want : Wants, latest : BOOLEAN, pc : {"asked", "answered"}, version : Nat]
Scan == [id : Nat, status : {"none", "pending", "running", "completed", "failed"}]
Asked == [pc : {"idle", "asked", "answered"}, stale : BOOLEAN, seen : Scan]

ListTypes ==
  /\ typed \in Queries /\ Want \in Wants
  /\ due \in BOOLEAN /\ failed \in BOOLEAN
  /\ flight \subseteq Requests /\ IsFiniteSet(flight) /\ Cardinality(flight) <= MaxFlight
  /\ shown = NoList \/ shown \in [want : Wants, version : Nat]
  /\ seen \in Scan /\ scan \in Scan /\ asking \in Asked /\ begun \in Asked
  /\ applied \in Nat /\ snapshot \in Nat

(* The requests that were overtaken know it.                                   *)
OneCurrent == \A r, q \in flight : r.latest /\ q.latest => r = q

(* No report is of a later rescan than the last one, ...                       *)
Numbered ==
  /\ scan.id <= MaxScans /\ (begun.pc = "asked" => scan.id < MaxScans)
  /\ seen.id <= scan.id /\ asking.seen.id <= scan.id /\ begun.seen.id <= scan.id
  /\ snapshot <= scan.id
(* ... and a rescan that any report calls completed has saved its snapshot.    *)
Completed(s) == s.status = "completed"
Saved ==
  /\ Completed(scan) => snapshot = scan.id
  /\ Completed(asking.seen) => asking.seen.id <= snapshot
  /\ applied <= snapshot

(* The answer the page waits for is for the filters on the screen, and not     *)
(* older than the rescan that was applied, unless loading is due again.        *)
Coming ==
  ~due => \A r \in flight : r.latest =>
            /\ r.want = Want
            /\ r.pc = "answered" => r.version >= applied

ListIInv ==
  ListTypes /\ OneCurrent /\ Numbered /\ Saved /\ Coming /\ AtRestCurrent /\ TicksFresh

-----------------------------------------------------------------------------
LEMMA ListIInvImplies == ListIInv => ListInv
<1> SUFFICES ASSUME ListIInv PROVE ListInv
  OBVIOUS
<1> DEFINE L == {r \in flight : r.latest}
<1>1. Cardinality(L) <= 1
  <2>1. CASE L = {}
    BY <2>1, FS_EmptySet
  <2>2. CASE L # {}
    <3>1. PICK r \in L : TRUE
      BY <2>2
    <3>2. L = {r}
      BY <3>1 DEF ListIInv, OneCurrent
    <3> QED BY <3>2, FS_Singleton
  <2> QED BY <2>1, <2>2
<1>2. page \in 0..(LastPage + 1)
  BY DEF ListIInv, ListTypes, Want, filters, Wants
<1>3. applied <= scan.id
  BY DEF ListIInv, ListTypes, Saved, Numbered, Scan
<1>4. ListTypeOK
  BY <1>1, <1>2, <1>3 DEF ListTypeOK, ListIInv, ListTypes, Numbered
<1> QED BY <1>4 DEF ListInv, ListIInv

LEMMA ListInitially == ListInit => ListIInv
<1> SUFFICES ASSUME ListInit PROVE ListIInv
  OBVIOUS
<1>s. /\ scan \in Scan /\ snapshot = scan.id /\ scan.id \in {0, 1}
      /\ seen = Nothing /\ applied = 0 /\ asking = Idle /\ begun = Idle
  <2>1. CASE scan = Nothing /\ snapshot = NoScan
    BY <2>1 DEF ListInit, NoScan, Nothing, Scan
  <2>2. CASE scan = [id |-> 1, status |-> "completed"] /\ snapshot = 1
    BY <2>2 DEF ListInit, NoScan, Scan
  <2> QED BY <2>1, <2>2 DEF ListInit
<1>n. Nothing \in Scan /\ Nothing.id = 0 /\ ~Completed(Nothing)
  BY DEF Nothing, NoScan, Scan, Completed
<1>i. Idle \in Asked /\ Idle.seen = Nothing /\ Idle.pc = "idle"
  BY <1>n DEF Idle, Asked
<1>1. ListTypes
  <2>1. IsFiniteSet(flight) /\ Cardinality(flight) <= MaxFlight /\ flight \subseteq Requests
    <3>1. flight = {}
      BY DEF ListInit
    <3> QED BY <3>1, FS_EmptySet DEF MaxFlight
  <2>2. typed \in Queries /\ Want \in Wants
    <3>1. "" \in Queries /\ "all" \in Filters /\ 0 \in 0..(LastPage + 1)
      BY DEF Queries, Filters, LastPage
    <3>2. <<"", "all", 0>> \in Wants
      BY <3>1 DEF Wants
    <3> QED BY <3>1, <3>2 DEF ListInit, Want, filters
  <2>3. shown = NoList
    BY DEF ListInit
  <2>4. due \in BOOLEAN /\ failed \in BOOLEAN
    BY DEF ListInit
  <2> QED BY <1>s, <1>n, <1>i, <2>1, <2>2, <2>3, <2>4 DEF ListTypes, Scan
<1>2. Numbered /\ Saved
  BY <1>s, <1>n, <1>i, ListAssumption DEF Numbered, Saved
<1>3. OneCurrent /\ Coming /\ AtRestCurrent /\ TicksFresh
  BY DEF ListInit, OneCurrent, Coming, AtRestCurrent, TicksFresh
<1> QED BY <1>1, <1>2, <1>3 DEF ListIInv

-----------------------------------------------------------------------------
(* Filters, ticks and rescans asked for: whatever changes what the page is     *)
(* for drops the ticks and makes loading due.                                  *)

LEMMA EditsKeep ==
  ASSUME ListIInv, SetQuery \/ Searched \/ SetStatus \/ SetOffset \/ ToggleItem
  PROVE  ListIInv'
<1>1. UNCHANGED <<flight, shown, failed, rescan, scanner>>
  BY DEF SetQuery, Searched, SetStatus, SetOffset, ToggleItem, list
<1>2. typed' \in Queries /\ Want' \in Wants /\ due' \in BOOLEAN
  <2>1. /\ typed \in Queries /\ debouncedQuery \in Queries /\ filter \in Filters
        /\ page \in 0..(LastPage + 1) /\ due \in BOOLEAN
    BY DEF ListIInv, ListTypes, Want, filters, Wants
  <2>2. CASE SetQuery
    BY <2>1, <2>2 DEF SetQuery, filters, list, Want, Wants
  <2>3. CASE Searched
    BY <2>1, <2>3 DEF Searched, Want, filters, Wants, LastPage
  <2>4. CASE SetStatus
    BY <2>1, <2>4 DEF SetStatus, searching, Want, filters, Wants, LastPage
  <2>5. CASE SetOffset
    BY <2>1, <2>5 DEF SetOffset, searching, Want, filters, Wants, LastPage
  <2>6. CASE ToggleItem
    BY <2>1, <2>6 DEF ToggleItem, searching, Want, filters, list, Wants
  <2> QED BY <2>2, <2>3, <2>4, <2>5, <2>6
<1>3. ListTypes' /\ OneCurrent' /\ Numbered' /\ Saved'
  BY <1>1, <1>2 DEF ListIInv, ListTypes, OneCurrent, Numbered, Saved, Completed, rescan, scanner
<1>4. due' \/ UNCHANGED <<due, filters>>
  BY DEF SetQuery, Searched, SetStatus, SetOffset, ToggleItem, list
<1>5. Coming' /\ AtRestCurrent'
  BY <1>1, <1>4 DEF ListIInv, Coming, AtRestCurrent, Loading, Want, rescan
<1>6. TicksFresh'
  BY <1>1, <1>4 DEF SetQuery, Searched, SetStatus, SetOffset, ToggleItem, ListIInv, TicksFresh,
     Under, filters, rescan
<1> QED BY <1>3, <1>5, <1>6 DEF ListIInv

-----------------------------------------------------------------------------
(* Loading *)

LEMMA OutrunType ==
  ASSUME NEW R \in SUBSET Requests, IsFiniteSet(R)
  PROVE  /\ Outrun(R) \subseteq Requests /\ IsFiniteSet(Outrun(R))
         /\ Cardinality(Outrun(R)) <= Cardinality(R)
         /\ \A r \in Outrun(R) : ~r.latest
<1> DEFINE f == [r \in R |-> [r EXCEPT !.latest = FALSE]]
<1>1. f \in Surjection(R, Outrun(R))
  BY DEF Surjection, Outrun
<1>2. Outrun(R) \subseteq Requests /\ \A r \in Outrun(R) : ~r.latest
  BY DEF Outrun, Requests
<1> QED BY <1>1, <1>2, FS_Surjection

LEMMA LoadDriftKeeps == ASSUME ListIInv, LoadDrift PROVE ListIInv'
<1> DEFINE new == [want |-> Want, latest |-> TRUE, pc |-> "asked", version |-> NoScan]
<1>1. flight' = Outrun(flight) \cup {new}
  BY DEF LoadDrift
<1>2. UNCHANGED <<searching, filters, shown, selected, rescan, scanner>> /\ due' = FALSE
      /\ failed' = FALSE
  BY DEF LoadDrift
<1>3. new \in Requests
  BY DEF ListIInv, ListTypes, Requests, NoScan
<1>4. /\ Outrun(flight) \subseteq Requests /\ IsFiniteSet(Outrun(flight))
      /\ Cardinality(Outrun(flight)) <= Cardinality(flight)
      /\ \A r \in Outrun(flight) : ~r.latest
  BY OutrunType DEF ListIInv, ListTypes
<1>5. IsFiniteSet(flight') /\ Cardinality(flight') <= MaxFlight
  <2>1. /\ IsFiniteSet(flight')
        /\ Cardinality(flight') <= Cardinality(Outrun(flight)) + 1
        /\ Cardinality(Outrun(flight)) \in Nat
    <3>1. Cardinality(Outrun(flight)) \in Nat
      BY <1>4, FS_CardinalityType
    <3>2. /\ IsFiniteSet(Outrun(flight) \cup {new})
          /\ \/ Cardinality(Outrun(flight) \cup {new}) = Cardinality(Outrun(flight))
             \/ Cardinality(Outrun(flight) \cup {new}) = Cardinality(Outrun(flight)) + 1
      BY <1>4, FS_AddElement
    <3> HIDE DEF new
    <3> QED BY <1>1, <3>1, <3>2
  <2>2. Cardinality(flight) \in Nat /\ Cardinality(flight) < MaxFlight
    BY FS_CardinalityType DEF LoadDrift, ListIInv, ListTypes
  <2>3. Cardinality(flight') \in Nat
    BY <2>1, FS_CardinalityType
  <2> QED BY <1>4, <2>1, <2>2, <2>3 DEF MaxFlight
<1>6. ListTypes'
  BY <1>1, <1>2, <1>3, <1>4, <1>5
     DEF ListIInv, ListTypes, Want, searching, filters, rescan, scanner
<1>7. \A r \in flight' : r.latest => r = new
  BY <1>1, <1>4
<1>8. OneCurrent'
  BY <1>7 DEF OneCurrent
<1>9. Coming'
  <2>1. new.want = Want' /\ new.pc # "answered"
    BY <1>2 DEF Want
  <2> HIDE DEF new
  <2> QED BY <1>7, <2>1 DEF Coming
<1>11. Loading'
  <2>1. new.latest /\ new \in flight'
    BY <1>1
  <2> HIDE DEF new
  <2> QED BY <2>1 DEF Loading
<1>10. Numbered' /\ Saved' /\ TicksFresh'
  BY <1>2 DEF ListIInv, Numbered, Saved, Completed, TicksFresh, Under, filters, rescan, scanner
<1> QED BY <1>6, <1>8, <1>9, <1>10, <1>11 DEF ListIInv, AtRestCurrent

LEMMA HandleGetKeeps == ASSUME ListIInv, NEW r \in flight, HandleGet(r) PROVE ListIInv'
<1> DEFINE new == [r EXCEPT !.pc = "answered", !.version = snapshot]
<1>1. flight' = (flight \ {r}) \cup {new}
  BY DEF HandleGet
<1>2. UNCHANGED <<searching, filters, due, shown, failed, selected, rescan, scanner>>
  BY DEF HandleGet
<1>3. /\ r \in Requests
      /\ new \in Requests /\ new.want = r.want /\ new.latest = r.latest
      /\ new.version = snapshot
  BY DEF ListIInv, ListTypes, Requests
<1>4. IsFiniteSet(flight') /\ Cardinality(flight') <= MaxFlight
  <2>1. /\ IsFiniteSet(flight \ {r}) /\ Cardinality(flight \ {r}) = Cardinality(flight) - 1
        /\ Cardinality(flight) \in Nat
    BY FS_RemoveElement, FS_CardinalityType DEF ListIInv, ListTypes
  <2>2. /\ IsFiniteSet(flight')
        /\ \/ Cardinality(flight') = Cardinality(flight) - 1
           \/ Cardinality(flight') = Cardinality(flight) - 1 + 1
    BY <1>1, <2>1, FS_AddElement
  <2> QED BY <2>1, <2>2 DEF ListIInv, ListTypes, MaxFlight
<1>5. ListTypes'
  BY <1>1, <1>2, <1>3, <1>4 DEF ListIInv, ListTypes, Want, searching, filters, rescan, scanner
<1>6. OneCurrent'
  BY <1>1, <1>3 DEF ListIInv, OneCurrent
<1>7. Coming'
  BY <1>1, <1>2, <1>3 DEF ListIInv, ListTypes, Coming, Saved, Want, filters, rescan
<1>8. Loading' <=> Loading
  BY <1>1, <1>3 DEF Loading
<1>9. AtRestCurrent' /\ Numbered' /\ Saved' /\ TicksFresh'
  BY <1>2, <1>8 DEF ListIInv, AtRestCurrent, Want, Numbered, Saved, Completed, TicksFresh, Under,
     filters, rescan, scanner
<1> QED BY <1>5, <1>6, <1>7, <1>9 DEF ListIInv

LEMMA LoadedKeeps == ASSUME ListIInv, NEW r \in flight, Loaded(r) PROVE ListIInv'
<1>1. UNCHANGED <<searching, filters, due, selected, rescan, scanner>> /\ flight' = flight \ {r}
  BY DEF Loaded
<1>2. r \in Requests
  BY DEF ListIInv, ListTypes
<1>3. IsFiniteSet(flight') /\ Cardinality(flight') <= MaxFlight
  <2>1. /\ IsFiniteSet(flight') /\ Cardinality(flight') = Cardinality(flight) - 1
        /\ Cardinality(flight) \in Nat
    BY <1>1, FS_RemoveElement, FS_CardinalityType DEF ListIInv, ListTypes
  <2> QED BY <2>1 DEF ListIInv, ListTypes, MaxFlight
<1>4. failed' \in BOOLEAN /\ (shown' = NoList \/ shown' \in [want : Wants, version : Nat])
  BY <1>2 DEF Loaded, Current, Requests, ListIInv, ListTypes
<1>5. ListTypes'
  BY <1>1, <1>3, <1>4 DEF ListIInv, ListTypes, Want, searching, filters, rescan, scanner
<1>6. OneCurrent' /\ Coming' /\ Numbered' /\ Saved' /\ TicksFresh'
  BY <1>1 DEF ListIInv, OneCurrent, Coming, Want, Numbered, Saved, Completed, TicksFresh, Under,
     filters, rescan, scanner
<1>7. AtRestCurrent'
  <2>1. CASE r.latest
    <3>1. CASE r.pc = "answered" /\ shown' = [want |-> r.want, version |-> r.version]
      <4>1. shown'.want = r.want /\ shown'.version = r.version
        BY <3>1
      <4>2. ~due => r.want = Want /\ r.version >= applied
        BY <2>1, <3>1 DEF ListIInv, Coming
      <4>3. Want' = Want /\ UNCHANGED <<due, applied>>
        BY <1>1 DEF Want, filters, rescan
      <4> QED BY <4>1, <4>2, <4>3 DEF AtRestCurrent
    <3>2. CASE failed'
      BY <3>2 DEF AtRestCurrent
    <3> QED BY <2>1, <3>1, <3>2 DEF Loaded, Current
  <2>2. CASE ~r.latest
    <3>1. Loading' <=> Loading
      BY <1>1, <2>2 DEF Loading
    <3>2. UNCHANGED <<shown, failed>>
      BY <2>2 DEF Loaded, Current, ListIInv, ListTypes
    <3> QED BY <1>1, <3>1, <3>2 DEF ListIInv, AtRestCurrent, Want, filters, rescan
  <2> QED BY <2>1, <2>2
<1> QED BY <1>5, <1>6, <1>7 DEF ListIInv

-----------------------------------------------------------------------------
(* The rescan *)

LEMMA ScanLoadedKeeps == ASSUME ListIInv, ScanLoaded PROVE ListIInv'
<1>1. /\ asking' = Idle
      /\ UNCHANGED <<searching, debouncedQuery, filter, flight, shown, failed, begun, scanner>>
      /\ seen' \in {seen, asking.seen}
  BY DEF ScanLoaded
<1>2. \/ UNCHANGED <<applied, page, selected, due>>
      \/ /\ Completed(asking.seen) /\ applied' = asking.seen.id
         /\ page' = 0 /\ selected' = {} /\ due' = TRUE
  BY DEF ScanLoaded, News, Completed
<1>3. Idle \in Asked /\ Idle.seen.id = 0 /\ ~Completed(Idle.seen)
  BY DEF Idle, Asked, Scan, Nothing, NoScan, Completed
<1>4. asking.seen \in Scan
  BY DEF ListIInv, ListTypes, Asked
<1>5. ListTypes'
  <2>1. /\ debouncedQuery \in Queries /\ filter \in Filters /\ page \in 0..(LastPage + 1)
    BY DEF ListIInv, ListTypes, Want, filters, Wants
  <2>0. applied \in Nat /\ due \in BOOLEAN /\ asking.seen.id \in Nat
    BY <1>4 DEF ListIInv, ListTypes, Scan
  <2>2. /\ page' \in 0..(LastPage + 1)
        /\ applied' \in Nat
        /\ due' \in BOOLEAN
    <3>1. page' \in 0..(LastPage + 1)
      BY <1>2, <2>1 DEF LastPage
    <3>2. applied' \in Nat
      BY <1>2, <2>0
    <3>3. due' \in BOOLEAN
      BY <1>2, <2>0
    <3> QED BY <3>1, <3>2, <3>3
  <2>3. Want' \in Wants
    BY <1>1, <2>1, <2>2 DEF Want, filters, Wants
  <2> QED BY <1>1, <1>3, <1>4, <2>2, <2>3 DEF ListIInv, ListTypes, searching, scanner
<1>6. Numbered' /\ Saved'
  BY <1>1, <1>2, <1>3 DEF ListIInv, ListTypes, Numbered, Saved, Completed, Scan, scanner
<1>7. OneCurrent' /\ Coming' /\ AtRestCurrent' /\ TicksFresh'
  BY <1>1, <1>2 DEF ListIInv, OneCurrent, Coming, AtRestCurrent, Loading, TicksFresh, Under, Want,
     filters
<1> QED BY <1>5, <1>6, <1>7 DEF ListIInv

LEMMA ReportsKeep ==
  ASSUME ListIInv, LoadScan \/ HandleCurrent \/ BeginScan \/ HandleStart \/ ScanBegun
  PROVE  ListIInv'
<1>1. UNCHANGED <<searching, filters, list, selected, applied, snapshot>>
  BY DEF LoadScan, HandleCurrent, BeginScan, HandleStart, ScanBegun, scanner
<1>2. /\ seen \in Scan /\ scan \in Scan /\ asking \in Asked /\ begun \in Asked
      /\ begun.seen \in Scan /\ asking.seen \in Scan /\ snapshot \in Nat /\ MaxScans \in Nat
  BY ListAssumption DEF ListIInv, ListTypes, Asked
<1>3. Idle \in Asked /\ Idle.seen.id = 0 /\ ~Completed(Idle.seen) /\ Idle.pc # "asked"
  BY DEF Idle, Asked, Scan, Nothing, NoScan, Completed
<1>4. seen' \in Scan /\ scan' \in Scan /\ asking' \in Asked /\ begun' \in Asked
      /\ Numbered' /\ Saved'
  <2>1. CASE LoadScan
    <3>1. /\ asking' \in Asked /\ asking'.seen.id = 0 /\ ~Completed(asking'.seen)
          /\ UNCHANGED <<seen, begun, scan>>
      BY <2>1, <1>3 DEF LoadScan, scanner, Asked, Idle, Scan, Nothing, NoScan, Completed
    <3> QED BY <1>1, <1>2, <3>1 DEF ListIInv, Numbered, Saved, Scan
  <2>2. CASE HandleCurrent
    <3>1. asking' \in Asked /\ asking'.seen = scan /\ UNCHANGED <<seen, begun, scan>>
      BY <2>2, <1>2 DEF HandleCurrent, Asked
    <3> QED BY <1>1, <1>2, <3>1 DEF ListIInv, Numbered, Saved, Scan, Completed
  <2>3. CASE BeginScan
    <3>1. /\ asking' \in Asked /\ asking'.seen = asking.seen
          /\ begun' \in Asked /\ begun'.seen.id = 0
          /\ UNCHANGED <<seen, scan>> /\ scan.id < MaxScans
      BY <2>3, <1>2, <1>3
         DEF BeginScan, MayScan, scanner, Asked, Idle, Scan, Nothing, NoScan
    <3> QED BY <1>1, <1>2, <3>1 DEF ListIInv, Numbered, Saved, Scan
  <2>4. CASE HandleStart
    <3>1. UNCHANGED <<seen, asking>> /\ scan.id < MaxScans
      BY <2>4 DEF HandleStart, ListIInv, Numbered
    <3>2. /\ scan' \in Scan /\ scan'.id >= scan.id /\ scan'.id <= MaxScans
          /\ ~Completed(scan')
      BY <2>4, <1>2, <3>1 DEF HandleStart, Running, Scan, Completed
    <3>3. begun' \in Asked /\ begun'.pc # "asked" /\ begun'.seen = scan'
      BY <2>4, <3>2 DEF HandleStart, Idle, Asked, Nothing
    <3> QED BY <1>1, <1>2, <3>1, <3>2, <3>3 DEF ListIInv, Numbered, Saved, Scan, Completed
  <2>5. CASE ScanBegun
    <3>1. /\ begun' = Idle /\ seen' \in {seen, begun.seen} /\ UNCHANGED <<asking, scan>>
      BY <2>5 DEF ScanBegun, scanner
    <3> QED BY <1>1, <1>2, <1>3, <3>1 DEF ListIInv, Numbered, Saved, Scan
  <2> QED BY <2>1, <2>2, <2>3, <2>4, <2>5
<1>5. ListTypes'
  BY <1>1, <1>4 DEF ListIInv, ListTypes, Want, searching, filters, list
<1>6. OneCurrent' /\ Coming' /\ AtRestCurrent' /\ TicksFresh'
  BY <1>1 DEF ListIInv, OneCurrent, Coming, AtRestCurrent, Loading, TicksFresh, Under, Want,
     filters, list
<1> QED BY <1>4, <1>5, <1>6 DEF ListIInv

LEMMA ScannerKeeps ==
  ASSUME ListIInv, ResumeScan \/ SaveSnapshot \/ EndScan \/ CrashScan \/ ScanLeaseEnds
  PROVE  ListIInv'
<1>1. UNCHANGED <<searching, filters, list, selected, rescan>>
  BY DEF ResumeScan, SaveSnapshot, EndScan, CrashScan, ScanLeaseEnds
<1>2. /\ scan \in Scan /\ snapshot \in Nat /\ snapshot <= scan.id
      /\ asking.seen \in Scan /\ applied \in Nat
  BY DEF ListIInv, ListTypes, Numbered, Asked
<1>3. /\ scan' \in Scan /\ scan'.id = scan.id
      /\ snapshot' \in {snapshot, scan.id}
      /\ Completed(scan') => snapshot' = scan.id
  BY <1>2 DEF ResumeScan, SaveSnapshot, EndScan, CrashScan, ScanLeaseEnds, Running, Completed, Scan,
     ListIInv, Saved
<1>4. ListTypes' /\ Numbered' /\ Saved'
  BY <1>1, <1>2, <1>3 DEF ListIInv, ListTypes, Numbered, Saved, Completed, Want, Scan, searching,
     filters, list, rescan
<1>5. OneCurrent' /\ Coming' /\ AtRestCurrent' /\ TicksFresh'
  BY <1>1 DEF ListIInv, OneCurrent, Coming, AtRestCurrent, Loading, TicksFresh, Under, Want,
     filters, list, rescan
<1> QED BY <1>4, <1>5 DEF ListIInv

-----------------------------------------------------------------------------
LEMMA ListNextKeeps == ASSUME ListIInv, [ListNext]_lvars PROVE ListIInv'
<1>1. CASE ListNext
  BY <1>1, EditsKeep, LoadDriftKeeps, HandleGetKeeps, LoadedKeeps, ScanLoadedKeeps, ReportsKeep,
     ScannerKeeps DEF ListNext, Answers
<1>2. CASE UNCHANGED lvars
  <2> USE <1>2 DEF lvars, searching, filters, list, rescan, scanner
  <2>1. ListTypes' /\ OneCurrent' /\ Numbered' /\ Saved'
    BY DEF ListIInv, ListTypes, OneCurrent, Numbered, Saved, Completed, Want
  <2>2. Coming' /\ AtRestCurrent' /\ TicksFresh'
    BY DEF ListIInv, Coming, AtRestCurrent, Loading, TicksFresh, Under, Want
  <2> QED BY <2>1, <2>2 DEF ListIInv
<1> QED BY <1>1, <1>2

(* At rest the list is that of the filters on the screen and not older than    *)
(* the rescan reported as completed, and no tick is carried over a change.     *)
THEOREM ListAlways == PagesSpec => []ListInv
<1>1. PagesInit => ListIInv
  BY ListInitially DEF PagesInit
<1>2. ListIInv /\ [PagesNext]_pvars => ListIInv'
  BY ListNextKeeps DEF PagesNext, pvars
<1>3. QED
  BY <1>1, <1>2, ListIInvImplies, PTL DEF PagesSpec
=============================================================================
