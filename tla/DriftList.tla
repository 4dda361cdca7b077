----------------------------- MODULE DriftList -----------------------------
(* The list of the drift page of the web application                           *)
(* (apps/web/app/features/drift): the snapshot of the last storage rescan, one *)
(* page of it for a query and a status filter, the rows the user ticked for an *)
(* estimate, and the rescan, which the server (internal/drift/scan.go) runs in *)
(* a goroutine and the page follows by polling.                                *)
(* A snapshot is named by the rescan that saved it.                            *)
EXTENDS Naturals, FiniteSets

CONSTANTS MaxEdits,    \* bound: changes of filters, ticks and rescans by the user
          MaxScans,    \* bound: rescans
          ListTrouble  \* bound: failed requests, failed rescans, crashes

ASSUME ListAssumption == MaxEdits \in Nat /\ MaxScans \in Nat \ {0} /\ ListTrouble \in Nat

Queries == {"", "a"}
Filters == {"all", "drifted"}
LastPage == 1          \* bound: the list has two pages
MaxFlight == 2         \* bound: list requests in flight
NoScan == 0

VARIABLES
  typed, debounce,        \* the search field and its 250 ms timer
  debouncedQuery, filter, page,    \* the query, status and offset / 50 asked for
  due, flight,            \* the 0 ms timer of loadDrift; the requests in flight
  shown, failed,          \* the list shown; loading it failed
  selected,                 \* the filters and rescan under which rows were ticked
  seen, applied,          \* the rescan shown; the completed one that was applied
  asking, begun,      \* the request for the rescan's status; that of a new one
  scan, job, snapshot,    \* the server: the rescan, its goroutine, the snapshot
  edits, faults

searching == <<typed, debounce>>
filters == <<debouncedQuery, filter, page>>
list == <<due, flight, shown, failed>>
rescan == <<seen, applied, asking, begun>>
scanner == <<scan, job, snapshot>>
lvars == <<searching, filters, list, selected, rescan, scanner, edits, faults>>

Running(s) == s.status \in {"pending", "running"}
Nothing == [id |-> NoScan, status |-> "none"]
NoList == [want |-> <<"", "", 0>>, version |-> NoScan]
Idle == [pc |-> "idle", stale |-> FALSE, seen |-> Nothing]

Want == filters
Under == <<filters, applied>>
CanScan == shown # NoList
Loading == \E r \in flight : r.latest

ListInit ==
  /\ typed = "" /\ debounce = FALSE
  /\ debouncedQuery = "" /\ filter = "all" /\ page = 0
  /\ due = TRUE /\ flight = {} /\ shown = NoList /\ failed = FALSE
  /\ selected = {}
  /\ seen = Nothing /\ applied = NoScan /\ asking = Idle /\ begun = Idle
  /\ \/ scan = Nothing /\ snapshot = NoScan
     \/ scan = [id |-> 1, status |-> "completed"] /\ snapshot = 1
  /\ job = "none" /\ edits = 0 /\ faults = 0

Edit == edits < MaxEdits /\ edits' = edits + 1
Fault == faults < ListTrouble /\ faults' = faults + 1
NoEdit == edits' = edits
NoFault == faults' = faults

-----------------------------------------------------------------------------
(* Filters *)

SetQuery ==
  /\ Edit
  /\ typed' \in Queries \ {typed}
  /\ debounce' = TRUE
  /\ NoFault /\ UNCHANGED <<filters, list, selected, rescan, scanner>>

(* The search timer.                                                           *)
Searched ==
  /\ debounce
  /\ debounce' = FALSE
  /\ debouncedQuery' = typed /\ page' = 0 /\ selected' = {} /\ due' = TRUE
  /\ NoEdit /\ NoFault
  /\ UNCHANGED <<typed, filter, flight, shown, failed, rescan, scanner>>

(* The select of the page calls setStatus and setOffset(0).                    *)
SetStatus ==
  /\ Edit
  /\ filter' \in Filters \ {filter}
  /\ page' = 0 /\ selected' = {} /\ due' = TRUE
  /\ NoFault
  /\ UNCHANGED <<searching, debouncedQuery, flight, shown, failed, rescan, scanner>>

(* Previous and Next ask what the shown list says of itself, and count from    *)
(* the page that was last asked for.                                           *)
MayPrevious == shown.want[3] > 0
MayNext == shown.want[3] < LastPage
SetOffset ==
  /\ Edit
  /\ shown # NoList /\ ~Loading
  /\ \/ MayPrevious /\ page' = (IF page = 0 THEN 0 ELSE page - 1)
     \/ MayNext /\ page' = page + 1
  /\ page' <= LastPage + 1
  /\ selected' = {} /\ due' = TRUE
  /\ NoFault
  /\ UNCHANGED <<searching, debouncedQuery, filter, flight, shown, failed, rescan, scanner>>

ToggleItem ==
  /\ Edit
  /\ shown # NoList
  /\ selected' = IF selected = {} THEN {Under} ELSE {}
  /\ NoFault /\ UNCHANGED <<searching, filters, list, rescan, scanner>>

-----------------------------------------------------------------------------
(* The list *)

Outrun(R) == {[r EXCEPT !.latest = FALSE] : r \in R}
LoadDrift ==
  /\ due /\ Cardinality(flight) < MaxFlight
  /\ due' = FALSE /\ failed' = FALSE
  /\ flight' = Outrun(flight) \cup
       {[want |-> Want, latest |-> TRUE, pc |-> "asked", version |-> NoScan]}
  /\ NoEdit /\ NoFault
  /\ UNCHANGED <<searching, filters, shown, selected, rescan, scanner>>

HandleGet(r) ==
  /\ r.pc = "asked"
  /\ flight' = (flight \ {r}) \cup {[r EXCEPT !.pc = "answered", !.version = snapshot]}
  /\ NoEdit /\ NoFault
  /\ UNCHANGED <<searching, filters, due, shown, failed, selected, rescan, scanner>>

(* The answer to a request that was overtaken is dropped.                      *)
CurrentAny(r) == TRUE
Current(r) == r.latest
Loaded(r) ==
  /\ flight' = flight \ {r}
  /\ \/ /\ r.pc = "answered" /\ NoFault
        /\ shown' = IF Current(r) THEN [want |-> r.want, version |-> r.version] ELSE shown
        /\ failed' = failed
     \/ Fault /\ failed' = (failed \/ Current(r)) /\ shown' = shown
  /\ NoEdit /\ UNCHANGED <<searching, filters, due, selected, rescan, scanner>>

-----------------------------------------------------------------------------
(* The rescan *)

(* The two intervals: one while a rescan runs, one otherwise.                  *)
LoadScan ==
  /\ CanScan /\ asking.pc = "idle"
  /\ asking' = [Idle EXCEPT !.pc = "asked"]
  /\ NoEdit /\ NoFault
  /\ UNCHANGED <<searching, filters, list, selected, seen, applied, begun, scanner>>

Kicked(s, j) == IF s.status = "pending" \/ j = "expired" THEN "kicked" ELSE j
HandleCurrent ==
  /\ asking.pc = "asked"
  /\ asking' = [asking EXCEPT !.pc = "answered", !.seen = scan]
  /\ job' = Kicked(scan, job)
  /\ NoEdit /\ NoFault
  /\ UNCHANGED <<searching, filters, list, selected, seen, applied, begun, scan, snapshot>>

(* A rescan that is seen completed for the first time reloads the list.        *)
NewsAlready(s) == s.status = "completed" /\ applied # s.id /\ Running(seen)
News(s) == s.status = "completed" /\ applied # s.id
ScanLoaded ==
  /\ asking.pc # "idle"
  /\ asking' = Idle
  /\ \/ /\ asking.pc = "answered" /\ ~asking.stale /\ NoFault
        /\ seen' = asking.seen
        /\ IF News(asking.seen)
           THEN applied' = asking.seen.id /\ page' = 0 /\ selected' = {} /\ due' = TRUE
           ELSE UNCHANGED <<applied, page, selected, due>>
     \/ /\ \/ asking.pc = "answered" /\ asking.stale /\ NoFault
           \/ Fault
        /\ UNCHANGED <<seen, applied, page, selected, due>>
  /\ NoEdit
  /\ UNCHANGED <<searching, debouncedQuery, filter, flight, shown, failed, begun, scanner>>

(* The Manual rescan, Retry rescan and Run first full scan buttons.            *)
MayScan == CanScan /\ begun.pc = "idle" /\ ~Running(seen) /\ scan.id < MaxScans
BeginScan ==
  /\ Edit /\ MayScan
  /\ begun' = [Idle EXCEPT !.pc = "asked"]
  /\ asking' = [asking EXCEPT !.stale = asking.pc # "idle"]
  /\ NoFault /\ UNCHANGED <<searching, filters, list, selected, seen, applied, scanner>>

(* StartScan: a rescan that has not ended is joined.                           *)
HandleStart ==
  /\ begun.pc = "asked"
  /\ scan' = IF Running(scan) THEN scan ELSE [id |-> scan.id + 1, status |-> "pending"]
  /\ job' = Kicked(scan', job)
  /\ begun' = [Idle EXCEPT !.pc = "answered", !.seen = scan']
  /\ NoEdit /\ NoFault
  /\ UNCHANGED <<searching, filters, list, selected, seen, applied, asking, snapshot>>
ScanBegun ==
  /\ begun.pc # "idle"
  /\ begun' = Idle
  /\ \/ begun.pc = "answered" /\ seen' = begun.seen /\ NoFault
     \/ Fault /\ seen' = seen
  /\ NoEdit /\ UNCHANGED <<searching, filters, list, selected, applied, asking, scanner>>

(* ResumeScan takes the rescan, saves the snapshot, and says so.               *)
ResumeScan ==
  /\ job = "kicked"
  /\ IF Running(scan) THEN scan' = [scan EXCEPT !.status = "running"] /\ job' = "runs"
     ELSE scan' = scan /\ job' = "none"
  /\ NoEdit /\ NoFault /\ UNCHANGED <<searching, filters, list, selected, rescan, snapshot>>
SaveSnapshot ==
  /\ job = "runs" /\ snapshot # scan.id
  /\ snapshot' = scan.id
  /\ NoEdit /\ NoFault /\ UNCHANGED <<searching, filters, list, selected, rescan, scan, job>>
EndScan ==
  /\ job = "runs"
  /\ \/ snapshot = scan.id /\ scan' = [scan EXCEPT !.status = "completed"] /\ NoFault
     \/ scan' = [scan EXCEPT !.status = "failed"] /\ Fault
  /\ job' = "none"
  /\ NoEdit /\ UNCHANGED <<searching, filters, list, selected, rescan, snapshot>>
CrashScan ==
  /\ job \in {"kicked", "runs"}
  /\ Fault
  /\ job' = IF scan.status = "running" THEN "leased" ELSE "none"
  /\ NoEdit /\ UNCHANGED <<searching, filters, list, selected, rescan, scan, snapshot>>
ScanLeaseEnds ==
  /\ job = "leased"
  /\ job' = "expired"
  /\ NoEdit /\ NoFault /\ UNCHANGED <<searching, filters, list, selected, rescan, scan, snapshot>>

Answers ==
  \/ \E r \in flight : HandleGet(r) \/ Loaded(r)
  \/ HandleCurrent \/ ScanLoaded \/ HandleStart \/ ScanBegun
ListNext ==
  \/ SetQuery \/ SetStatus \/ SetOffset \/ ToggleItem \/ BeginScan
  \/ Searched \/ LoadDrift \/ LoadScan \/ Answers
  \/ ResumeScan \/ SaveSnapshot \/ EndScan \/ CrashScan \/ ScanLeaseEnds

ListSpec == ListInit /\ [][ListNext]_lvars

-----------------------------------------------------------------------------
(* One type invariant: requests, rescans and pages are what the program makes. *)
ListTypeOK ==
  /\ Cardinality(flight) <= MaxFlight /\ Cardinality({r \in flight : r.latest}) <= 1
  /\ page \in 0..(LastPage + 1) /\ scan.id <= MaxScans
  /\ seen.id <= scan.id /\ applied <= scan.id /\ snapshot <= scan.id

(* When nothing is due or on its way and nothing failed, the list on the       *)
(* screen is that of the filters on the screen and not older than the rescan   *)
(* reported as completed, in whatever order typing, filters, rescans and       *)
(* answers came.                                                               *)
AtRestCurrent ==
  ~due /\ ~Loading /\ ~failed /\ shown # NoList =>
    shown.want = Want /\ shown.version >= applied

(* The rows chosen for an estimate were ticked under the filters and the       *)
(* rescan the page is for now: none is carried over a change of either.        *)
TicksFresh == selected \subseteq {Under}
ListInv == ListTypeOK /\ AtRestCurrent /\ TicksFresh

(* A rescan the user started ends on the screen, as a failure or as a list     *)
(* not older than it, although the process that runs it may die, unless        *)
(* loading that list failed.                                                   *)
ScanShown ==
  \A i \in 1..MaxScans :
    scan.id = i /\ scan.status = "pending" ~>
      \/ shown.version >= i
      \/ seen.id >= i /\ seen.status = "failed"
      \/ failed
=============================================================================
