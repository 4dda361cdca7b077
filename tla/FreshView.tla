------------------------------ MODULE FreshView ------------------------------
(* What every page of the web application that follows a record of the server *)
(* promises: it shows versions the record has really had, never an older one   *)
(* than it already showed, until the page is opened anew.  Version 0 stands    *)
(* for "nothing shown yet".                                                    *)
EXTENDS Naturals

VARIABLES truth,   \* the version the server holds
          view     \* the version the page shows

fvars == <<truth, view>>

Init == truth = 1 /\ view = 0

Change == truth' = truth + 1 /\ UNCHANGED view
Show == view' \in view..truth /\ UNCHANGED truth
Reopen == view' = 0 /\ UNCHANGED truth

Next == Change \/ Show \/ Reopen

Spec == Init /\ [][Next]_fvars
=============================================================================
