---------------------------- MODULE TrackedEntry ----------------------------
(***************************************************************************)
(* What the connection tracker promises about one entry                    *)
(* (zicade-proxy/src/tracker.rs, `Tracked`): it is listed as open from its *)
(* start until its last handle is dropped, whatever happened to it, and it *)
(* is counted as failed once at most.  Tunnel is shown to implement this.  *)
(***************************************************************************)
EXTENDS Naturals

VARIABLES
    state,   \* Fields::state
    live,    \* the entry is in Book::open (afterwards: in the history)
    fails    \* what the entry has added to failed_requests

entryVars == <<state, live, fails>>

EntryState == {"connecting", "open", "closed", "failed"}

\* Tracked::start.
EntryInit ==
    /\ state = "connecting"
    /\ live = TRUE
    /\ fails = 0

\* set_open: only an entry that is still connecting becomes open.
SetOpen ==
    /\ live /\ state = "connecting"
    /\ state' = "open"
    /\ UNCHANGED <<live, fails>>

\* fail: the first report counts and names the reason.
Fail ==
    /\ live /\ fails = 0
    /\ state' = "failed"
    /\ fails' = 1
    /\ UNCHANGED live

\* Drop: the entry moves to the history, closed unless it failed.
CloseEntry ==
    /\ live
    /\ live' = FALSE
    /\ state' = IF state = "failed" THEN state ELSE "closed"
    /\ UNCHANGED fails

EntryNext == SetOpen \/ Fail \/ CloseEntry

EntrySpec == EntryInit /\ [][EntryNext]_entryVars
=============================================================================
