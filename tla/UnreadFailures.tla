--------------------------- MODULE UnreadFailures ---------------------------
(***************************************************************************)
(* The session-scoped count of failed runs on the dashboard                *)
(* (scrape_runs/unread_failures.py).  Workers end runs; the dashboard      *)
(* links the newest failure; following the link moves the marker of the    *)
(* session to that failure, and what lies behind the marker is read.       *)
(*                                                                         *)
(* A worker reads the clock for finished_at first and saves the row later, *)
(* when it gets the write guard.  A request loads the session when it      *)
(* begins and saves it when it ends, so that two requests of one session   *)
(* may overlap.                                                            *)
(***************************************************************************)
EXTENDS Naturals, FiniteSets

CONSTANTS
  Tabs,            \* requests of the session that may be in flight at once
  MaxScrapeRuns,   \* bound: ScrapeRun rows; all of them are running at first
  MaxClock         \* bound: clock readings

ScrapeRunIds == 1 .. MaxScrapeRuns

ASSUME UnreadAssumption == MaxScrapeRuns \in Nat /\ MaxClock \in Nat

VARIABLES
  clock,
  scrapeRun,   \* ScrapeRun rows, and the clock their worker has read
  marker,      \* the FailureBoundary in the session
  linked,      \* runs that a dashboard has linked
  tab,         \* each request: the boundary it acknowledges, the marker it loaded
  told         \* history: failures that were behind the marker when it was set

unreadVars == <<clock, scrapeRun, marker, linked, tab, told>>

Boundary == [finished_at : 0 .. MaxClock, run_id : 0 .. MaxScrapeRuns]
NoBoundary == [finished_at |-> 0, run_id |-> 0]   \* less than every other
TabState == [pc : {"idle", "acknowledging"}, boundary : Boundary, loaded : Boundary]
NoTab == [pc |-> "idle", boundary |-> NoBoundary, loaded |-> NoBoundary]

UnreadTypeOK ==
  /\ clock \in 0 .. MaxClock
  /\ scrapeRun \in [ScrapeRunIds -> [status : {"running", "stamped", "success", "failed"},
                                     finished_at : 0 .. MaxClock]]
  /\ marker \in Boundary
  /\ linked \subseteq {r \in ScrapeRunIds : scrapeRun[r].status = "failed"}
  /\ tab \in [Tabs -> TabState]
  /\ told \subseteq ScrapeRunIds

UnreadInit ==
  /\ clock = 0
  /\ scrapeRun = [r \in ScrapeRunIds |-> [status |-> "running", finished_at |-> 0]]
  /\ marker = NoBoundary
  /\ linked = {}
  /\ tab = [t \in Tabs |-> NoTab]
  /\ told = {}

(* FailureBoundary is ordered by time, then by key.                        *)
Beyond(a, b) ==
  \/ a.finished_at > b.finished_at
  \/ a.finished_at = b.finished_at /\ a.run_id > b.run_id

BoundaryOf(r) == [finished_at |-> scrapeRun[r].finished_at, run_id |-> r]
Failed == {r \in ScrapeRunIds : scrapeRun[r].status = "failed"}

(* What unread_failure_count counts, up to the newest failure.             *)
Unread == {r \in Failed : Beyond(BoundaryOf(r), marker)}

-----------------------------------------------------------------------------
ClockTicks ==
  /\ clock < MaxClock /\ clock' = clock + 1
  /\ UNCHANGED <<scrapeRun, marker, linked, tab, told>>

StampRun(r) ==
  /\ scrapeRun[r].status = "running"
  /\ scrapeRun' = [scrapeRun EXCEPT ![r] = [status |-> "stamped", finished_at |-> clock]]
  /\ UNCHANGED <<clock, marker, linked, tab, told>>

SaveRun(r) ==
  /\ scrapeRun[r].status = "stamped"
  /\ \E status \in {"success", "failed"} : scrapeRun' = [scrapeRun EXCEPT ![r].status = status]
  /\ UNCHANGED <<clock, marker, linked, tab, told>>

(* home: latest_failure_boundary.                                          *)
NewestFailure == {r \in Failed : \A q \in Failed \ {r} : Beyond(BoundaryOf(r), BoundaryOf(q))}

ShowDashboard ==
  /\ linked' = linked \cup NewestFailure
  /\ UNCHANGED <<clock, scrapeRun, marker, tab, told>>

(* acknowledge_failure for a link of this or an older dashboard.           *)
AcknowledgedBoundary(r) == BoundaryOf(r)

BeginAcknowledge(t, r) ==
  /\ tab[t].pc = "idle"
  /\ r \in linked /\ scrapeRun[r].status = "failed"
  /\ tab' = [tab EXCEPT ![t] = [pc |-> "acknowledging", boundary |-> AcknowledgedBoundary(r),
                                loaded |-> marker]]
  /\ UNCHANGED <<clock, scrapeRun, marker, linked, told>>

AnyBoundary(t) == TRUE   \* mutant: an old link moves the marker back

IsAdvance(t) == Beyond(tab[t].boundary, tab[t].loaded)

(* The session is saved only if the marker was set.                        *)
EndAcknowledge(t) ==
  /\ tab[t].pc = "acknowledging"
  /\ marker' = IF IsAdvance(t) THEN tab[t].boundary ELSE marker
  /\ told' = told \cup {r \in Failed : ~Beyond(BoundaryOf(r), marker')}
  /\ tab' = [tab EXCEPT ![t] = NoTab]
  /\ UNCHANGED <<clock, scrapeRun, linked>>

UnreadNext ==
  \/ ClockTicks \/ ShowDashboard
  \/ \E r \in ScrapeRunIds : StampRun(r) \/ SaveRun(r)
  \/ \E t \in Tabs : EndAcknowledge(t) \/ \E r \in ScrapeRunIds : BeginAcknowledge(t, r)

UnreadSpec == UnreadInit /\ [][UnreadNext]_unreadVars

-----------------------------------------------------------------------------
(* Properties.                                                             *)

(* "never beyond it": the marker is the boundary of a failure that a       *)
(* dashboard has linked, so a failure that came after the dashboard was    *)
(* rendered stays unread when its link is followed.                        *)
MarkerWasLinked ==
  marker # NoBoundary => \E r \in linked \cap Failed : marker = BoundaryOf(r)

(* "Advance the session marker": it never moves back, so a failure that    *)
(* was read is never counted again.                                        *)
ReadStaysRead == [][\A r \in Failed : r \notin Unread => r \notin Unread']_unreadVars

(* docs/MILESTONES.md:68: "Dashboard Failed runs counts session-unread     *)
(* FAILED runs": a failure that was not there when the marker was set is   *)
(* counted.                                                                *)
NewFailuresAreCounted == \A r \in Failed : r \in told \/ r \in Unread
=============================================================================
