------------------------------- MODULE Discovery -------------------------------
(***************************************************************************)
(* Source discovery of one company: the background task run_discovery, the *)
(* candidates and adapter checks it leaves behind, and the web requests    *)
(* that confirm, ignore, restore and revalidate candidates meanwhile       *)
(* (discovery/service.py, views.py, presentation.py).                      *)
(*                                                                         *)
(* A candidate is named by its logical identity, platform and tenant, as   *)
(* the code compares sources; two spellings of one identity are not told   *)
(* apart. Every stored URL passes the validation of its adapter. The       *)
(* candidates that are no registered source (official sites, careers       *)
(* pages, unknown platforms) only matter to the final status, and what     *)
(* search and crawl return is arbitrary. A task writes its candidates in   *)
(* the steps below, without a transaction around them; each step is taken  *)
(* as one.                                                                 *)
(***************************************************************************)
EXTENDS Naturals, FiniteSets, Sequences

CONSTANTS
  Idents,             \* logical identities of sources
  Platforms,          \* registered adapters with discovery hints
  Platform,           \* of each identity
  Aliased,            \* platforms with a second query for an alias (Darwinbox)
  Covers,             \* the platforms that each inventory query names
  MaxQueries,         \* SOURCE_DISCOVERY_SEARCH_MAX_QUERIES
  Users,              \* concurrent web requests
  MaxRuns, MaxEvents  \* bounds of the model

ASSUME DiscoveryAssumption ==
  /\ Platform \in [Idents -> Platforms] /\ Aliased \subseteq Platforms
  /\ Covers \in Seq(SUBSET Platforms)
  /\ MaxQueries \in Nat /\ MaxQueries >= 2
  /\ MaxRuns \in Nat /\ MaxEvents \in Nat

VARIABLES
  source,     \* CompanySource rows of the company
  run,        \* DiscoveryRun rows
  cand,       \* DiscoveryCandidate rows of kind SOURCE, per run and identity
  check,      \* DiscoveryAdapterCheck rows, per run and platform
  task,       \* locals of run_discovery
  web,        \* per request: what it loaded
  clicks, mishaps   \* bounded together: user requests; crashes and failed saves

vars == <<source, run, cand, check, task, web, clicks, mishaps>>
counters == <<clicks, mishaps>>

Runs == 1 .. MaxRuns
\* active and inactive sources are approved; blocked stands for rejected too.
SourceStates == {"absent", "active", "inactive", "blocked"}
Finals == {"connected", "already_connected", "needs_review", "unsupported",
           "not_found", "failed"}
RunStates == {"none", "running"} \cup Finals
Decisions == {"selected", "connected", "already_connected", "needs_review", "rejected"}
Checks == {"none", "found", "already_connected", "not_found", "not_checked",
           "search_failed"}

NoCand == [decision |-> "none", linked |-> FALSE, ignored |-> FALSE]
Candidate == [decision : Decisions, linked : BOOLEAN, ignored : BOOLEAN]

Phases == {"idle", "sources", "previous", "general", "crawl", "record", "inventory",
           "persist", "sweep", "covered", "decide", "finish"}
Idle == [pc |-> "idle", run |-> 0, domain |-> FALSE, plan |-> "none", results |-> {},
         fresh |-> {}, det |-> [i \in Idents |-> "none"], asked |-> 0,
         covered |-> {}, used |-> 0, status |-> "running", handled |-> FALSE,
         created |-> FALSE,
         looked |-> {}]   \* history: the platforms really looked for
Away == [op |-> "none", run |-> 0, ident |-> CHOOSE i \in Idents : TRUE, done |-> FALSE,
         decision |-> "none"]

Init ==
  /\ source \in [Idents -> SourceStates]
  /\ run = [r \in Runs |-> [status |-> "none", finished |-> FALSE]]
  /\ cand = [r \in Runs |-> [i \in Idents |-> NoCand]]
  /\ check = [r \in Runs |-> [p \in Platforms |-> "none"]]
  /\ task = Idle /\ web = [u \in Users |-> Away]
  /\ clicks = 0 /\ mishaps = 0

-----------------------------------------------------------------------------
(* Rows.                                                                   *)
Present(i) == source[i] # "absent"   \* _equivalent_company_source
Row(i) == cand[task.run][i]

Settled == {"already_connected", "connected", "needs_review", "rejected"}

(* What _upsert_source_candidate writes without a given decision.          *)
Retained(i) ==
  [decision |-> IF Row(i).decision \in Settled THEN Row(i).decision
                ELSE IF Present(i) THEN "already_connected" ELSE "selected",
   linked |-> Present(i), ignored |-> Row(i).ignored]

(* What it writes for a detection of the crawl or of the search inventory. *)
Detected(i) ==
  [decision |-> IF Present(i) THEN "already_connected" ELSE "needs_review",
   linked |-> Present(i), ignored |-> Row(i).ignored]

SeedDecision(i) ==
  CASE source[i] = "active" -> "already_connected"
    [] source[i] = "blocked" -> "rejected"
    [] OTHER -> "needs_review"

Put(rows) == [cand EXCEPT ![task.run] = [i \in Idents |->
                IF i \in DOMAIN rows THEN rows[i] ELSE @[i]]]

PlatformsOf(found) == {Platform[i] : i \in found}

(* A platform that is known to be connected is not downgraded.             *)
MarkFound(found) ==
  [check EXCEPT ![task.run] = [p \in Platforms |->
     IF p \in PlatformsOf(found) /\ @[p] # "already_connected" THEN "found" ELSE @[p]]]

Incomplete(r) == \E p \in Platforms : check[r][p] \in {"not_checked", "search_failed"}

Go(phase) == task' = [task EXCEPT !.pc = phase]
Ended(status) ==   \* only these locals are still of use
  [Idle EXCEPT !.pc = "finish", !.run = task.run, !.status = status,
               !.handled = task.handled, !.created = task.created,
               !.looked = task.looked]
Conclude(status) == task' = Ended(status)

-----------------------------------------------------------------------------
(* The task starts: _active_discoveries admits one per company.            *)
Created == {r \in Runs : run[r].status # "none"}

Start(domain) ==
  /\ task.pc = "idle" /\ Cardinality(Created) < MaxRuns
  /\ LET r == Cardinality(Created) + 1 IN
     /\ run' = [run EXCEPT ![r].status = "running"]
     /\ task' = [Idle EXCEPT !.pc = "sources", !.run = r, !.domain = domain]
  /\ UNCHANGED <<source, cand, check, web, counters>>

(* _seed_source_inventory, first half: one check per adapter and one       *)
(* candidate per stored source; of several sources of one platform the     *)
(* last one determines the check.                                          *)
SeedSources ==
  /\ task.pc = "sources" /\ Go("previous")
  /\ cand' = Put([i \in {j \in Idents : Present(j)} |->
                    [decision |-> SeedDecision(i), linked |-> TRUE, ignored |-> FALSE]])
  /\ \E last \in {f \in [Platforms -> Idents \cup {"none"}] :
                    \A p \in Platforms :
                      LET own == {i \in Idents : Present(i) /\ Platform[i] = p}
                      IN IF own = {} THEN f[p] = "none" ELSE f[p] \in own} :
       check' = [check EXCEPT ![task.run] = [p \in Platforms |->
                   IF last[p] = "none" THEN "not_checked"
                   ELSE IF source[last[p]] = "active" THEN "already_connected"
                   ELSE "found"]]
  /\ UNCHANGED <<source, run, web, counters>>

(* Second half: the candidates of all earlier runs that were not rejected, *)
(* unless their platform is connected.                                     *)
Previous ==
  {i \in Idents :
     /\ check[task.run][Platform[i]] # "already_connected"
     /\ \E r \in Runs \ {task.run} : cand[r][i].decision \notin {"none", "rejected"}}

SeedPrevious ==
  /\ task.pc = "previous"
  /\ cand' = Put([i \in Previous |-> Retained(i)])
  /\ check' = MarkFound(Previous)
  /\ Go(IF task.domain THEN "crawl" ELSE "general")
  /\ UNCHANGED <<source, run, web, counters>>

-----------------------------------------------------------------------------
(* search_once: results are cached, and only results count as used.        *)
OneSearchMore == task.used <= MaxQueries   \* mutant: off by one
MaySearch == task.used < MaxQueries

(* The two general queries; without any result the run fails.              *)
SearchGeneral(found) ==
  /\ task.pc = "general"
  /\ task' = [task EXCEPT !.used = 2, !.results = found, !.pc = "crawl"]
  /\ UNCHANGED <<source, run, cand, check, web, counters>>

(* No plausible official site: only the sweep, when there was a search.    *)
NoOfficialSite(status) ==
  /\ task.pc = "crawl" /\ status \in {"needs_review", "not_found"}
  /\ IF task.domain THEN Conclude(status)
     ELSE task' = [task EXCEPT !.status = status, !.plan = "none", !.pc = "sweep"]
  /\ UNCHANGED <<source, run, cand, check, web, counters>>

CrawlUnreachable ==
  /\ task.pc = "crawl"
  /\ task' = [task EXCEPT !.plan = "fallback", !.pc = "inventory"]
  /\ UNCHANGED <<source, run, cand, check, web, counters>>

CrawlUnconfirmed ==
  /\ task.pc = "crawl" /\ Conclude("needs_review")
  /\ UNCHANGED <<source, run, cand, check, web, counters>>

CrawlPages(det) ==
  /\ task.pc = "crawl"
  /\ task' = [task EXCEPT !.plan = "pages", !.det = det, !.pc = "record"]
  /\ UNCHANGED <<source, run, cand, check, web, counters>>

Detections == {i \in Idents : task.det[i] # "none"}

(* _record_crawled_detections; a crawl from a given domain then completes  *)
(* the checks, a search continues with the inventory.                      *)
RecordDetections ==
  /\ task.pc = "record"
  /\ cand' = Put([i \in Detections |-> Detected(i)])
  /\ IF task.domain
     THEN /\ check' = [MarkFound(Detections) EXCEPT ![task.run] =
                         [p \in Platforms |-> IF @[p] = "not_checked" THEN "not_found"
                                              ELSE @[p]]]
          /\ task' = [task EXCEPT !.pc = "decide", !.looked = Platforms]
     ELSE /\ check' = MarkFound(Detections)
          /\ Go("inventory")
  /\ UNCHANGED <<source, run, web, counters>>

-----------------------------------------------------------------------------
(* The inventory queries, one at a time; one that fails or is over the     *)
(* budget is passed over.                                                  *)
NextQuery == task.pc = "inventory" /\ task.asked < Len(Covers)

QueryAnswers(found) ==
  /\ NextQuery /\ MaySearch
  /\ task' = [task EXCEPT !.asked = @ + 1, !.used = @ + 1,
                          !.results = @ \cup found, !.fresh = @ \cup found,
                          !.covered = @ \cup Covers[task.asked + 1],
                          !.looked = @ \cup Covers[task.asked + 1]]
  /\ UNCHANGED <<source, run, cand, check, web, counters>>

QueryFails ==
  /\ NextQuery
  /\ task' = [task EXCEPT !.asked = @ + 1]
  /\ UNCHANGED <<source, run, cand, check, web, counters>>

(* All are asked. Without any fallback result, of a source or not, there   *)
(* is nothing to persist.                                                  *)
Answered == task.used > IF task.domain THEN 0 ELSE 2

InventoryDone ==
  /\ task.pc = "inventory" /\ ~ NextQuery
  /\ \/ task.plan = "pages" /\ Go("persist")
     \/ task.plan = "fallback" /\ Answered /\ Go("persist")
     \/ task.plan = "fallback" /\ task.fresh = {} /\ Conclude("needs_review")
  /\ UNCHANGED <<source, run, cand, check, web, counters>>

(* _persist_search_inventory_candidates, of the fallback results or of all.*)
PersistInventory ==
  /\ task.pc = "persist"
  /\ LET found == IF task.plan = "fallback" THEN task.fresh ELSE task.results IN
     /\ cand' = Put([i \in found |-> Detected(i)])
     /\ check' = MarkFound(found)
  /\ task' = [task EXCEPT !.pc = IF task.domain THEN "covered" ELSE "sweep",
                          !.fresh = {}, !.asked = 0]
  /\ UNCHANGED <<source, run, web, counters>>

-----------------------------------------------------------------------------
(* _adapter_sweep: the platforms without a finding, in a fixed order that  *)
(* does not matter but for the budget. used = history is what search_once  *)
(* counts.                                                                 *)
Unswept(p) ==
  task.pc = "sweep" /\ check[task.run][p] = "not_checked"
Named(p) == {i \in task.results : Platform[i] = p}

SetCheck(p, status) == [check EXCEPT ![task.run][p] = status]

SweepFromResults(p) ==
  /\ Unswept(p) /\ Named(p) # {}
  /\ cand' = Put([i \in Named(p) |-> Retained(i)])
  /\ check' = SetCheck(p, "found")
  /\ UNCHANGED <<source, run, task, web, counters>>

(* One query, or two when the first finds nothing and there is an alias.   *)
MaySweep(p, queries) ==
  /\ Unswept(p) /\ Named(p) = {} /\ MaySearch
  /\ queries = 1 \/ (queries = 2 /\ p \in Aliased /\ task.used + 1 < MaxQueries)

SweepQuery(p, found, queries) ==
  /\ MaySweep(p, queries)
  /\ task' = [task EXCEPT !.used = @ + queries, !.looked = @ \cup {p}]
  /\ cand' = Put([i \in found |-> Retained(i)])
  /\ check' = SetCheck(p, IF found = {} THEN "not_found" ELSE "found")
  /\ UNCHANGED <<source, run, web, counters>>

FailureIsNoAnswer(p, queries) ==   \* mutant: a failed query counts as one without a result
  /\ MaySweep(p, queries)
  /\ task' = [task EXCEPT !.used = @ + queries - 1]
  /\ check' = SetCheck(p, "not_found")
  /\ UNCHANGED <<source, run, cand, web, counters>>

(* A failed query costs nothing of the budget; the next adapter is tried.  *)
SweepFails(p, queries) ==
  /\ MaySweep(p, queries)
  /\ task' = [task EXCEPT !.used = @ + queries - 1]
  /\ check' = SetCheck(p, "search_failed")
  /\ UNCHANGED <<source, run, cand, web, counters>>

(* Without a finding the tenant that the alias suggests is crawled, after  *)
(* an alias query that failed as well; only runs that have crawled can.    *)
SweepProbe(p, found, queries, failures) ==
  /\ MaySweep(p, queries) /\ p \in Aliased /\ task.plan # "none" /\ found # {}
  /\ failures < queries
  /\ task' = [task EXCEPT !.used = @ + queries - failures]
  /\ cand' = Put([i \in found |-> Detected(i)])
  /\ check' = SetCheck(p, "found")
  /\ UNCHANGED <<source, run, web, counters>>

SweepDone ==
  /\ task.pc = "sweep"
  /\ \A p \in Platforms : Unswept(p) => Named(p) = {} /\ ~ MaySearch
  /\ IF task.plan = "none" THEN Conclude(task.status)
     ELSE task' = [task EXCEPT !.pc = "covered", !.results = {}, !.used = 0]
  /\ UNCHANGED <<source, run, cand, check, web, counters>>

(* _mark_inventory_covered_checks.                                         *)
CoverEverything == Platforms   \* mutant: every inventory query covers them all
CoveredPlatforms == task.covered

MarkCovered ==
  /\ task.pc = "covered"
  /\ check' = [check EXCEPT ![task.run] = [p \in Platforms |->
                 IF p \in CoveredPlatforms /\ @[p] = "not_checked"
                 THEN "not_found" ELSE @[p]]]
  /\ IF task.plan = "fallback" THEN Conclude("needs_review")
     ELSE task' = [task EXCEPT !.pc = "decide", !.covered = {}]
  /\ UNCHANGED <<source, run, cand, web, counters>>
-----------------------------------------------------------------------------
(* The outcome. _connect: one strong detection of one clear official site  *)
(* is connected, or the source it has already is reported.                 *)
Strong == {i \in Idents : task.det[i] = "strong"}

Connection(i) ==
  CASE source[i] = "absent" -> "connected"
    [] source[i] = "blocked" -> "rejected"
    [] OTHER -> "already_connected"

AlwaysActive(i) == "active"   \* mutant: an existing source is switched on again
AfterConnect(i) == IF Present(i) THEN source[i] ELSE "active"

Connect(i) ==
  /\ task.pc = "decide" /\ Strong = {i}
  /\ cand' = Put([j \in {i} |-> [decision |-> Connection(i), linked |-> TRUE,
                                 ignored |-> Row(i).ignored]])
  /\ source' = [source EXCEPT ![i] = AfterConnect(i)]
  /\ task' = [Ended(IF Connection(i) = "rejected" THEN "needs_review" ELSE Connection(i))
                EXCEPT !.created = ~ Present(i)]
  /\ UNCHANGED <<run, check, web, counters>>

SourceCandidates(r) == {i \in Idents : cand[r][i] # NoCand}

(* Nothing is connected. careers: only unknown careers pages were found.   *)
Undecided(careers) ==
  /\ task.pc = "decide"
  /\ Conclude(IF SourceCandidates(task.run) # {} THEN "needs_review"
              ELSE IF careers THEN "unsupported" ELSE "not_found")
  /\ UNCHANGED <<source, run, cand, check, web, counters>>

(* _finish: what the candidates and the checks make of the status.         *)
AllConnected(r) ==
  /\ SourceCandidates(r) # {}
  /\ \A i \in SourceCandidates(r) :
       cand[r][i].linked /\ cand[r][i].decision = "already_connected"

FinalStatus(r, status) ==
  IF status = "failed" THEN "failed"
  ELSE IF Incomplete(r) THEN "needs_review"
  ELSE IF AllConnected(r) THEN "already_connected" ELSE status

Finish ==
  /\ task.pc = "finish"
  /\ run' = [run EXCEPT ![task.run] =
               [status |-> FinalStatus(task.run, task.status), finished |-> TRUE]]
  /\ task' = Idle
  /\ UNCHANGED <<source, cand, check, web, counters>>

RaiseUnhandled ==   \* mutant: the exception ends the task
  /\ task.pc \notin {"idle", "finish"} /\ task' = Idle
  /\ UNCHANGED <<source, run, cand, check, web, counters>>

(* Any exception before the end: the run is to be finished as failed.      *)
Raise ==
  /\ task.pc \notin {"idle", "finish"}
  /\ task' = [Ended("failed") EXCEPT !.handled = TRUE]
  /\ UNCHANGED <<source, run, cand, check, web, counters>>

(* The save in _finish fails. Inside the try it is handled like any other  *)
(* exception; in the handler it ends the task.                             *)
FinishFails ==
  /\ task.pc = "finish" /\ clicks + mishaps < MaxEvents /\ mishaps' = mishaps + 1
  /\ task' = IF task.handled THEN Idle
             ELSE [task EXCEPT !.status = "failed", !.handled = TRUE]
  /\ UNCHANGED <<source, run, cand, check, web, clicks>>

Crash ==
  /\ clicks + mishaps < MaxEvents /\ mishaps' = mishaps + 1
  /\ task' = Idle /\ web' = [u \in Users |-> Away]
  /\ UNCHANGED <<source, run, cand, check, clicks>>

-----------------------------------------------------------------------------
(* The web requests. A page shows candidates of runs that are over and did *)
(* not fail; it may be out of date when its button is pressed.             *)
Shown(r) == run[r].status \notin {"none", "running", "failed"}

Free(u) == web[u].op = "none" /\ clicks + mishaps < MaxEvents
Click == clicks' = clicks + 1
Load(u, op, r, i) ==
  web' = [web EXCEPT ![u] = [Away EXCEPT !.op = op, !.run = r, !.ident = i]]
Leave(u) == web' = [web EXCEPT ![u] = Away]
Mine(u) == cand[web[u].run][web[u].ident]
Save(u, row) == cand' = [cand EXCEPT ![web[u].run][web[u].ident] = row]

(* present_candidate: can_connect or can_confirm.                          *)
Connectable(r, i) ==
  /\ ~ cand[r][i].ignored /\ cand[r][i].decision \notin {"none", "rejected"}
  /\ source[i] \in {"absent", "inactive"}

BeginConfirm(u, r, i) ==
  /\ Free(u) /\ Click /\ Shown(r) /\ Connectable(r, i)
  /\ Load(u, "confirm", r, i)
  /\ UNCHANGED <<source, run, cand, check, task, mishaps>>

(* confirm_candidate loads the candidate again, and finds the source,      *)
(* reactivates it, or creates it.                                          *)
ConfirmSource(u) ==
  /\ web[u].op = "confirm"
  /\ LET i == web[u].ident IN
     IF source[i] = "blocked" \/ Mine(u).ignored THEN Leave(u) /\ UNCHANGED source
     ELSE /\ source' = [source EXCEPT ![i] = "active"]
          /\ web' = [web EXCEPT ![u].op = "link", ![u].done = source[i] # "active",
               ![u].decision = IF Present(i) THEN "already_connected" ELSE "connected"]
  /\ UNCHANGED <<run, cand, check, task, counters>>

(* It then saves the candidate and its run, whatever became of them; a     *)
(* source that was deleted meanwhile violates the foreign key.             *)
ConfirmCandidate(u) ==
  /\ web[u].op = "link" /\ Leave(u)
  /\ IF Present(web[u].ident)
     THEN /\ Save(u, [Mine(u) EXCEPT !.linked = TRUE, !.decision = web[u].decision])
          /\ run' = [run EXCEPT ![web[u].run].status =
                       IF web[u].done THEN "connected" ELSE "already_connected"]
     ELSE UNCHANGED <<cand, run>>
  /\ UNCHANGED <<source, check, task, counters>>

(* set_candidate_ignored and revalidate_candidate: load, check, save.      *)
BeginIgnore(u, r, i, op) ==
  /\ Free(u) /\ Click /\ Shown(r) /\ op \in {"ignore", "restore"}
  /\ cand[r][i] # NoCand /\ ~ cand[r][i].linked
  /\ Load(u, op, r, i)
  /\ UNCHANGED <<source, run, cand, check, task, mishaps>>

SaveIgnored(u) ==
  /\ web[u].op \in {"ignore", "restore"} /\ Leave(u)
  /\ Save(u, [Mine(u) EXCEPT !.ignored = (web[u].op = "ignore")])
  /\ UNCHANGED <<source, run, check, task, counters>>

BeginRevalidate(u, r, i) ==
  /\ Free(u) /\ Click /\ Shown(r) /\ cand[r][i].decision \notin {"none", "rejected"}
  /\ Load(u, "revalidate", r, i)
  /\ UNCHANGED <<source, run, cand, check, task, mishaps>>

SaveRevalidated(u) ==
  /\ web[u].op = "revalidate" /\ Leave(u)
  /\ Save(u, [Mine(u) EXCEPT !.decision = "selected"])
  /\ UNCHANGED <<source, run, check, task, counters>>

(* The management views: sources are added, deleted and switched. Deleting *)
(* one unlinks its candidates.                                             *)
ManageSource(i) ==
  /\ clicks + mishaps < MaxEvents /\ Click
  /\ \/ source[i] = "absent" /\ source' = [source EXCEPT ![i] = "active"]
        /\ UNCHANGED cand
     \/ source[i] \in {"active", "inactive"} /\ UNCHANGED cand
        /\ source' = [source EXCEPT ![i] = IF @ = "active" THEN "inactive" ELSE "active"]
     \/ Present(i) /\ source' = [source EXCEPT ![i] = "absent"]
        /\ cand' = [r \in Runs |-> [cand[r] EXCEPT ![i].linked = FALSE]]
  /\ UNCHANGED <<run, check, task, web, mishaps>>

-----------------------------------------------------------------------------
TaskStep ==
  \/ SeedSources \/ SeedPrevious
  \/ \E found \in (SUBSET Idents) : SearchGeneral(found) \/ QueryAnswers(found)
  \/ \E status \in Finals : NoOfficialSite(status)
  \/ CrawlUnreachable \/ CrawlUnconfirmed
  \/ \E det \in [Idents -> {"none", "weak", "strong"}] : CrawlPages(det)
  \/ RecordDetections
  \/ QueryFails \/ InventoryDone \/ PersistInventory
  \/ \E p \in Platforms, queries \in {1, 2} :
       \/ SweepFromResults(p) \/ SweepFails(p, queries)
       \/ \E found \in SUBSET {i \in Idents : Platform[i] = p} :
            \/ SweepQuery(p, found, queries)
            \/ \E failures \in {0, 1} : SweepProbe(p, found, queries, failures)
  \/ SweepDone \/ MarkCovered
  \/ \E i \in Idents : Connect(i)
  \/ \E careers \in BOOLEAN : Undecided(careers)
  \/ Finish \/ Raise

WebStep ==
  \/ \E u \in Users, r \in Runs, i \in Idents :
       \/ BeginConfirm(u, r, i) \/ BeginRevalidate(u, r, i)
       \/ \E op \in {"ignore", "restore"} : BeginIgnore(u, r, i, op)
  \/ \E u \in Users :
       \/ ConfirmSource(u) \/ ConfirmCandidate(u)
       \/ SaveIgnored(u) \/ SaveRevalidated(u)
  \/ \E i \in Idents : ManageSource(i)

Next ==
  \/ TaskStep \/ WebStep \/ FinishFails \/ Crash
  \/ \E domain \in BOOLEAN : Start(domain)

Spec == Init /\ [][Next]_vars /\ WF_vars(TaskStep)

-----------------------------------------------------------------------------
DiscoveryTypeOK ==
  /\ source \in [Idents -> SourceStates]
  /\ run \in [Runs -> [status : RunStates, finished : BOOLEAN]]
  /\ cand \in [Runs -> [Idents -> Candidate \cup {NoCand}]]
  /\ check \in [Runs -> [Platforms -> Checks]]
  /\ task.pc \in Phases /\ task.used \in 0 .. MaxQueries

(* company_candidate_presentations: of the newest run that knows the       *)
(* source, a complete one if there is one, unless it is ignored, rejected, *)
(* or connected already.                                                   *)
Knows(r, i) == Shown(r) /\ cand[r][i] # NoCand
NewerRun(r, s) == (Incomplete(s) /\ ~ Incomplete(r)) \/ (Incomplete(r) = Incomplete(s) /\ r > s)

Published ==
  {i \in Idents : \E r \in Runs :
     /\ Knows(r, i) /\ \A s \in Runs \ {r} : Knows(s, i) => NewerRun(r, s)
     /\ Connectable(r, i)}

(* discovery/service.py:2072, 2622: the approval and active state of an    *)
(* existing source are preserved; only a user may confirm an inactive      *)
(* source into an active one, and nobody an unapproved one.                *)
ApprovalIsPreserved ==
  [][clicks' = clicks => \A i \in Idents : source'[i] # source[i] =>
       \/ source[i] = "absent"
       \/ source[i] = "inactive" /\ \E u \in Users : web[u].op = "confirm"]_vars

(* A finished run that reports a platform as not found has had an answer   *)
(* from a query about it or a complete crawl: failed, skipped and          *)
(* exhausted searches never pass for coverage (_adapter_sweep, _finish).   *)
NotFoundWasLookedFor ==
  task.run # 0 =>
    \A p \in Platforms : check[task.run][p] = "not_found" => p \in task.looked

(* A run that ends as anything but failed or to be reviewed knows every    *)
(* registered platform: a query about it was answered, the crawl of the    *)
(* domain was complete, or the run has a candidate of that platform. Over  *)
(* all its steps no failed, skipped or unaffordable search, and no older   *)
(* finding without a candidate, makes it look complete (_finish).          *)
Accounted(p) ==
  p \in task.looked \/ \E i \in SourceCandidates(task.run) : Platform[i] = p
SettledRunsAreComplete ==
  [][\A r \in Runs :
       /\ run'[r].finished /\ ~ run[r].finished
       /\ run'[r].status \notin {"failed", "needs_review"}
       => \A p \in Platforms : Accounted(p)]_vars

(* The candidates of a run are a snapshot: once it is over, no later task  *)
(* writes them; only users do (_candidate_by_source_key filters by run).   *)
SnapshotsAreFinal ==
  [][clicks' = clicks /\ UNCHANGED web =>
       \A r \in Runs : run[r].finished => cand'[r] = cand[r] /\ check'[r] = check[r]]_vars

(* A run that is not over has its task at work: an exception anywhere ends *)
(* the run with the task. Only a crash and a save that fails in the        *)
(* failure handling itself leave a run behind (run_discovery).             *)
RunningIsWorkedOn ==
  \A r \in Runs : run[r].status = "running" => task.run = r \/ mishaps > 0

(* Every run comes to an end, unless the process dies or its last save     *)
(* fails inside its own failure handling (run_discovery).                  *)
DiscoveryEnds ==
  \A r \in Runs :
    run[r].status = "running" ~> run[r].finished \/ mishaps > 0

(* Violated. discovery/service.py:2671: an ignore persists a choice of the *)
(* user, until it is restored. The next run retains the candidate anew.    *)
IgnoreIsPersistent ==
  [][\A i \in Published' : i \notin Published /\ clicks' = clicks /\ UNCHANGED web =>
       ~ \E r \in Runs : cand[r][i].ignored]_vars

(* Violated. discovery/service.py:2494: "Discovery failed cleanly; no      *)
(* source was connected."                                                  *)
FailedConnectsNothing == task.pc = "finish" /\ task.created => task.status # "failed"

(* Violated. discovery/service.py:2675: "Connected candidates cannot be    *)
(* ignored".                                                               *)
ConnectedIsNotIgnored ==
  \A r \in Runs, i \in Idents : ~ (cand[r][i].linked /\ cand[r][i].ignored)

(* Violated. discovery/service.py:2513: "All discovered sources are        *)
(* already connected." A blocked source is none that is connected.         *)
ConnectedIsApproved ==
  [][\A r \in Runs :
       run'[r].finished /\ ~ run[r].finished /\ run'[r].status = "already_connected" =>
         \A i \in SourceCandidates(r) : source[i] # "blocked"]_vars

(* Violated. docs/SOURCE_DISCOVERY.md:79: "Search-fallback sources always  *)
(* require review unless they already match an existing source".           *)
ReviewIsKept ==
  [][\A r, s \in Runs, i \in Idents :
       /\ run[s].finished /\ cand[s][i].decision = "needs_review"
       /\ cand[r][i] = NoCand /\ cand'[r][i].decision = "selected"
       => source[i] # "absent"]_vars
=============================================================================
