---------------------------- MODULE RunLifecycle ----------------------------
(***************************************************************************)
(* The rows that a monitoring run touches (Company, CompanySource,         *)
(* ScrapeRun) and the services that write them: start_scrape_run and       *)
(* finish_scrape_run (scraping/run_lifecycle.py), delete_company_source    *)
(* and delete_company (companies/deletion.py).  Each service holds the     *)
(* process-wide database_write_guard and one transaction, so it is one     *)
(* action; a service that raises rolls its transaction back, so its        *)
(* refusals are the states in which the action is not enabled.             *)
(*                                                                         *)
(* The activation switches of companies/views.py take neither the guard    *)
(* nor a transaction: the UPDATE statement each of them ends with is an    *)
(* action here, enabled whenever the row exists, whatever the view checked *)
(* before.  SourceManagement models the views around those statements.     *)
(*                                                                         *)
(* Left out: approval_status (every row the code creates is approved),     *)
(* counters, durations and messages, and last_scraped_at.  The runs of one *)
(* source start in primary-key order, because BackgroundExecutor never     *)
(* lets two tasks of a source overlap, so "latest by started_at, pk" is    *)
(* "latest by pk".                                                         *)
(***************************************************************************)
EXTENDS Naturals, FiniteSets

CONSTANTS
  Companies,   \* primary keys of Company rows
  Sources,     \* primary keys of CompanySource rows
  Owner,       \* CompanySource.company, immutable
  NoSource,    \* NULL in ScrapeRun.company_source
  NoCompany,   \* the company column of a row that does not exist
  MaxRuns      \* bound: ScrapeRun rows a behaviour may create

RunIds == 1 .. MaxRuns

ASSUME OwnerAssumption == Owner \in [Sources -> Companies]
ASSUME NullAssumption == NoSource \notin Sources /\ NoCompany \notin Companies
ASSUME MaxRunsAssumption == MaxRuns \in Nat

VARIABLES
  company,   \* Company rows: presence, is_active, last_scrape_status
  source,    \* CompanySource rows: presence, is_active
  run,       \* ScrapeRun rows by primary key
  lastPk     \* the AUTOINCREMENT counter of ScrapeRun

lifecycleVars == <<company, source, run, lastPk>>

Terminal == {"success", "partial", "failed"}
Presence == {"new", "saved", "deleted"}   \* a primary key is never reused
NoRun == [status |-> "none", source |-> NoSource, company |-> NoCompany]

CompanyRow == [row : Presence, active : BOOLEAN,
               status : {"never", "running"} \cup Terminal]
SourceRow == [row : Presence, active : BOOLEAN]
RunRow == {NoRun} \cup [status : {"running"} \cup Terminal,
                        source : Sources \cup {NoSource}, company : Companies]

TypeOK ==
  /\ company \in [Companies -> CompanyRow]
  /\ source \in [Sources -> SourceRow]
  /\ run \in [RunIds -> RunRow]
  /\ lastPk \in 0 .. MaxRuns

LifecycleInit ==
  /\ company = [c \in Companies |-> [row |-> "new", active |-> TRUE, status |-> "never"]]
  /\ source = [s \in Sources |-> [row |-> "new", active |-> TRUE]]
  /\ run = [r \in RunIds |-> NoRun]
  /\ lastPk = 0

-----------------------------------------------------------------------------
(* Queries.                                                                *)

Running(r) == run[r].status = "running"
HasRunning(s) == \E r \in RunIds : run[r].source = s /\ Running(r)
CompanyHasRunning(c) == \E r \in RunIds : run[r].company = c /\ Running(r)

(* _validated_company_source and the two activity checks of                *)
(* start_scrape_run; also what _validated_source of the executor asks.     *)
Executable(s) ==
  /\ source[s].row = "saved"
  /\ source[s].active
  /\ company[Owner[s]].row = "saved"
  /\ company[Owner[s]].active

(* The status _aggregate_company_state writes, from given source and run   *)
(* rows: the latest run of every active source, worst status first.        *)
Aggregate(c, src, rn) ==
  LET relevant == {s \in Sources : Owner[s] = c /\ src[s].row = "saved" /\ src[s].active}
      latest == {r \in RunIds : /\ rn[r].source \in relevant
                                /\ \A q \in RunIds : rn[q].source = rn[r].source => q <= r}
      statuses == {rn[r].status : r \in latest}
  IN  IF "running" \in statuses THEN "running"
      ELSE IF "failed" \in statuses THEN "failed"
      ELSE IF "partial" \in statuses THEN "partial"
      ELSE IF statuses = {"success"} /\ {rn[r].source : r \in latest} = relevant THEN "success"
      ELSE "never"

-----------------------------------------------------------------------------
(* Services.                                                               *)

CreateCompany(c) ==
  /\ company[c].row = "new"
  /\ company' = [company EXCEPT ![c].row = "saved"]
  /\ UNCHANGED <<source, run, lastPk>>

CreateSource(s) ==
  /\ source[s].row = "new"
  /\ company[Owner[s]].row = "saved"
  /\ source' = [source EXCEPT ![s].row = "saved"]
  /\ UNCHANGED <<company, run, lastPk>>

MayStartUnconstrained(s) == Executable(s)   \* mutant: the constraint is missing

(* The INSERT is refused by the constraint uniq_running_run_source when    *)
(* the source has a RUNNING row (DuplicateRunningRunError).                *)
MayStart(s) == Executable(s) /\ ~HasRunning(s)

StartRun(s) ==
  /\ lastPk < MaxRuns
  /\ MayStart(s)
  /\ lastPk' = lastPk + 1
  /\ run' = [run EXCEPT ![lastPk + 1] =
               [status |-> "running", source |-> s, company |-> Owner[s]]]
  /\ company' = [company EXCEPT ![Owner[s]].status = Aggregate(Owner[s], source, run')]
  /\ UNCHANGED source

MayFinishAgain(r) ==   \* mutant: the RUNNING check is missing
  /\ run[r].status # "none"
  /\ run[r].source \in Sources
  /\ Owner[run[r].source] = run[r].company

(* finish_scrape_run refuses a run that is not RUNNING or whose source was *)
(* lost.                                                                   *)
MayFinish(r) ==
  /\ Running(r)
  /\ run[r].source \in Sources
  /\ Owner[run[r].source] = run[r].company

FinishCacheBefore(r, newRun) ==   \* mutant: aggregates before the row is saved
  Aggregate(run[r].company, source, run)

FinishCache(r, newRun) == Aggregate(run[r].company, source, newRun)

FinishRun(r, status) ==
  /\ MayFinish(r)
  /\ run' = [run EXCEPT ![r].status = status]
  /\ company' = [company EXCEPT ![run[r].company].status = FinishCache(r, run')]
  /\ UNCHANGED <<source, lastPk>>

MayDeleteSourceAnyTime(s) == source[s].row = "saved"   \* mutant: no RUNNING check

(* Deleting a source sets company_source of its runs to NULL and leaves    *)
(* the Company row as it is.                                               *)
MayDeleteSource(s) == source[s].row = "saved" /\ ~HasRunning(s)

DeleteSource(s) ==
  /\ MayDeleteSource(s)
  /\ source' = [source EXCEPT ![s].row = "deleted"]
  /\ run' = [r \in RunIds |-> IF run[r].source = s
                                THEN [run[r] EXCEPT !.source = NoSource] ELSE run[r]]
  /\ UNCHANGED <<company, lastPk>>

DetachedRuns(c) ==   \* mutant: the rows stay, without a company
  [r \in RunIds |-> IF run[r].company = c THEN [run[r] EXCEPT !.company = NoCompany] ELSE run[r]]

RunsWithout(c) == [r \in RunIds |-> IF run[r].company = c THEN NoRun ELSE run[r]]

DeleteCompany(c) ==
  /\ company[c].row = "saved"
  /\ ~CompanyHasRunning(c)
  /\ company' = [company EXCEPT ![c].row = "deleted"]
  /\ source' = [s \in Sources |-> IF Owner[s] = c /\ source[s].row = "saved"
                                    THEN [source[s] EXCEPT !.row = "deleted"] ELSE source[s]]
  /\ run' = RunsWithout(c)
  /\ UNCHANGED lastPk

(* UPDATE statements of company_source_toggle_active and                   *)
(* company_toggle_active (save with update_fields).                        *)
SaveSourceActive(s, active) ==
  /\ source[s].row = "saved"
  /\ source' = [source EXCEPT ![s].active = active]
  /\ UNCHANGED <<company, run, lastPk>>

SaveCompanyActive(c, active) ==
  /\ company[c].row = "saved"
  /\ company' = [company EXCEPT ![c].active = active]
  /\ UNCHANGED <<source, run, lastPk>>

Administer ==
  \/ \E c \in Companies : CreateCompany(c) \/ DeleteCompany(c)
  \/ \E s \in Sources : CreateSource(s) \/ DeleteSource(s)
  \/ \E s \in Sources, b \in BOOLEAN : SaveSourceActive(s, b)
  \/ \E c \in Companies, b \in BOOLEAN : SaveCompanyActive(c, b)

LifecycleNext ==
  \/ Administer
  \/ \E s \in Sources : StartRun(s)
  \/ \E r \in RunIds, status \in Terminal : FinishRun(r, status)

LifecycleSpec == LifecycleInit /\ [][LifecycleNext]_lifecycleVars

-----------------------------------------------------------------------------
(* Properties.                                                             *)

(* Two simultaneous runs of one source never exist, whichever callers      *)
(* started them and however starts, deletions and switches interleave.     *)
OneRunningPerSource ==
  \A q, r \in RunIds :
    Running(q) /\ Running(r) /\ run[q].source = run[r].source => q = r

(* A RUNNING run keeps its source and its company until it ends: no        *)
(* deletion orphans it, so finish_scrape_run cannot be refused.            *)
RunningIsOwned ==
  \A r \in RunIds : Running(r) =>
    /\ run[r].source \in Sources
    /\ source[run[r].source].row = "saved"
    /\ run[r].company = Owner[run[r].source]
    /\ company[run[r].company].row = "saved"

(* A Company shown as running has a RUNNING run: no finish or deletion     *)
(* leaves the cached status behind at "running".                           *)
CachedRunningIsReal ==
  \A c \in Companies : company[c].status = "running" => CompanyHasRunning(c)

(* A terminal run is history: its status never changes again, and its row  *)
(* disappears only with its Company.                                       *)
TerminalIsFinal ==
  [][\A r \in RunIds : run[r].status \in Terminal =>
       \/ run'[r].status = run[r].status
       \/ run'[r] = NoRun /\ company'[run[r].company].row = "deleted"]_lifecycleVars
=============================================================================
