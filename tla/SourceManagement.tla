-------------------------- MODULE SourceManagement --------------------------
(***************************************************************************)
(* The management views of companies/views.py, run by concurrent web       *)
(* threads beside the monitoring runs of RunLifecycle.  A view that        *)
(* changes a row loads it, checks, and saves it: separate statements, with *)
(* neither a transaction around them nor database_write_guard.             *)
(*                                                                         *)
(* Two kinds of UPDATE matter.  save(update_fields=...) writes the named   *)
(* columns and raises if the row is gone.  The save of a ModelForm writes  *)
(* EVERY column from the instance the view loaded, and INSERTs the row     *)
(* again if the UPDATE matches none.  Foreign keys and the constraint      *)
(* uniq_company_source_config are the database's, so they hold at every    *)
(* statement.                                                              *)
(*                                                                         *)
(* A worker loads the source, and the URL it will fetch, some time before  *)
(* it starts the run; the rest of the pipeline is FinishRun here.          *)
(* Deletion and creation are transactions of their own.  Names, types and  *)
(* platforms are left out: the platform of a source never changes.         *)
(***************************************************************************)
EXTENDS RunLifecycle

CONSTANTS
  Editors,     \* web threads
  Urls,        \* jobs URLs
  Canonical,   \* the part of source_configuration_identity that depends on the URL
  NoUrl

ASSUME UrlAssumption == NoUrl \notin Urls /\ Canonical \in [Urls -> Urls]

VARIABLES
  url,       \* CompanySource.source_jobs_url
  worker,    \* the URL the worker of each source has loaded
  fetching,  \* the URL each run fetches
  editor     \* each web thread inside a view

managementVars == <<url, worker, fetching, editor>>
vars == <<lifecycleVars, managementVars>>

(* Primary keys of both tables are what a view has in hand.                *)
Loaded == [active : BOOLEAN, status : {"never", "running"} \cup Terminal]
EditorState ==
  [pc : {"idle", "loaded", "checked", "clean"},
   view : {"none", "source_toggle", "source_edit", "company_toggle", "company_edit"},
   key : Sources \cup Companies \cup {NoSource},
   row : Loaded, url : Urls \cup {NoUrl}, active : BOOLEAN]

Idle == [pc |-> "idle", view |-> "none", key |-> NoSource,
         row |-> [active |-> FALSE, status |-> "never"], url |-> NoUrl, active |-> FALSE]

ManagementTypeOK ==
  /\ TypeOK
  /\ \A s \in Sources : url[s] \in (IF source[s].row = "new" THEN {NoUrl} ELSE Urls)
  /\ worker \in [Sources -> Urls \cup {NoUrl}]
  /\ fetching \in [RunIds -> Urls \cup {NoUrl}]
  /\ editor \in [Editors -> EditorState]

Init ==
  /\ LifecycleInit
  /\ url = [s \in Sources |-> NoUrl]
  /\ worker = [s \in Sources |-> NoUrl]
  /\ fetching = [r \in RunIds |-> NoUrl]
  /\ editor = [e \in Editors |-> Idle]

-----------------------------------------------------------------------------
(* Web threads.                                                            *)

At(e, view, pc) == editor[e].view = view /\ editor[e].pc = pc
Goto(e, pc) == editor' = [editor EXCEPT ![e].pc = pc]
Leave(e) == editor' = [editor EXCEPT ![e] = Idle]
SourceSnapshot(s) == [active |-> source[s].active, status |-> "never"]
CompanySnapshot(c) == [active |-> company[c].active, status |-> company[c].status]

(* get_object_or_404 at the start of each view.                            *)
Open(e, view, key, row, newUrl, newActive) ==
  /\ editor[e].pc = "idle"
  /\ editor' = [editor EXCEPT ![e] = [pc |-> "loaded", view |-> view, key |-> key,
                                      row |-> row, url |-> newUrl, active |-> newActive]]
  /\ UNCHANGED <<lifecycleVars, url, worker, fetching>>

OpenView(e) ==
  \/ \E s \in Sources :
       /\ source[s].row = "saved"
       /\ \/ Open(e, "source_toggle", s, SourceSnapshot(s), NoUrl, FALSE)
          \/ \E u \in Urls : Open(e, "source_edit", s, SourceSnapshot(s), u, FALSE)
  \/ \E c \in Companies :
       /\ company[c].row = "saved"
       /\ \/ Open(e, "company_toggle", c, CompanySnapshot(c), NoUrl, FALSE)
          \/ \E b \in BOOLEAN : Open(e, "company_edit", c, CompanySnapshot(c), NoUrl, b)

(* The RUNNING query of company_source_toggle_active, company_source_edit. *)
CheckIdle(e) ==
  /\ At(e, "source_toggle", "loaded") \/ At(e, "source_edit", "loaded")
  /\ IF HasRunning(editor[e].key) THEN Leave(e) ELSE Goto(e, "checked")
  /\ UNCHANGED <<lifecycleVars, url, worker, fetching>>

Siblings(s) == {t \in Sources \ {s} : Owner[t] = Owner[s] /\ source[t].row = "saved"}
SameUrl(s, u) == \E t \in Siblings(s) : url[t] = u

(* CompanySourceForm.clean.                                                *)
CleanForm(e) ==
  /\ At(e, "source_edit", "checked")
  /\ IF SameUrl(editor[e].key, editor[e].url) THEN Leave(e) ELSE Goto(e, "clean")
  /\ UNCHANGED <<lifecycleVars, url, worker, fetching>>

SaveToggle(e) ==
  LET s == editor[e].key IN
  /\ At(e, "source_toggle", "checked")
  /\ Leave(e)
  /\ \/ SaveSourceActive(s, ~editor[e].row.active)
     \/ source[s].row # "saved" /\ UNCHANGED lifecycleVars
  /\ UNCHANGED <<url, worker, fetching>>

MaySaveUnconstrained(s, u) == company[Owner[s]].row = "saved"   \* mutant: clean() is the only check

(* UPDATE or INSERT of the whole row.  Refused by the unique constraint,   *)
(* or, when the Company is gone too, by the foreign key.                   *)
MaySaveSource(s, u) == ~SameUrl(s, u) /\ company[Owner[s]].row = "saved"

BlankUrl(e) == NoUrl   \* mutant: the URL of the form is lost

FormUrl(e) == editor[e].url

SaveEdit(e) ==
  LET s == editor[e].key IN
  /\ At(e, "source_edit", "clean")
  /\ Leave(e)
  /\ IF MaySaveSource(s, editor[e].url)
       THEN /\ source' = [source EXCEPT ![s] = [row |-> "saved", active |-> editor[e].row.active]]
            /\ url' = [url EXCEPT ![s] = FormUrl(e)]
            /\ UNCHANGED <<company, run, lastPk>>
       ELSE UNCHANGED <<lifecycleVars, url>>
  /\ UNCHANGED <<worker, fetching>>

SaveCompanyToggle(e) ==
  LET c == editor[e].key IN
  /\ At(e, "company_toggle", "loaded")
  /\ Leave(e)
  /\ \/ SaveCompanyActive(c, ~editor[e].row.active)
     \/ company[c].row # "saved" /\ UNCHANGED lifecycleVars
  /\ UNCHANGED <<url, worker, fetching>>

SaveCompanyEdit(e) ==
  LET c == editor[e].key IN
  /\ At(e, "company_edit", "loaded")
  /\ Leave(e)
  /\ company' = [company EXCEPT ![c] = [row |-> "saved", active |-> editor[e].active,
                                        status |-> editor[e].row.status]]
  /\ UNCHANGED <<source, run, lastPk, url, worker, fetching>>

(* company_source_create, after detection: compare and insert in one       *)
(* transaction.                                                            *)
Equivalent(s, u) == \E t \in Siblings(s) : Canonical[url[t]] = Canonical[u]

AddSource(s, u) ==
  /\ ~Equivalent(s, u)
  /\ CreateSource(s)
  /\ url' = [url EXCEPT ![s] = u]
  /\ UNCHANGED <<worker, fetching, editor>>

(* company_create, company_delete, company_source_delete.                  *)
OneTransaction ==
  /\ \/ \E c \in Companies : CreateCompany(c) \/ DeleteCompany(c)
     \/ \E s \in Sources : DeleteSource(s)
  /\ UNCHANGED managementVars

EditorStep(e) ==
  \/ OpenView(e) \/ CheckIdle(e) \/ CleanForm(e)
  \/ SaveToggle(e) \/ SaveEdit(e) \/ SaveCompanyToggle(e) \/ SaveCompanyEdit(e)

-----------------------------------------------------------------------------
(* Workers.                                                                *)

LoadSource(s) ==
  /\ worker[s] = NoUrl
  /\ Executable(s)
  /\ worker' = [worker EXCEPT ![s] = url[s]]
  /\ UNCHANGED <<lifecycleVars, url, fetching, editor>>

StartLoaded(s) ==
  /\ worker[s] # NoUrl
  /\ worker' = [worker EXCEPT ![s] = NoUrl]
  /\ \/ StartRun(s) /\ fetching' = [fetching EXCEPT ![lastPk + 1] = worker[s]]
     \/ ~MayStart(s) /\ UNCHANGED <<lifecycleVars, fetching>>
  /\ UNCHANGED <<url, editor>>

Finish(r) ==
  /\ \E status \in Terminal : FinishRun(r, status)
  /\ UNCHANGED managementVars

Next ==
  \/ \E e \in Editors : EditorStep(e)
  \/ \E s \in Sources, u \in Urls : AddSource(s, u)
  \/ OneTransaction
  \/ \E s \in Sources : LoadSource(s) \/ StartLoaded(s)
  \/ \E r \in RunIds : Finish(r)

Spec == Init /\ [][Next]_vars

-----------------------------------------------------------------------------
(* What holds.                                                             *)

(* However saves of stale rows interleave with deletions, a source row     *)
(* never outlives its Company and a RUNNING run never outlives its source. *)
NothingIsOrphaned ==
  /\ RunningIsOwned
  /\ \A s \in Sources : source[s].row = "saved" => company[Owner[s]].row = "saved"

(* Two source rows of a Company never have the same URL, although the form *)
(* looks for a duplicate in one statement and saves in another.            *)
NoDuplicateConfiguration ==
  \A s \in Sources : source[s].row = "saved" => ~SameUrl(s, url[s])

-----------------------------------------------------------------------------
(* What the documentation says and the views do not keep.                  *)

(* docs/MULTI_SOURCE_ARCHITECTURE.md:193-195: "The conservative management *)
(* policy also blocks unsafe editing, deactivation, or deletion while that *)
(* source has a RUNNING ScrapeRun."                                        *)
NoDeactivationWhileRunning ==
  [][\A s \in Sources : HasRunning(s) => source'[s] = source[s]]_vars

(* scraping/background.py:207: the worker must "Load queued work afresh".  *)
(* A RUNNING run fetches the URL that its source shows.                    *)
RunFetchesItsUrl ==
  \A r \in RunIds : Running(r) /\ run[r].source \in Sources => fetching[r] = url[run[r].source]

(* docs/MULTI_SOURCE_ARCHITECTURE.md:121-127: the cached status of a       *)
(* Company follows the latest runs of its active sources.                  *)
CacheIsAggregate ==
  \A c \in Companies : company[c].row = "saved" =>
    company[c].status = Aggregate(c, source, run)

(* companies/views.py:531-534: a source reported as "permanently deleted"  *)
(* stays deleted.                                                          *)
DeletedStaysDeleted ==
  [][\A s \in Sources : source[s].row = "deleted" => source'[s].row = "deleted"]_vars

(* docs/MULTI_SOURCE_ARCHITECTURE.md:178-180: "Canonical source identity   *)
(* prevents an equivalent source from being added twice to one Company."   *)
NoEquivalentSources ==
  \A s \in Sources : source[s].row = "saved" => ~Equivalent(s, url[s])
=============================================================================
