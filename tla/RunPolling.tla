----------------------------- MODULE RunPolling -----------------------------
(***************************************************************************)
(* How a browser learns that the work it asked for is over.                *)
(*                                                                         *)
(* company_update_jobs (companies/views.py) reads a baseline, submits the  *)
(* sources of a company, and redirects to a page that polls                *)
(* scrape_run_status (scrape_runs/views.py) for the runs that the          *)
(* submitted sources have had since the baseline.  update_all              *)
(* (job_monitor/views.py) does the same for all companies and keeps the    *)
(* expectation in the session, for the banner of the dashboard.  The two   *)
(* differ in the baseline (newest by start, or by key) and in the run of a *)
(* source they look at (latest, or first).                                 *)
(*                                                                         *)
(* The executor is abstracted to what matters here: a source takes one     *)
(* submission at a time; its worker reads the clock, inserts the run row   *)
(* and ends the run, or gives up on the way.  One company, of which        *)
(* sources, or the whole, may be deleted while browsers wait.              *)
(***************************************************************************)
EXTENDS Naturals, FiniteSets

CONSTANTS
  Sources,          \* keys of CompanySource rows of the company, active
  Browsers,         \* each sends one request at a time
  MaxSubmissions,   \* bound: accepted submissions of a source
  MaxTime           \* bound: clock readings

ASSUME PollingAssumption ==
  /\ Sources \subseteq Nat \ {0} /\ IsFiniteSet(Sources)
  /\ MaxSubmissions \in Nat /\ MaxTime \in Nat

MaxRuns == MaxSubmissions * Cardinality(Sources)
RunIds == 1 .. MaxRuns

VARIABLES
  now,
  saved,     \* CompanySource rows that are not deleted
  work,      \* each source: its task, the clock it read, its submissions so far
  run,       \* ScrapeRun rows; ticket: which submission of its source
  lastPk,
  request,   \* each browser: the web thread that handles its request
  watch      \* each browser: what its banner, and its company page, wait for

pollingVars == <<now, saved, work, run, lastPk, request, watch>>

Kinds == {"company", "all"}
NoRun == [source |-> 0, status |-> "none", started |-> 0, ticket |-> 0]
Working == [pc : {"idle", "queued", "stamped", "running"}, started : 0 .. MaxTime,
            run : 0 .. MaxRuns, ticket : 0 .. MaxSubmissions]

(* source: 0 is null.                                                      *)
RunRow == [source : Sources \cup {0}, status : {"none", "running", "terminal"},
           started : 0 .. MaxTime, ticket : 0 .. MaxSubmissions]

(* quiet: history, no source had work when the baseline was read.          *)
NoWatch == [after |-> 0, sources |-> {}, ticket |-> [s \in {} |-> 0], quiet |-> FALSE]
NoRequest == [kind |-> "none", todo |-> {}, batch |-> NoWatch]

BatchOK(batch) ==
  /\ batch.after \in 0 .. MaxRuns /\ batch.quiet \in BOOLEAN
  /\ batch.sources \subseteq Sources /\ batch.ticket \in [batch.sources -> 1 .. MaxSubmissions]

(* With the types, the constraint of ScrapeRun: a source has one RUNNING   *)
(* row at most.                                                            *)
PollingTypeOK ==
  /\ now \in 0 .. MaxTime /\ lastPk \in 0 .. MaxRuns /\ saved \subseteq Sources
  /\ work \in [Sources -> Working]
  /\ run \in [RunIds -> RunRow]
  /\ \A q, r \in RunIds : run[q].status = "running" /\ run[r].status = "running"
                            /\ run[q].source = run[r].source => q = r
  /\ \A b \in Browsers :
       /\ request[b].kind \in Kinds \cup {"none"} /\ request[b].todo \subseteq Sources
       /\ BatchOK(request[b].batch)
       /\ \A kind \in Kinds : BatchOK(watch[b][kind])

PollingInit ==
  /\ now = 0 /\ lastPk = 0 /\ saved = Sources
  /\ work = [s \in Sources |-> [pc |-> "idle", started |-> 0, run |-> 0, ticket |-> 0]]
  /\ run = [r \in RunIds |-> NoRun]
  /\ request = [b \in Browsers |-> NoRequest]
  /\ watch = [b \in Browsers |-> [kind \in Kinds |-> NoWatch]]

-----------------------------------------------------------------------------
(* Queries.                                                                *)

Rows == {r \in RunIds : run[r].status # "none"}

Running(s) == \E r \in Rows : run[r].source = s /\ run[r].status = "running"

(* order_by("-started_at", "-pk").                                         *)
NewerStart(q, r) ==
  \/ run[q].started > run[r].started
  \/ run[q].started = run[r].started /\ q > r
LatestStart(rows) == CHOOSE r \in rows : \A q \in rows \ {r} : NewerStart(r, q)
SmallestPk(rows) == CHOOSE r \in rows : \A q \in rows : r <= q

NoBaseline == 0   \* mutant: earlier runs are not told apart

(* order_by("-pk"): the newest of the rows that are left, which need not   *)
(* be the last one that was inserted.                                      *)
NewestPk == CHOOSE r \in Rows : \A q \in Rows : r >= q

Baseline(kind) ==
  IF Rows = {} THEN 0
  ELSE IF kind = "company" THEN LatestStart(Rows)
  ELSE NewestPk

RunsPastNext(s, after) ==   \* mutant: off by one
  {r \in Rows : run[r].source = s /\ r > after + 1}

RunsAfter(s, after) == {r \in Rows : run[r].source = s /\ r > after}

(* The run of an expected source that the page looks at: expected_source_runs, *)
(* first_run_status_by_source.                                             *)
ExpectedRun(kind, rows) == IF kind = "company" THEN LatestStart(rows) ELSE SmallestPk(rows)

Waiting(b, kind) == watch[b][kind].sources # {}

(* submission_complete, batch_complete.                                    *)
Complete(b, kind) ==
  /\ Waiting(b, kind)
  /\ \A s \in watch[b][kind].sources :
       LET rows == RunsAfter(s, watch[b][kind].after) IN
       rows # {} /\ run[ExpectedRun(kind, rows)].status = "terminal"

-----------------------------------------------------------------------------
(* Web threads: company_update_jobs and update_all.                        *)

(* Bound: a request is made while every source has a submission left.      *)
ReadBaseline(b, kind) ==
  /\ request[b].kind = "none"
  /\ \A s \in Sources :
       work[s].ticket + Cardinality({c \in Browsers : request[c].kind # "none"}) < MaxSubmissions
  /\ request' = [request EXCEPT ![b] =
       [kind |-> kind, todo |-> saved,
        batch |-> [NoWatch EXCEPT !.after = Baseline(kind),
                                  !.quiet = \A s \in Sources : work[s].pc = "idle"]]]
  /\ UNCHANGED <<now, saved, work, run, lastPk, watch>>

(* submit_source: refused when the source is deleted, while it has work,   *)
(* or has a RUNNING row that nobody works on.                              *)
Accepted(s) ==
  /\ s \in saved /\ work[s].pc = "idle"
  /\ ~Running(s)

Extended(batch, s) ==
  [batch EXCEPT !.sources = @ \cup {s},
                !.ticket = [t \in DOMAIN @ \cup {s} |-> IF t = s THEN work[s].ticket + 1 ELSE @[t]]]

Submit(b, s) ==
  /\ s \in request[b].todo /\ \A t \in request[b].todo : s <= t
  /\ IF Accepted(s)
       THEN /\ work' = [work EXCEPT ![s].pc = "queued", ![s].ticket = @ + 1]
            /\ request' = [request EXCEPT ![b].todo = @ \ {s}, ![b].batch = Extended(@, s)]
       ELSE /\ request' = [request EXCEPT ![b].todo = @ \ {s}]
            /\ UNCHANGED work
  /\ UNCHANGED <<now, saved, run, lastPk, watch>>

(* The redirect to a page that polls, or the entry in the session.  If     *)
(* every submission was refused, the page that replaces the old one does   *)
(* not poll, but the session keeps its entry.                              *)
Redirect(b) ==
  LET kind == request[b].kind
      batch == request[b].batch
  IN
  /\ kind # "none" /\ request[b].todo = {}
  /\ request' = [request EXCEPT ![b] = NoRequest]
  /\ watch' = IF batch.sources # {} THEN [watch EXCEPT ![b][kind] = batch]
              ELSE IF kind = "company" THEN [watch EXCEPT ![b][kind] = NoWatch]
              ELSE watch
  /\ UNCHANGED <<now, saved, work, run, lastPk>>

(* The next poll, or the next dashboard, finds the submission complete.    *)
StopWatching(b, kind) ==
  /\ Complete(b, kind)
  /\ watch' = [watch EXCEPT ![b][kind] = NoWatch]
  /\ UNCHANGED <<now, saved, work, run, lastPk, request>>

-----------------------------------------------------------------------------
(* Workers.                                                                *)

Tick == now < MaxTime /\ now' = now + 1 /\ UNCHANGED <<saved, work, run, lastPk, request, watch>>

(* started_at is read before start_scrape_run takes the write guard.       *)
ReadClock(s) ==
  /\ work[s].pc = "queued"
  /\ work' = [work EXCEPT ![s].pc = "stamped", ![s].started = now]
  /\ UNCHANGED <<now, saved, run, lastPk, request, watch>>

(* start_scrape_run looks the source up once more.                         *)
InsertRun(s) ==
  /\ work[s].pc = "stamped" /\ s \in saved
  /\ lastPk' = lastPk + 1
  /\ run' = [run EXCEPT ![lastPk + 1] = [source |-> s, status |-> "running",
                                         started |-> work[s].started, ticket |-> work[s].ticket]]
  /\ work' = [work EXCEPT ![s].pc = "running", ![s].run = lastPk + 1]
  /\ UNCHANGED <<now, saved, request, watch>>

(* The source was deactivated or deleted meanwhile, or the database        *)
(* refused: the task ends without a run row, or leaves its row RUNNING.    *)
GiveUp(s) ==
  /\ work[s].pc # "idle"
  /\ work' = [work EXCEPT ![s].pc = "idle"]
  /\ UNCHANGED <<now, saved, run, lastPk, request, watch>>

FinishRun(s) ==
  /\ work[s].pc = "running"
  /\ run' = [run EXCEPT ![work[s].run].status = "terminal"]
  /\ work' = [work EXCEPT ![s].pc = "idle"]
  /\ UNCHANGED <<now, saved, lastPk, request, watch>>

-----------------------------------------------------------------------------
(* Other web threads: the deletions of companies/deletion.py.  A queued    *)
(* task does not stop them, only a RUNNING row does.                       *)

(* on_delete=SET_NULL: the runs of the source stay, without it.            *)
DeleteSource(s) ==
  /\ s \in saved /\ ~Running(s)
  /\ saved' = saved \ {s}
  /\ run' = [r \in RunIds |->
               IF run[r].source = s THEN [run[r] EXCEPT !.source = 0] ELSE run[r]]
  /\ UNCHANGED <<now, work, lastPk, request, watch>>

(* The runs go with the company; their keys are not used again.            *)
DeleteCompany ==
  /\ \A s \in Sources : ~Running(s)
  /\ saved' = {} /\ run' = [r \in RunIds |-> NoRun]
  /\ UNCHANGED <<now, work, lastPk, request, watch>>

-----------------------------------------------------------------------------
WorkerStep(s) == ReadClock(s) \/ InsertRun(s) \/ GiveUp(s) \/ FinishRun(s)

RequestStep(b) == (\E s \in Sources : Submit(b, s)) \/ Redirect(b)

PollingNext ==
  \/ \E b \in Browsers : \/ RequestStep(b)
                         \/ \E kind \in Kinds : ReadBaseline(b, kind) \/ StopWatching(b, kind)
  \/ \E s \in Sources : WorkerStep(s)
  \/ \E s \in Sources : DeleteSource(s)
  \/ DeleteCompany
  \/ Tick

PollingSpec == PollingInit /\ [][PollingNext]_pollingVars

(* Started requests go on, workers go on, open pages keep polling, and the *)
(* dashboard is opened again from time to time.  Nobody has to delete.     *)
FairPolling ==
  /\ PollingSpec
  /\ \A b \in Browsers : /\ WF_pollingVars(RequestStep(b))
                         /\ \A kind \in Kinds : WF_pollingVars(StopWatching(b, kind))
  /\ \A s \in Sources : WF_pollingVars(WorkerStep(s))

-----------------------------------------------------------------------------
(* What holds.                                                             *)

(* A submission is over when its task has ended, whatever it has left.     *)
Over(s, ticket) == work[s].ticket # ticket \/ work[s].pc = "idle"

Patient(b, kind) ==
  Complete(b, kind) => \A s \in watch[b][kind].sources : Over(s, watch[b][kind].ticket[s])

(* The banner of a batch whose baseline was read while nothing ran does    *)
(* not go before every submission of the batch is over, although older     *)
(* runs of the same sources are terminal and later clicks replace the      *)
(* batch, are refused, or leave RUNNING rows behind.                       *)
QuietBannerIsPatient == \A b \in Browsers : watch[b]["all"].quiet => Patient(b, "all")

(* A submission that has ended, and whose source has no terminal run of it *)
(* to show: the task left none, or the source was deleted since.           *)
Lost(b, kind) ==
  \E s \in watch[b][kind].sources :
    LET ticket == watch[b][kind].ticket[s] IN
    /\ Over(s, ticket)
    /\ ~\E r \in Rows : /\ run[r].source = s /\ run[r].ticket = ticket
                        /\ run[r].status = "terminal"

(* A banner stops waiting when its submissions all end with a run and no   *)
(* source of it is deleted before it is looked at, however often Update    *)
(* all is clicked again.  (The page of a company looks at the latest run   *)
(* of a source, so a later submission may keep it waiting.)                *)
BannerEnds ==
  \A b \in Browsers : Waiting(b, "all") ~> ~Waiting(b, "all") \/ Lost(b, "all")

-----------------------------------------------------------------------------
(* What the documentation says and the code does not do.                   *)

(* job_monitor/views.py:25, "clear it after its batch finishes": no banner *)
(* goes before every submission of its batch is over ...                   *)
BannerIsPatient == \A b \in Browsers : Patient(b, "all")

(* ... and every banner goes once the batch is over.  (It stays for ever   *)
(* when a task left no terminal run, too.)                                 *)
BannerClears == \A b \in Browsers : Waiting(b, "all") ~> ~Waiting(b, "all")

(* In particular the banner of a batch that has finished, each submission  *)
(* of it with a terminal run, goes, or is replaced by that of a newer one. *)
(* (It stays for ever when a source of the batch is deleted before the     *)
(* dashboard is opened: company_source is null then, views.py:48-64.)      *)
Finished(b) ==
  \A s \in watch[b]["all"].sources : \E r \in Rows :
    /\ run[r].source = s /\ run[r].ticket = watch[b]["all"].ticket[s]
    /\ run[r].status = "terminal"
FinishedBatchIsCleared ==
  \A b \in Browsers, n \in 0 .. MaxRuns :
    LET shown == Waiting(b, "all") /\ watch[b]["all"].after = n IN
    shown /\ Finished(b) ~> ~shown

(* docs/MULTI_SOURCE_ARCHITECTURE.md:149: polling "treats the submission   *)
(* as complete only when every such run exists and is no longer running".  *)
PollingIsPatient == \A b \in Browsers : Patient(b, "company")
=============================================================================
