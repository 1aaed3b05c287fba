# Verification of the job monitor

This directory is a TLA+ model of the core of the job monitor: a Django
application on SQLite whose thread pool fetches the public job listings of
companies, stores them as postings, and shows them to one or more users. The
modules are checked with TLC on small instances; the invariants of the run
services, of the management views, of the background executor, of the postings,
of discovery, of the crawler, of source detection and of the adapters are also
proved with TLAPS for every instance, and so is what the banner, the count of
failures and the enrichment promise their users, and that the executor and the
adapters implement their contracts. All paths below are relative to the root of the repository.

## 1. The system

| Component | State | Operations | Talks to |
|---|---|---|---|
| Run lifecycle `scraping/run_lifecycle.py` | `ScrapeRun` rows, `Company.last_scrape_status` | `start_scrape_run`, `finish_scrape_run`, aggregation | database, under `database_write_guard` |
| Deletion `companies/deletion.py` | `Company`, `CompanySource`, their postings and runs | `delete_company_source`, `delete_company` | database, under the guard |
| Background executor `scraping/background.py` | `_active`, `_active_discoveries`, `_shutdown`, the pool | `submit_company`, `submit_source`, `submit_discovery`, done callbacks, `shutdown` | web threads call it, it runs the pipeline |
| Pipeline `scraping/pipeline.py` | one run in progress | `run_source_pipeline` | adapter, lifecycle, persistence, reconciliation |
| Persistence, identity `scraping/persistence.py`, `identity.py` | `JobPosting` rows | `persist_job_posting` | database, in the write phase |
| Reconciliation `scraping/reconciliation.py` | miss counters, `NOT_FOUND` | `reconcile_jobs_after_successful_run` | database, in the write phase |
| Review `jobs/review.py`, `jobs/views.py` | `last_reviewed_content_hash` | `job_detail`, `mark_job_reviewed` | database, no guard |
| Management views `companies/views.py`, `forms.py` | `Company`, `CompanySource` | create, edit, toggle, delete, update jobs | database, no guard except deletion; executor |
| Update all and polling `job_monitor/views.py`, `scrape_runs/views.py` | session entry, page parameters | `update_all`, banner, `scrape_run_status` | executor, runs |
| Unread failures `scrape_runs/unread_failures.py` | session marker | count, `acknowledge_failure` | runs, session |
| Source detection `companies/source_detection.py`, `discovery/detectors.py`, `classification.py`, `canonicalization.py` | none | `detect_company_source_url`, `source_configuration_identity` | crawler, `company_source_create` |
| Adapters and registry `scraping/sources/` | one fetch; Darwinbox: its browser; Generic: `_detail_skip_urls` | `fetch` of seven adapters, Lever to Generic | public sites; the pipeline |
| Discovery `discovery/service.py` | `DiscoveryRun`, candidates, adapter checks | `run_discovery`, confirm, ignore, restore, revalidate | crawler, search, executor |
| Crawler `discovery/network.py` | frontier, seen addresses, pages, trusted hosts | `crawl` | public sites |

What is hard about it:

* **Threads without a common lock.** Web threads and pool threads share the
  database. Only starts, finishes, write phases and deletions take
  `database_write_guard`; the management views do not, and there are no
  per-request transactions. Every check in a view can be stale by its write.
* **Three records of the same fact.** A source is busy according to `_active`,
  to a `RUNNING` row, and to the cached company status. They change at
  different moments, and only the rows survive the process.
* **Failure while handling failure.** Finishing a failed run is a database
  write that may itself fail.
* **Order.** `started_at`, `finished_at` and primary keys order the same runs in
  three ways, because clocks are read before the guard is taken.
* **Partial success.** Savepoints per record, whole-batch rollback, and
  reconciliation only after a complete snapshot.
* **Sites that move.** A listing is read by pages and details while it changes;
  answers may be cached, repeated, of another posting, or broken. What a fetch
  returns is taken for the whole site: a posting it misses comes closer to
  `NOT_FOUND`.
* **Many spellings.** One listing has many addresses, directly entered, reached
  by a redirect or found in a page, and must become one source.

What makes the parts correct:

* lifecycle: one `RUNNING` run a source, owned until it ends; terminal runs are
  history; the cache does not claim a run that is over;
* executor: one task a source, no reservation leaked or shared, a `RUNNING` row
  has a live task or was given up;
* postings: one row per identity, misses counted over complete snapshots of the
  own source, acknowledgements of versions that were shown;
* views: no orphans, no duplicates, a source is not changed under its run;
* polling, banner and marker: not early, not stuck, never backwards;
* enrichment: what was stored stays, and repeated runs make progress;
* discovery: what was not looked for is not reported as missing, a run is ended
  with its task, approvals are never changed;
* crawler: limits hold, only trusted hosts are followed, nothing is skipped;
* detection: a Company reads no listing by two sources where the addresses are
  spelled literally and tell their platform, and the evidence for a source is of
  its own host;
* adapters: what is returned was published while it was read, and is complete
  if the site was reliable; an error has a cause; a record is described by its
  own page; the requests reported are the requests sent.

## 2. The modules

`RunLifecycle` is the base: the rows and one action per service.
`BackgroundExecutor` and `SourceManagement` EXTEND it, each putting other
threads around the same actions. `JobStore`, `RunPolling`, `UnreadFailures` and
`GenericEnrichment` stand alone and abstract the executor to what they need.
`Discovery` takes from the executor that a company has one discovery task, and
from `BoundedCrawler` any outcome of a crawl.

The adapters form a second group. `SourceFetch` is their base: the site, the
records, the ends of a fetch. One module per adapter (`LeverFetch`,
`DarwinboxFetch`, `DreamJobsFetch`, `JazzHRFetch`, `ZohoFetch`, `LinkedInFetch`,
`GenericListing`) EXTENDS it with the steps of that adapter. `SourceDetection`
brings a source into being, over the addresses of `SourceUrls`.
`SourceAdapters` composes all of them: a user enters an address, the source it
becomes is fetched by the adapter the registry chooses, and the whole implements
`SnapshotFetch`.

| Module | Code | State | Atomic steps |
|---|---|---|---|
| `RunLifecycle` | `run_lifecycle.py`, `deletion.py`, models, constraints | company, source and run rows | one service (guard + transaction), one UPDATE of a switch |
| `SingleFlight` | the contract of the executor | who works for a source, who is done | admit, end, end of everything |
| `BackgroundExecutor` | `background.py`, control flow of `pipeline.py` | `_active`, pool queue, futures, web threads, shutdown flags | one query, one critical section, one pool call |
| `SourceManagement` | views and forms of `companies/` | rows, URLs, the instance each view has loaded, the URL a worker has loaded | one SQL statement of a view |
| `JobStore` | `persistence.py`, `identity.py`, `reconciliation.py`, write phase of `pipeline.py`, `review.py` | committed rows, the rows of the open transaction, viewers | one record (savepoint), commit, rollback, one read or UPDATE of a viewer |
| `RunPolling` | `company_update_jobs`, `update_all`, the banner, `scrape_run_status`, `deletion.py` | sources, runs with start times, the request of each browser, its banner and its open page | baseline, one submission, redirect, worker steps, one deletion |
| `UnreadFailures` | `unread_failures.py` | runs with clock readings, the session marker, overlapping requests | clock, save, load, save of the session |
| `GenericEnrichment` | detail loop of `generic.py`, merge in `pipeline.py`, the two canonicalizations of an address | pages, the address stored for each link, stored metadata, the current run | one detail page, the end of the run |
| `Discovery` | `run_discovery` and the candidate services of `service.py`, `views.py`, publication in `presentation.py` | sources, runs, candidates, checks, the locals of the task, what each request has loaded | one phase of the task, one query, one SQL statement of a request |
| `BoundedCrawler` | `_crawl`, `_fetch`, `_TrustedJobNavigation` | frontier, seen addresses, the page being fetched, requests made, pages | one entry of the frontier, one HTTP request |
| `SnapshotFetch` | what the pipeline takes a fetch to be | what was published while it ran, its outcome | begin, a change of the site, end |
| `SourceFetch` | `base.py`, `registry.py` | the site, the fetch and its locals, requests sent and reported | one request with its answer |
| `LeverFetch`, `DreamJobsFetch`, `JazzHRFetch`, `ZohoFetch`, `LinkedInFetch` | the adapter of that name | pages, totals, details still to fetch | one page, one detail |
| `DarwinboxFetch` | `darwinbox.py`, `darwinbox_browser.py` | the listing, the bodies and the trouble the browser captured | one request; open, click, a response, close |
| `GenericListing` | `fetch` of `generic.py` up to the details, one detail | pages found, pages done, candidates | one page, one detail |
| `SourceUrls` | detectors, canonical addresses, `*_source_from_url` | none | operators only |
| `SourceDetection` | `source_detection.py`, `company_source_create`, `classification.py` | the sources of a Company, the evidence of each | one submitted address with its crawl |
| `SourceAdapters` | `registry.py`, the composition | all of the above | the union |

Representations worth knowing:

* A refused service is a disabled action: its transaction is rolled back.
* Primary keys are never reused (`AUTOINCREMENT`): rows are `new`, `saved` or
  `deleted`, and a run is a number up to `MaxRuns`.
* Hashes are the tuples they digest, so equality is the equality of contents.
* The site publishes any records in any order: `JobStore` chooses each record of
  a batch when its turn comes, instead of storing batches.
* History variables (`abandoned`, `absent`, `shown`, `told`, `tried`, `ticket`, `quiet`)
  are never read by a guard, except that `ticket` also bounds `RunPolling`.
* The web answers `BoundedCrawler` as it likes, a different way each time; what
  a crawl or a search finds is an arbitrary choice in `Discovery`.
* In `Discovery` a source or candidate is its logical identity, platform and
  tenant. Locals that are no longer read are reset, which changes nothing but
  the number of states. `looked` is a history variable of the task.
* In `SourceManagement`, `save(update_fields)` touches its columns only;
  `ModelForm.save` writes every column and inserts the row if it is gone. This
  is how Django saves an instance that has a key.

* A posting is a number, and a site lists postings by number; its content is
  usable, untitled or broken. Between two requests the site may publish and
  withdraw, at most `MaxChanges` times; at most `MaxOdd` answers are odd.
* An address is a scheme, labels before a domain, path segments, and what it may
  have besides: the port of its scheme, another port, credentials. It is written
  with words of a small alphabet, whose upper case `Fold` takes away and whose
  escapes `Decode` does. A listing is the address of its first page, whatever the
  platform, with the escapes and the default port taken away as the adapters do.
* In `GenericEnrichment` a link is its `canonicalize_url`, which keeps a port that
  is written; `stored` gives the address its row stores, its
  `canonicalize_source_job_url`, which drops a default port. Two links may be
  stored alike. What is skipped and merged is decided by comparing the two.
* In `RunPolling` the deletion of a source leaves its runs without it, and that of
  the company takes them away; a banner keeps the keys it was given.

There are two abstract specifications. `SingleFlight` is the contract of the
executor: `BackgroundExecutor!IsSingleFlight` states that the executor
implements it, a task holding its source from the submission until its future is
done. `SnapshotFetch` is the contract of an adapter:
`SourceAdapters!IsSnapshotFetch` states that every adapter implements it. Its
clause on complete batches is conditional on reliable answers and on a listing
that is one answer or stayed the same, which is what the code can promise;
section 5 says what happens beyond it.

The definitions marked "mutant" in the modules are wrong variants of the
definition below them, each as a plausible bug would leave it. No specification
uses them. Substituting one breaks the property it is listed with in
`PROJECT.json`, which shows that the property depends on that piece of code.

## 3. The runs

Eleven runs must pass and one must fail. Those that must pass:

| Configuration | Shows | Bounds |
|---|---|---|
| `MCRunLifecycle` | `OneRunningPerSource`, `RunningIsOwned`, `CachedRunningIsReal`, `TerminalIsFinal` | 2 companies with 2 and 1 sources, 3 runs: siblings in one company, an unrelated company, a run before and after another |
| `MCBackgroundExecutor` | `ReservationHasOneOwner`, `IsSingleFlight`, `SlotIsReleased` | 1 source, 2 web threads, 2 submissions, 1 run, a retry, shutdown: the smallest instance where a callback meets a resubmission |
| `MCBackgroundExecutorRuns` | `LiveTaskIsRegistered`, `RunningHasTask`, `DuplicateMeansAbandoned` | 2 sources, 1 web thread, 1 worker, 2 runs, 1 crash: queueing behind another source, a RUNNING row left by a crash or a failed finish |
| `MCSourceManagement` | `NothingIsOrphaned`, `NoDuplicateConfiguration` | 1 company, 2 sources, 2 URLs, 1 editor against runs and deletions |
| `MCJobStore` | `IdentityIsConsistent`, `LookupIsComplete`, `MissesAreConsecutive`, `SourcesAreIsolated`, `ReviewedWasShown`, `AcknowledgementSticks` | two scenarios chosen at the start. "identity": 2 sources, 2 ids, 1 URL, 3 rows, batches of 2, threshold 2: upgrades, conflicts, mixed batches, counters below, at and past the threshold. "review": 1 source, 1 row, 2 viewers, 2 contents: a slow reader of an old version beside one of the new |
| `MCRunPolling` | `QuietBannerIsPatient`, `BannerEnds` | 1 browser, 2 sources with 2 submissions each, 2 clock readings: a second click while the first batch waits, works, or is stuck, deletions of a source or of the company before, between and after |
| `MCUnreadFailures` | `ReadStaysRead` | 3 runs, equal and different times, one request at a time |
| `MCGenericEnrichment` | `LimitIsSpentOnNeed`, `EnrichedStaysEnriched`, `RichSitesAreEnriched` | 3 pages, limit 1, any order of the listing, all faults; one link stored as it is, under an address that no link has, or under that of another link |
| `MCBoundedCrawler` | `WithinBudget`, `HopsAreTrusted`, `NothingIsMissed` | 5 addresses on 3 hosts, one of them private, 4 requests, depth 2, 1 redirect, at most 2 links a page: the request limit, the depth limit and the redirect limit are each met before the others |
| `MCDiscovery` | `RunningIsWorkedOn`, `NotFoundWasLookedFor`, `ApprovalIsPreserved`, `SettledRunsAreComplete` | 2 platforms, a tenant on one, 2 runs, 2 users, 4 searches, and two events among requests, switches, deletions, failed saves and crashes: a budget that ends within the sweep, an earlier run to retain from, two requests that cross |
| `MCSourceAdapters` | `IsSnapshotFetch`, `TotalsAreReached`, `RecordsAreDescribed`, `FailureHasCause`, `RequestsAreBounded`, `RequestsAreReported`, `NoListingTwice`, `EvidenceIsOfItsHost` | 4 postings on pages of 2, two with one title, one without; at most 2 pages (LinkedIn 4, Generic 3) and 5 requests; one change of the site and one odd answer. Addresses: 10 hosts, 16 paths, three of them escaped, both schemes, ports or credentials, at most 2 sources. A full last page, a listing at its limit, a withdrawal between two pages and a detail of another posting all happen |

`TypeOK` is among the properties of `MCRunLifecycle`. The other modules
define their type invariants too (`ExecutorTypeOK`, `ManagementTypeOK`,
`JobTypeOK`, `EnrichmentTypeOK`, `CrawlTypeOK`, `DiscoveryTypeOK`, `FetchTypeOK`
and so on), for a reader and for the proofs; they were checked on these instances
and hold, and `ExecutorTypeOK`, `ManagementTypeOK`, `JobTypeOK`, `CrawlTypeOK`,
`DiscoveryTypeOK` and `FetchTypeOK` are proved. Symmetry is used only
for model values that the specification treats alike and only without liveness;
sources that are ordered by primary key are numbers. Deadlock is
checked of the crawler, where only the end of a crawl may stop. Elsewhere it is
not: the bounds on runs, rows, submissions and sites end the behaviours, and a
system without users has nothing to do.

The one that must fail shows a disagreement between the code and what the
repository says of it (`PROJECT.json` quotes the sentence):

| Configuration | Refutes | What happens |
|---|---|---|
| `MCBackgroundExecutorStuckRun` | `RunTerminates` | the final FAILED write fails, the run stays RUNNING and blocks its source |

The last section of most modules states more sentences of the documentation that
the code does not live up to. They are not among the twelve runs above. Check
each under the configuration named here with its properties replaced by that one,
since TLC stops at the first violation; it takes a few seconds:

| Configuration | Property | What happens |
|---|---|---|
| `MCSourceManagementDivergences` | `CachedRunningIsReal` | `company_edit` writes back "running" after the run is over: the property holds of the run services and is lost beside this view |
| | `RunFetchesItsUrl` | a run fetches the URL that the source had before an accepted edit |
| | `CacheIsAggregate` | the status of a failed source outlives the source |
| | `NoEquivalentSources` | an edit gives two sources the same canonical URL |
| | `NoDeactivationWhileRunning` | a switch checked the source before its run started and writes during the run |
| | `DeletedStaysDeleted` | the form of a source saves it again after its deletion |
| `MCJobStoreDivergences` | `RecordIsStored` | a changed compensation text alone is not stored |
| | `OneRowPerUrl` | a posting with an id is published without it and gets a second row |
| `MCRunPollingDivergences` | `FinishedBatchIsCleared` | every task of a batch has ended with a run; then a source of the batch is deleted, its runs lose it (`SET_NULL`), the banner of the dashboard finds no run of it and stays until another Update all replaces it |
| | `PollingIsPatient` | runs are inserted in another order than they started, and the page of the company stops polling early |
| | `BannerIsPatient` | a second click on Update all reads its baseline before the first click's run is inserted, submits after that run has ended, and its banner goes while its own task waits |
| | `BannerClears` | a task ends without a run, the banner stays |
| `MCUnreadFailuresDivergences` | `NewFailuresAreCounted` | a failure with an earlier `finished_at` commits behind the marker |
| | `ReadStaysRead` | two overlapping requests of one session move the marker back |
| `MCGenericEnrichmentDivergences` | `EnrichmentIsPreserved` | a link spells the default port, so its posting is stored under another address: it is neither skipped nor merged, and a run over its limit erases what it had |
| | `EnrichedMetadataIsPreserved` | country, workplace type and page title of an enriched posting are erased by the next run |
| | `DescriptionIsPreserved` | a description alone is erased by a run that does not reach its page |
| | `RichPagesAreEnriched` | pages that never qualify use up the limit of every run |
| `MCSourceAdaptersDivergences` | `EquivalentIsAddedOnce` | `/acme` and `/%61cme` get two sources: the identity keeps the escape, the adapter unquotes it and reads one listing twice |
| `MCDiscovery` | `FailedConnectsNothing` | the last save fails after `_connect` has committed: "no source was connected" |
| | `ConnectedIsNotIgnored` | a candidate is confirmed between the check and the save of its ignore |
| | `ConnectedIsApproved` | a weak detection makes the candidate of a blocked source "already connected", and so the run |
| | `ReviewIsKept` | a candidate left for review is retained by the next run as ready to connect |
| | `IgnoreIsPersistent` | the next run retains an ignored candidate without its mark, and it is offered again |
| `MCBoundedCrawler` | `DocumentsAreDistinct` | two addresses redirect to one page, which is crawled twice |

Three of them bound what the runs above say. `BannerEnds` says when a banner does
go; without deletions `FinishedBatchIsCleared` holds too. The properties of
`MCGenericEnrichment` speak of the links that are `Alone`, those whose row alone
stores the address of the link, and `EnrichmentIsPreserved` of all. `NoListingTwice`
says of any two sources that read one listing why they do: an address is escaped
or names the port of its scheme, or one source is generic and only the body of a
page told the platform of the other, which an identity made of an address cannot
show; `EquivalentIsAddedOnce` says that no two of one platform do.

Some definitions that no run lists hold on small instances too:
`SnapshotsAreFinal` (a later task never writes the candidates of an earlier run;
with one event and a tenant on each platform), `MarkerWasLinked`, which is
proved, and the liveness properties `DiscoveryEnds` and `CrawlEnds`.

### Fairness

Weak fairness, and only where the code schedules: a web thread inside a request
goes on (`RequestStep`), pool threads take work and go on (`TaskStep`), every
fetch ends because the adapters set request timeouts, and every database call
returns or raises. Nothing obliges a user to act, a database call to succeed, or
the process to live. In `RunPolling` an open page keeps polling and the dashboard
is opened again from time to time. `RichSitesAreEnriched` assumes a user who
keeps pressing Update jobs, and speaks of the behaviours in which, from some
point on, listings are complete, pages answer and runs succeed, as the sentence
it states does ("across repeated successful **Update jobs** runs"), and of sites
no link of which spells the default port. Deletions have no fairness: nobody has
to delete. `BannerEnds` says nothing of a batch with a task that ended without a
terminal run, nor of one with a source that was deleted before the banner was
looked at: those banners do stay, until another Update all replaces them.

## 4. The proofs

`RunLifecycle_proofs` proves, for any finite or infinite sets of companies and
sources and any bound on runs, the type invariant and the four properties of
`RunLifecycle`. It assumes only the named assumptions of the module: every
source has a company, and the null values are none.

The inductive invariant `LInv` is `RunsInv` and `CachedRunningIsReal`. `RunsInv`,
which speaks of the rows and not of the cached status, is also what survives the
management views; it is the conjunction of

* `TypeOK`;
* `FreshPk`: rows above the counter do not exist. Without it a new run could
  overwrite a running one;
* `OneRunningPerSource`;
* `RunningIsOwned`: needed for the deletion of a source, which would otherwise
  leave a RUNNING row whose NULL source the uniqueness cannot see.

Each action of `LifecycleNext` has its lemma. The interesting case is
`FinishRun`: the aggregate it writes is "running" only if the latest run of some
active source is RUNNING in the new rows, and such a run belongs to the company
by `RunningIsOwned`. `TerminalIsFinal` follows from the steps alone, with
`FreshPk` for `StartRun` (`NextRowsAreFinal`).

`SourceManagement_proofs` proves `NothingIsOrphaned`, `NoDuplicateConfiguration`,
`OneRunningPerSource` and `TerminalIsFinal` with the views beside the services, for any companies,
sources, URLs and editors. The point of the proof is what it does not need:
beyond its type, nothing is assumed of the instance a view has loaded, of what it
checked, or of the runs between its statements. `MInv` is the type invariant,
`RunsInv`, `SavedAreOwned` (a source row never outlives its company row) and the
uniqueness of URLs. `SavedRowsRunsInv` says that a view may write any row
of a company or a source and bring a deleted source back, as long as no run row
changes and a source keeps its company, which no form can change;
`NewUrlIsUnique` is the constraint of the database, checked in the statement that
writes, where the check of the form may be stale. What is lost without such a
statement is `CachedRunningIsReal`, as section 3 shows. What is kept besides is the
history: no view writes a run (`StepsKeepRuns`), hence `ManagementTerminalIsFinal`.

`BoundedCrawler_proofs` proves `CrawlTypeOK`, `WithinBudget`,
`HopsAreTrusted` and `NothingIsMissed` for any finite set of addresses, any seeds, hosts, ranks and
limits, from `CrawlerAssumption` (the sets fit together, the limits are
naturals; finiteness gives the fresh links of a page a cardinality). The
inductive invariant `CInv` adds to the three properties where things come from:

* `TrustIsLinked`: a trusted host is of the company or was linked by a crawled
  page. Without it the page that `Admits` accepts as a parent could lie anywhere;
* `QueueIsLinked`, `FetchIsLinked`: an entry below the seeds, in the frontier or
  being fetched, was linked by a page one level above it. The page that is kept
  at the end of the fetch inherits this.

`Pop`, the steps that end or redirect a fetch, and `Answered` each have their
lemma. `Answered` is the interesting one: it appends a page, and what the older
pages have linked must stay linked.

`NothingIsMissed` needs to know where every address is at any moment. `FInv` adds
to `CInv`

* `OwedIsKept`: a seed, or a link within the depth limit of a page that was kept,
  was requested or waits in the frontier. A crawl that ends with requests left
  has an empty frontier, and `NothingIsMissed` follows;
* `RanksAreTrue`: an entry of the frontier has the rank of its address, or goes
  before all as a seed, which makes `Pop` take a best one (`CrawlerIsBestFirst`,
  an action property);
* `RequestsAreOnce` and `PagesAreDistinct`: no two pages came from one request
  (`CrawlerPagesAreDistinct`).

`BackgroundExecutor_proofs` proves, for any sources, web threads, submissions,
workers, attempts and crashes, all the invariants the two executor runs check,
and that the executor implements `SingleFlight`. From `ExecutorAssumption`
(markers are not tasks, there is a worker and an attempt) and the assumptions of
`RunLifecycle`. The inductive invariant `EInv` is `LInv`, since every step of the
executor is a step of the run services or leaves the rows alone
(`StepsAreLifecycle`), and `RInv`, the registry. The four properties of `RunLifecycle`
therefore hold under the executor too, crashes and abandoned runs included
(`ExecutorOneRunning` and the three after it), although no run of TLC checks them
there. `RInv` is

* `QueueIsQueued`: the pool's queue holds queued tasks, each once. Otherwise a
  worker could take a task that is done, and revive it;
* `TasksHaveSources`, `RequestsHaveSources`: a live task has a source, a working
  one a run; a request that owns a reservation finds it in `_active`;
* `OwnersDiffer`, `ReservedIsOwned`: one owner a reservation, and at least one;
* `LiveTaskIsRegistered`.

From these, `ReservedHasNoTask`: the reserved source of a request that has not
submitted yet has no live task, so dropping the reservation uncovers nothing; and
`OneLiveTaskPerSource`, on which the refinement mapping depends: `holder` is
CHOSEn among the live tasks of a source. `FlightStep` maps the submission to
`Admit`, the completion of a future to `End`, a crash to `EndAll`, and every other
step to a stutter (`HolderStays`). `RunningHasTask` is preserved on its own,
beside `EInv`; `DuplicateMeansAbandoned` follows from it, because a second live
task of the source would be one too many.

`JobStore_proofs` proves the type invariant and the six properties of `JobStore`
that the run `jobs` checks, for any sources, records, thresholds, batches and
viewers, from the three assumptions of the module. The difficulty is the open
transaction, which can be committed, kept in part or rolled back while viewers
read and acknowledge the committed rows. The inductive invariant `JInv` relates
the two tables by `TxFollows`: a row the run has not seen is as committed; a row
it has seen is of its source, active, without misses, and as reviewed as the
committed one, or unreviewed when it is new. Beside it stand

* `WriterRuns` and `OnlyWriterSees`: outside the write phase no run has seen rows
  that its reconciliation could take for its own;
* `KeysAreFresh`: a new row never replaces an old one, in either table;
* `ViewsWereShown`: what a web thread has loaded was shown, so what it
  acknowledges was.

`PersistedIs` is the central lemma: with at most one match, what
`persist_job_posting` writes keeps keys and external ids unique, because a
consistent row's key tells its identity (`KeyTellsIdentity`). `ReconciledIs` and
`ReconcileIs` do the same for reconciliation, and each action has its lemma.

`Discovery_proofs` proves the invariants and action properties of the run
`discovery`, and `SnapshotsAreFinal`, for any identities, platforms, queries,
users and numbers of runs, mishaps and clicks, from `DiscoveryAssumption`. `DInv`
adds to `RunningIsWorkedOn` and `NotFoundWasLookedFor` how the task, its run and
the requests fit together:

* `OwnRun`: while the task is at work its run is RUNNING and not finished;
* `WebOK`: a request has in hand a row that is there, of a run that is no longer
  RUNNING. The two together keep the writers apart: the task writes the rows of
  its own run and the requests never do, which is `SnapshotsAreFinal`;
* `TaskOK`: every way to the last save carries a final status, and what the
  inventory queries are said to cover is among what was looked for;
* `RunsOK`: runs are created in the order of their keys, so that a new one starts
  without checks.

`SettledRunsAreComplete` speaks of the step that ends a run, but what it says has
to be kept through all the steps before it. `CInv` says that, once its checks are
made, every platform of the run is `Explained`: it was not reached, an answer said
"not found", or the run has a candidate of it. No step may report a finding without
a row, or lose the row of one, and no step but an exception may end a run before
its checks are made. A run that `_finish` does not find incomplete has then, by
`NotFoundWasLookedFor`, been told of every platform or has a candidate of it.

`TaskWrites` reduces a step of the task to what it writes, and each step has its
lemma. For `NotFoundWasLookedFor` three of them matter: the end of a crawl of a
domain, the answer to a sweep query, and `MarkCovered`, which relies on `TaskOK`.

`SourceAdapters_proofs` has four parts. The first proves `RequestsAreReported`
and `RecordsAreDescribed` for any postings, page sizes and limits, from
`FetchAssumption`. `FetchInv` says that a fetch counts the requests it sent while
it runs; only the browser of Darwinbox counts otherwise, by the bodies it captured
or by the count noted with the trouble, and both stay below what was sent. Each
adapter has a lemma for its step.

The second part proves `NoListingTwice` and `EvidenceIsOfItsHost` for any hosts,
paths, words, escapes and links, from `UrlAssumption`. A listing has no platform
of its own, so two sources are compared over all platforms. The `DetectionInv`
says of every source of the Company that its own adapter accepts its address, that
it has evidence, that the identities of two sources differ, and (`NoOther`) that a
generic source has no address by which a platform would have been told. Of the
operators of `SourceUrls` the lemmas say that a literal address is read as it is
written (`LiteralIsDecoded`), that a listing read on the evidence of an address
tells its platform (`ListingTellsPlatform`), and that one identity is then read by
one listing. What remains for two sources of one listing is what the property
excepts; that escapes do occur `MCSourceAdaptersDivergences` shows.

The third part proves `TotalsAreReached`, `RequestsAreBounded` and
`FetchTypeOK`, and that every adapter implements `SnapshotFetch`, for any set of
postings, page size, limits and number of changes and odd answers. From
`FetchAssumption`, from `RegistryAssumption` (every platform that can be selected
has an adapter, `registry.py`), and from `LinkedInAssumption`: the next offset is
at most a batch further, or a posting would lie between two batches. That one the
adapter, which is not registered, takes for granted: its offsets are fixed and the
site decides how long a batch is.

The inductive invariant `SnapInv` says, besides the types and the bound, that all
that was collected was published at some time since the start, and of each
adapter what it knows while it reads (`LeverReads`, `DarwinboxReads` and so on).
The heart of each is a sentence about a fetch that is `Calm`, one without an odd
answer on a site that has not changed: *what is collected so far is exactly the
part of the listing that was read.* The part is given by the ranks of the
postings in the site, and `RanksAreAll`, `WindowFits` and `WindowIsFull` relate
ranks to pages: a page that is not full is the last one.

* Lever and LinkedIn have read the postings below an offset; the short or empty
  page that ends the fetch leaves none behind it.
* DreamJobs keeps that a calm total is the size of the site. At the end the
  number of postings equals the total, and a subset of a finite set that has its
  size is the set (`JobsAreFinite`). The same total, told by every page, gives
  `TotalsAreReached`, calm or not.
* Darwinbox does so twice: while the browser captures bodies, and while they are
  read or pages are asked for. `Captured` is the union of the bodies up to one of
  them, and unless trouble is noted the bodies tell one total; the last may tell
  another while the listing is incomplete, which is refused when it is read
  (`BodiesAgree`). `PagesTaken` counts requests against pages for `RequestsAreBounded`: the
  browser may capture up to the limit before its page is at rest, and clicks for
  more, so the bound is twice the page limit.
* JazzHR and Zoho read their listing in one answer, so a change of the site does
  not matter: the batch is the listing at that moment.
* The generic adapter has addresses instead of offsets. `GoesOnAt` says that it has
  seen the pages it asked for, which for a pager with a next link are those before
  the current one. A pager of any other kind links every page from every page, so
  when no fresh link remains all were asked for.

`FetchMoves` shows that every step of an adapter leaves the site alone and goes on
or ends, never forgetting an odd answer. It is then a stutter, `Work`, `Raise`,
or, by `Complete`, `Return`; a beginning is `Begins` and a change of the site
`Publish`.

The fourth part proves `FailureHasCause`: no adapter gives up on a site that answers
truly, does not change meanwhile, stays below the limits and has the form its adapter
takes, which is `Serves`, said for each adapter in its own module. As it stands the property is not inductive: a
Lever fetch at its page limit, with postings left, has not raised yet. `CauseInv` says of
a `Calm` fetch of a site that `Serves` not only that it has not raised, but that it is
where the limits leave room for the rest (`Room`):

* Lever has skipped as many postings as its pages hold, so that the page of the limit
  is the one that is not full;
* DreamJobs has sent as many requests as it has read pages, and later sent and queued
  `Needed(n) + n` of them;
* LinkedIn was shown the batches of the offsets up to now, none of them empty, so no
  batch comes twice; and a batch without news comes after one with the last posting,
  so the overlaps are those `LinkedInServes` counts;
* the generic adapter asks for each of its pages once, and each is one the pager has.
  `GenericServes` excepts a site of several pages whose pager names the first by a
  second address: the adapter asks for it again and refuses the page as a repeated
  one (`generic.py:1262` when it is the same to the letter, `generic.py:1285` when
  it has no new posting);
* every body the browser of Darwinbox captured is the true page of its number. True
  bodies agree (`TrueBodies`), no trouble is noted, and those of a closed browser are all
  of the listing.

JazzHR and Zoho raise in the step that reads their one answer, and need no more than
`SnapInv`. The assumptions are those of the second and third part, `UrlAssumption` because a fetch is
of a source that its own adapter accepts (`DetectionInv`).
The proof showed that `LinkedInServes` had said too little of the site: a continuation
from offset 0 repeats the first batch, the page limit counts the batch that is empty,
and the overlaps that count are those behind the batch with the last posting. It says
so now.

`UpdateJobs_proofs` has three parts, about what a user sees of Update jobs.

* `QuietBannerIsPatient`, for any sources, submissions and runs, from
  `PollingAssumption` and from `OneBrowser`, which is what the run has: while a
  request of one browser submits, another browser may submit one of its sources
  first and have it run, and that run is then taken for the batch's own (TLC finds
  this with two browsers and one source). `PollingInv` says that a row belongs to
  a submission of its source (`RowsAreWork`) and is terminal only when that
  submission is over (`TerminalIsOver`); and that behind a quiet baseline no row
  is older than the submission the batch waits for (`BatchesAreKept`), because the
  sources still to be submitted are idle and have no row there (`TodoIsFresh`).
  The first run behind the baseline, which the banner looks at, then speaks for
  the submission or for a later one. `LatestIs` and `SmallestIs` say that the
  queries for a latest and a first row find one.
* `MarkerWasLinked` for any requests that overlap, and `ReadStaysRead` for those
  that do not (`OneTab`: with two the marker does move back, section 3), for any
  runs and clock readings. A request that holds the session is the only one that
  moves its marker (`LoadedIsCurrent`), and the order of the boundaries is
  transitive.
* `EnrichedStaysEnriched` and `LimitIsSpentOnNeed` for any pages, any ways to
  store addresses and any limit, from `EnrichmentAssumption`. While a run reads
  details what it skips are the addresses that enriched rows store
  (`EnrichmentInv`). A posting that is `Alone` is skipped exactly when it is
  enriched, and no other row is kept under its address (`AloneIs`), so that
  whatever is committed without a fetch is merged with what makes it sufficient;
  and every listed posting is to be skipped, or tried, or to come, none twice
  (`LimitInv`). Nothing is assumed of the links that are not `Alone`, for which
  `MCGenericEnrichmentDivergences` refutes the promise (section 3).

Every invariant and every action property that a passing run checks is thereby a
theorem. Only model-checked are the three liveness properties, `SlotIsReleased`,
`BannerEnds` and `RichSitesAreEnriched`: fairness is out of TLAPS's reach.

## 5. What is not modelled

Parsing of HTML, JSON and search results, the scoring of links, normalization of
text, templates, scripts and styles, settings, migrations, fixtures and the
spikes are left out: they keep no state, or their outcome is an arbitrary choice
in the models. `approval_status` is constant outside `Discovery`, because every
row the code creates is approved and no view changes it; `Discovery` starts from
rows with any approval, as the tests of discovery do. `CLOSED` is left out because
no code sets it. Of discovery, candidates that are no registered source, several
stored URLs of one identity, URLs that fail validation, and the deletion of a
company under its task are left out; failed searches are free in the code, so
their number is not bounded by the documented budget, and the model does not
count them.

Of addresses, queries and fragments are left out, and the identity of two
sources is that of the code. It is coarser than the listings in two places: a
Zoho source is its host, and a Lever slug is compared without case. It is finer in
three, which `NoListingTwice` excepts and `MCSourceAdaptersDivergences` shows: it
keeps the escapes of a path (`detectors.py:130-138`, `network.py:62-75`) that Lever
and Darwinbox unquote; it keeps the default port of a generic address
(`network.py:74`); and it begins with the platform, so that a generic source and
one that only a body told are two of one page.
`http` and `https` spellings of a generic source are two sources, in the code as
in the model. A page that discovery crawls (`detect_page` for candidates, not for
a source a user enters) reads the signals of its body for links of other hosts
too; `EvidenceIsOfItsHost` is about `company_source_create`.

Of the adapters:

* A request with the transport's own retries is one request. An exception of the
  transport that the adapter does not catch escapes without a count.
* `sent < PageLimit` in `BrowserEmits` is a bound of the model.
* `IsSnapshotFetch` does not claim completeness of a listing in pages that
  changes while it is read. The code cannot: Lever, which has no total, misses a
  posting when another is withdrawn between two pages, although
  `scraping/sources/lever.py:281` calls the batch a "complete, deduplicated
  snapshot"; with Darwinbox and DreamJobs it takes a withdrawal and a publication
  that leave the total the same.
* The first error of a JazzHR page whose markup names a malformed address reports
  no requests (`jazzhr.py:712`); `RequestsAreReported` asks only that an error
  does not report too many. A JazzHR detail page in HTML, without an address, is
  compared by its title.
* The generic adapter compares nothing: it may describe a posting by the page of
  another one of the same host, which `RecordsAreDescribed` excepts. It drops
  candidates without a title.

The model takes from outside the repository how the Python thread pool and its
futures behave (a future is done before its callbacks run; a callback added to a
done future runs at once; a closed pool raises), and that SQLite serializes
writers.

## 6. Plan

1. `Discovery`: candidates of unknown platforms, URLs that fail validation, a
   company deleted under its task; two rows of one identity from `_connect`,
   `confirm_candidate` and `company_source_create`.
2. `JobStore` over `RunLifecycle` rows, so that the write phase and the run it
   ends are one step of one model, and over `SourceAdapters`, so that a batch is
   what a fetch returned.
3. Proofs: the properties of `JobStore` over the rows of `RunLifecycle`, once 2 is
   there.
