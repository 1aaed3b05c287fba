------------------------------ MODULE JobStore ------------------------------
(***************************************************************************)
(* JobPosting rows and what changes them: the write phase of               *)
(* run_source_pipeline (scraping/pipeline.py), which persists one record   *)
(* after another (scraping/persistence.py) and then reconciles the rows it *)
(* has not seen (scraping/reconciliation.py); the acknowledgement of a     *)
(* content version by the detail page (jobs/review.py); the removal of a   *)
(* source with its postings (companies/deletion.py).                       *)
(*                                                                         *)
(* The write phase is one transaction under database_write_guard: its view *)
(* of the table is tx, the committed table is jobs.  SQLite lets other     *)
(* threads read jobs meanwhile and makes them wait to write.  A record     *)
(* that cannot be processed is rolled back to its savepoint and noted; a   *)
(* database error rolls back everything.                                   *)
(*                                                                         *)
(* The site may publish any batch of records at any time, so a batch is    *)
(* not stored: each record is chosen when its turn comes.  Of a record,    *)
(* the model keeps its identity (external id, URL), one value for the      *)
(* fields that enter content_hash and one for compensation_text, which     *)
(* does not.  CLOSED is left out: no code sets it.  recover_job_errors is  *)
(* TRUE, as every caller outside the tests leaves it.                      *)
(***************************************************************************)
EXTENDS Naturals, FiniteSets

CONSTANTS
  Sources, NoSource,
  Ids, NoId,          \* external ids of postings
  Urls, NoUrl,        \* canonical URLs of postings
  Contents,           \* values of the hashed fields other than the URL
  Pay,                \* values of compensation_text
  NoHash,             \* NULL in last_reviewed_content_hash
  Viewers,            \* web threads that show a detail page
  Threshold,          \* miss_threshold
  MaxJobs,            \* bound: JobPosting rows a behaviour may create
  MaxBatch            \* bound: records in a batch

JobIds == 1 .. MaxJobs

ASSUME NullsAssumption ==
  NoSource \notin Sources /\ NoId \notin Ids /\ NoUrl \notin Urls
ASSUME ThresholdAssumption == Threshold \in Nat \ {0}
ASSUME BoundsAssumption == MaxJobs \in Nat /\ MaxBatch \in Nat

VARIABLES
  jobs,      \* committed rows by primary key
  lastPk,    \* AUTOINCREMENT counter
  writer,    \* the source whose pipeline is in its write phase
  tx,        \* that transaction's view of the rows and of the counter
  pipe,      \* each source: its run
  viewer,    \* each web thread: the row it has loaded
  absent,    \* history: successful snapshots of its source since a row was last seen
  shown      \* history: content versions that somebody was shown

vars == <<jobs, lastPk, writer, tx, pipe, viewer, absent, shown>>

(* A record that normalizes: an external id, a URL, or both.               *)
Records ==
  {rec \in [id : Ids \cup {NoId}, url : Urls \cup {NoUrl}, content : Contents, pay : Pay] :
     rec.id # NoId \/ rec.url # NoUrl}

Hashes == Contents \X (Urls \cup {NoUrl})
Keys == ({"id"} \X Ids) \cup ({"url"} \X Urls)

(* compute_content_hash and compute_dedupe_key (scraping/identity.py).     *)
ContentHash(rec) == <<rec.content, rec.url>>
DedupeKey(rec) == IF rec.id # NoId THEN <<"id", rec.id>> ELSE <<"url", rec.url>>

NoRow == [source |-> NoSource]
Row == [source : Sources, id : Ids \cup {NoId}, url : Urls \cup {NoUrl}, key : Keys,
        content : Contents, pay : Pay, hash : Hashes, status : {"active", "not_found"},
        misses : 0 .. Threshold, reviewed : Hashes \cup {NoHash}]
Table == [JobIds -> Row \cup {NoRow}]

Idle == [run |-> "none", seen |-> {}, failed |-> FALSE, records |-> 0]
Pipe == [run : {"none", "running", "success", "partial", "failed", "deleted"},
         seen : SUBSET JobIds, failed : BOOLEAN, records : 0 .. MaxBatch]
NoView == [job |-> 0, hash |-> NoHash]

JobTypeOK ==
  /\ jobs \in Table /\ lastPk \in 0 .. MaxJobs
  /\ writer \in Sources \cup {NoSource}
  /\ tx \in [rows : Table, lastPk : 0 .. MaxJobs]
  /\ pipe \in [Sources -> Pipe]
  /\ viewer \in [Viewers -> [job : 0 .. MaxJobs, hash : Hashes \cup {NoHash}]]
  /\ absent \in [JobIds -> 0 .. Threshold]
  /\ shown \subseteq JobIds \X Hashes

Closed == [rows |-> [j \in JobIds |-> NoRow], lastPk |-> 0]   \* no transaction

Init ==
  /\ jobs = [j \in JobIds |-> NoRow] /\ lastPk = 0
  /\ writer = NoSource /\ tx = Closed
  /\ pipe = [s \in Sources |-> Idle]
  /\ viewer = [v \in Viewers |-> NoView]
  /\ absent = [j \in JobIds |-> 0]
  /\ shown = {}

-----------------------------------------------------------------------------
(* persist_job_posting on the rows of a table.                             *)

RowsOf(rows, s) == {j \in JobIds : rows[j].source = s}

ById(rows, s, rec) == {j \in RowsOf(rows, s) : rows[j].id = rec.id}

(* _single_url_fallback considers rows without an external id.             *)
ByAnyUrl(rows, s, rec) ==   \* mutant: rows with an external id are taken too
  {j \in RowsOf(rows, s) : rec.url # NoUrl /\ rows[j].url = rec.url}

ByUrl(rows, s, rec) ==
  {j \in RowsOf(rows, s) : rec.url # NoUrl /\ rows[j].id = NoId /\ rows[j].url = rec.url}

ByKey(rows, s, rec) == {j \in RowsOf(rows, s) : rows[j].key = DedupeKey(rec)}

(* _find_existing; more than one match is an IdentityConflictError.        *)
Matches(rows, s, rec) ==
  IF rec.id = NoId THEN ByKey(rows, s, rec)
  ELSE ById(rows, s, rec) \cup ByUrl(rows, s, rec)

NewRow(s, rec) ==
  [source |-> s, id |-> rec.id, url |-> rec.url, key |-> DedupeKey(rec),
   content |-> rec.content, pay |-> rec.pay, hash |-> ContentHash(rec),
   status |-> "active", misses |-> 0, reviewed |-> NoHash]

(* _update_existing: a URL row that is recognized by an incoming id is     *)
(* upgraded to that id; the content fields are written only when their     *)
(* hash changed.                                                           *)
KeyIsKept(row, rec) == row.key   \* mutant: the upgrade forgets dedupe_key

UpgradedKey(row, rec) == DedupeKey(rec)

UpdatedRow(row, rec) ==
  LET upgrade == row.id = NoId /\ rec.id # NoId
      changed == row.hash # ContentHash(rec)
  IN  [row EXCEPT !.id = IF upgrade THEN rec.id ELSE @,
                  !.key = IF upgrade THEN UpgradedKey(row, rec) ELSE @,
                  !.content = IF changed THEN rec.content ELSE @,
                  !.pay = IF changed THEN rec.pay ELSE @,
                  !.url = IF changed THEN rec.url ELSE @,
                  !.hash = ContentHash(rec),
                  !.status = "active", !.misses = 0]

(* The constraints uniq_source_job_dedupe_key and uniq_source_job_source_id. *)
UniqueIdentity(rows) ==
  \A j, k \in JobIds :
    /\ j # k /\ rows[j] # NoRow /\ rows[k] # NoRow
    /\ rows[j].source = rows[k].source
    => rows[j].key # rows[k].key /\ (rows[j].id = NoId \/ rows[j].id # rows[k].id)

(* The row that takes the record, and the table afterwards.                *)
Persisted(view, s, rec) ==
  IF Matches(view.rows, s, rec) = {}
    THEN LET pk == view.lastPk + 1 IN
         [pk |-> pk, view |-> [rows |-> [view.rows EXCEPT ![pk] = NewRow(s, rec)], lastPk |-> pk]]
    ELSE LET pk == CHOOSE j \in Matches(view.rows, s, rec) : TRUE IN
         [pk |-> pk, view |-> [rows |-> [view.rows EXCEPT ![pk] = UpdatedRow(view.rows[pk], rec)],
                               lastPk |-> view.lastPk]]

(* Bound: no batch is larger than the rows left.                           *)
RoomFor(view, s, rec) == Matches(view.rows, s, rec) # {} \/ view.lastPk < MaxJobs

-----------------------------------------------------------------------------
(* reconcile_jobs_after_successful_run, given what the run has seen.       *)

RowsOfAnySource(rows, s) == {j \in JobIds : rows[j] # NoRow}   \* mutant: the scope is lost

ReconciledRows(rows, s) == RowsOf(rows, s)

UncappedMisses(row, seen) ==   \* mutant: a NOT_FOUND row goes on counting
  IF seen THEN [row EXCEPT !.misses = 0]
  ELSE [row EXCEPT !.misses = @ + 1,
                   !.status = IF row.misses + 1 >= Threshold THEN "not_found" ELSE @]

Reconciled(row, seen) ==
  IF seen THEN [row EXCEPT !.misses = 0]
  ELSE IF row.status = "not_found" THEN [row EXCEPT !.misses = Threshold]
  ELSE IF row.misses + 1 >= Threshold
    THEN [row EXCEPT !.misses = Threshold, !.status = "not_found"]
    ELSE [row EXCEPT !.misses = @ + 1]

Reconcile(rows, s, seen) ==
  [j \in JobIds |-> IF j \in ReconciledRows(rows, s) THEN Reconciled(rows[j], j \in seen) ELSE rows[j]]

-----------------------------------------------------------------------------
(* run_source_pipeline.                                                    *)

StartRun(s) ==
  /\ pipe[s].run \notin {"running", "deleted"}
  /\ pipe' = [pipe EXCEPT ![s] = [Idle EXCEPT !.run = "running"]]
  /\ UNCHANGED <<jobs, lastPk, writer, tx, viewer, absent, shown>>

(* The fetch raised.                                                       *)
FailFetch(s) ==
  /\ pipe[s].run = "running" /\ writer # s
  /\ pipe' = [pipe EXCEPT ![s].run = "failed"]
  /\ UNCHANGED <<jobs, lastPk, writer, tx, viewer, absent, shown>>

BeginWrite(s) ==
  /\ pipe[s].run = "running" /\ writer = NoSource
  /\ writer' = s
  /\ tx' = [rows |-> jobs, lastPk |-> lastPk]
  /\ UNCHANGED <<jobs, lastPk, pipe, viewer, absent, shown>>

NextRecord(s) == writer = s /\ pipe[s].records < MaxBatch

PersistRecord(s, rec) ==
  /\ NextRecord(s)
  /\ Cardinality(Matches(tx.rows, s, rec)) < 2
  /\ RoomFor(tx, s, rec)
  /\ LET p == Persisted(tx, s, rec) IN
       /\ UniqueIdentity(p.view.rows)
       /\ tx' = p.view
       /\ pipe' = [pipe EXCEPT ![s].seen = @ \cup {p.pk}, ![s].records = @ + 1]
  /\ UNCHANGED <<jobs, lastPk, writer, viewer, absent, shown>>

(* A record that does not normalize, an IdentityConflictError, or a        *)
(* constraint: the savepoint is rolled back.                               *)
RejectRecord(s) ==
  /\ NextRecord(s)
  /\ pipe' = [pipe EXCEPT ![s].failed = TRUE, ![s].records = @ + 1]
  /\ UNCHANGED <<jobs, lastPk, writer, tx, viewer, absent, shown>>

(* finish_scrape_run and the end of the transaction.                       *)
Commit(s, status, rows) ==
  /\ jobs' = rows /\ lastPk' = tx.lastPk
  /\ writer' = NoSource /\ tx' = Closed
  /\ pipe' = [pipe EXCEPT ![s] = [Idle EXCEPT !.run = status]]
  /\ UNCHANGED <<viewer, shown>>

CommitSuccess(s) ==
  LET seen == pipe[s].seen IN
  /\ writer = s /\ ~pipe[s].failed
  /\ Commit(s, "success", Reconcile(tx.rows, s, seen))
  /\ absent' = [j \in JobIds |-> IF j \in seen THEN 0
                                 ELSE IF jobs[j].source = s /\ absent[j] < Threshold
                                   THEN absent[j] + 1 ELSE absent[j]]

(* A mixed batch is kept without reconciliation.                           *)
PartialRowsReconciled(s) == Reconcile(tx.rows, s, pipe[s].seen)   \* mutant: reconciles anyway

PartialRows(s) == tx.rows

CommitPartial(s) ==
  /\ writer = s /\ pipe[s].failed /\ pipe[s].seen # {}
  /\ Commit(s, "partial", PartialRows(s))
  /\ absent' = [j \in JobIds |-> IF j \in pipe[s].seen THEN 0 ELSE absent[j]]

(* AllJobRecordsFailedError, or any other error of the write phase.        *)
RollBack(s) ==
  /\ writer = s
  /\ writer' = NoSource /\ tx' = Closed
  /\ pipe' = [pipe EXCEPT ![s] = [Idle EXCEPT !.run = "failed"]]
  /\ UNCHANGED <<jobs, lastPk, viewer, absent, shown>>

(* delete_company_source.                                                  *)
DeleteSource(s) ==
  /\ writer = NoSource
  /\ pipe[s].run \notin {"running", "deleted"}
  /\ jobs' = [j \in JobIds |-> IF jobs[j].source = s THEN NoRow ELSE jobs[j]]
  /\ absent' = [j \in JobIds |-> IF jobs[j].source = s THEN 0 ELSE absent[j]]
  /\ pipe' = [pipe EXCEPT ![s].run = "deleted"]
  /\ UNCHANGED <<lastPk, writer, tx, viewer, shown>>

-----------------------------------------------------------------------------
(* job_detail: load, render, acknowledge.                                  *)

OpenDetail(v, j) ==
  /\ viewer[v] = NoView /\ jobs[j] # NoRow
  /\ viewer' = [viewer EXCEPT ![v] = [job |-> j, hash |-> jobs[j].hash]]
  /\ shown' = shown \cup {<<j, jobs[j].hash>>}
  /\ UNCHANGED <<jobs, lastPk, writer, tx, pipe, absent>>

LatestVersion(v) == jobs[viewer[v].job].hash   \* mutant: acknowledges the row as it is now

LoadedVersion(v) == viewer[v].hash   \* mutant: the row's hash is not compared

(* mark_job_reviewed updates the row only while it has the loaded hash.    *)
Acknowledged(v) ==
  LET row == jobs[viewer[v].job] IN
  IF row.hash = viewer[v].hash THEN viewer[v].hash ELSE row.reviewed

MarkReviewed(v) ==
  /\ viewer[v] # NoView /\ writer = NoSource
  /\ jobs' = IF jobs[viewer[v].job] = NoRow THEN jobs
             ELSE [jobs EXCEPT ![viewer[v].job].reviewed = Acknowledged(v)]
  /\ viewer' = [viewer EXCEPT ![v] = NoView]
  /\ UNCHANGED <<lastPk, writer, tx, pipe, absent, shown>>

Next ==
  \/ \E s \in Sources : \/ StartRun(s) \/ FailFetch(s) \/ BeginWrite(s) \/ RejectRecord(s)
                        \/ \E rec \in Records : PersistRecord(s, rec)
                        \/ CommitSuccess(s) \/ CommitPartial(s) \/ RollBack(s)
                        \/ DeleteSource(s)
  \/ \E v \in Viewers : MarkReviewed(v) \/ \E j \in JobIds : OpenDetail(v, j)

Spec == Init /\ [][Next]_vars

-----------------------------------------------------------------------------
(* Properties.                                                             *)

(* Inside a source a posting has one row: every row carries the key of its *)
(* identity, and no two rows share a key or an external id, whatever mix   *)
(* of records with and without external ids the site has published.        *)
ConsistentTable(rows) ==
  /\ UniqueIdentity(rows)
  /\ \A j \in JobIds : rows[j] # NoRow =>
       rows[j].key = DedupeKey(rows[j]) /\ rows[j].hash = ContentHash(rows[j])

IdentityIsConsistent == ConsistentTable(jobs) /\ ConsistentTable(tx.rows)

(* The lookup of persist_job_posting is complete: no record it accepts is  *)
(* refused by a unique constraint, and at most one URL row ever matches    *)
(* (the "multiple URL-fallback rows" error cannot happen).                 *)
LookupIsComplete ==
  \A s \in Sources, rec \in Records :
    writer = s =>
      /\ Cardinality(ByUrl(tx.rows, s, rec)) <= 1
      /\ Cardinality(Matches(tx.rows, s, rec)) < 2 /\ RoomFor(tx, s, rec)
           => UniqueIdentity(Persisted(tx, s, rec).view.rows)

(* docs/MULTI_SOURCE_ARCHITECTURE.md:93-103: the end of a run of one       *)
(* source, successful or not, leaves the postings of every other source    *)
(* alone.                                                                  *)
SourcesAreIsolated ==
  [][\A s \in Sources : pipe'[s].run # pipe[s].run =>
       \A j \in JobIds : jobs[j].source \notin {s, NoSource} => jobs'[j] = jobs[j]]_vars

(* A posting is NOT_FOUND exactly when the last Threshold successful       *)
(* snapshots of its source missed it; failed and partial runs count for    *)
(* nothing, and being seen clears the count.                               *)
MissesAreConsecutive ==
  \A j \in JobIds : jobs[j] # NoRow =>
    /\ jobs[j].misses = absent[j]
    /\ jobs[j].status = "not_found" <=> absent[j] = Threshold

(* Nobody's acknowledgement covers a content version that was never shown. *)
ReviewedWasShown ==
  \A j \in JobIds : jobs[j] # NoRow /\ jobs[j].reviewed # NoHash =>
    <<j, jobs[j].reviewed>> \in shown

(* A REVIEWED posting becomes unreviewed only by new content: a slow       *)
(* reader of an old version cannot take the acknowledgement back.          *)
AcknowledgementSticks ==
  [][\A j \in JobIds :
       /\ jobs[j] # NoRow /\ jobs[j].reviewed = jobs[j].hash
       /\ jobs'[j] # NoRow /\ jobs'[j].hash = jobs[j].hash
       => jobs'[j].reviewed = jobs[j].reviewed]_vars

-----------------------------------------------------------------------------
(* What the documentation says and the code does not do.                   *)

(* docs/BACKEND_VERIFICATION.md:233-234, "shared persistence of            *)
(* employment_type, seniority_level, and compensation_text": the row that  *)
(* takes a record holds what the record said.                              *)
RecordIsStored ==
  [][\A s \in Sources, rec \in Records : PersistRecord(s, rec) =>
       \E j \in pipe'[s].seen : tx'.rows[j].content = rec.content /\ tx'.rows[j].pay = rec.pay]_vars

(* docs/MILESTONES.md:36-37, "deduplication, and safe identity upgrades":  *)
(* a posting that is published with and without its id has one row.        *)
OneRowPerUrl ==
  \A j, k \in JobIds :
    /\ j # k /\ jobs[j] # NoRow /\ jobs[k] # NoRow /\ jobs[j].source = jobs[k].source
    /\ jobs[j].url # NoUrl /\ jobs[j].url = jobs[k].url
    => jobs[j].id # NoId /\ jobs[k].id # NoId
=============================================================================
