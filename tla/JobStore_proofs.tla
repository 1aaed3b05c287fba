--------------------------- MODULE JobStore_proofs ---------------------------
(***************************************************************************)
(* Proofs about the postings for any sources, records, thresholds, batches *)
(* and viewers.                                                            *)
(*                                                                         *)
(* JInv relates the open transaction to the committed rows: a row that the *)
(* run has not seen is as it was, a row that it has seen is of its source, *)
(* active, without misses, and as reviewed as before.                      *)
(***************************************************************************)
EXTENDS JobStore, FiniteSetTheorems, TLAPS

View == [rows : Table, lastPk : 0 .. MaxJobs]

Fresh(rows, n) == \A j \in JobIds : j > n => rows[j] = NoRow

RowIsConsistent(row) == row.key = DedupeKey(row) /\ row.hash = ContentHash(row)

-----------------------------------------------------------------------------
(* Rows and records.                                                       *)
LEMMA RowCases ==
  ASSUME NEW r \in Row \cup {NoRow}
  PROVE  /\ r # NoRow <=> r.source \in Sources
         /\ r \in Row <=> r.source \in Sources
         /\ r = NoRow <=> r.source = NoSource
BY NullsAssumption DEF Row, NoRow

LEMMA RecordIs ==
  ASSUME NEW rec \in Records
  PROVE  /\ rec.id \in Ids \cup {NoId} /\ rec.url \in Urls \cup {NoUrl}
         /\ rec.content \in Contents /\ rec.pay \in Pay
         /\ rec.id = NoId => rec.url \in Urls
         /\ DedupeKey(rec) \in Keys /\ ContentHash(rec) \in Hashes
BY DEF Records, DedupeKey, ContentHash, Keys, Hashes

LEMMA NewRowIs ==
  ASSUME NEW s \in Sources, NEW rec \in Records
  PROVE  /\ NewRow(s, rec) \in Row /\ NewRow(s, rec).source = s
         /\ NewRow(s, rec).id = rec.id /\ NewRow(s, rec).key = DedupeKey(rec)
         /\ NewRow(s, rec).misses = 0 /\ NewRow(s, rec).status = "active"
         /\ NewRow(s, rec).reviewed = NoHash
         /\ RowIsConsistent(NewRow(s, rec))
<1>1. 0 \in 0 .. Threshold
  BY ThresholdAssumption
<1>2. NewRow(s, rec) \in Row
  BY <1>1, RecordIs DEF NewRow, Row
<1>3. RowIsConsistent(NewRow(s, rec))
  BY DEF NewRow, RowIsConsistent, DedupeKey, ContentHash
<1> QED BY <1>2, <1>3 DEF NewRow

LEMMA UpdatedRowIs ==
  ASSUME NEW row \in Row, NEW rec \in Records
  PROVE  LET u == UpdatedRow(row, rec)
             upgrade == row.id = NoId /\ rec.id # NoId
             changed == row.hash # ContentHash(rec)
         IN  /\ u \in Row /\ u.source = row.source
             /\ u.id = IF upgrade THEN rec.id ELSE row.id
             /\ u.key = IF upgrade THEN DedupeKey(rec) ELSE row.key
             /\ u.content = IF changed THEN rec.content ELSE row.content
             /\ u.url = IF changed THEN rec.url ELSE row.url
             /\ u.hash = ContentHash(rec) /\ u.status = "active" /\ u.misses = 0
             /\ u.reviewed = row.reviewed
<1> DEFINE upgrade == row.id = NoId /\ rec.id # NoId
           changed == row.hash # ContentHash(rec)
           id == IF upgrade THEN rec.id ELSE row.id
           key == IF upgrade THEN DedupeKey(rec) ELSE row.key
           content == IF changed THEN rec.content ELSE row.content
           pay == IF changed THEN rec.pay ELSE row.pay
           url == IF changed THEN rec.url ELSE row.url
           hash == ContentHash(rec)
<1>1. UpdatedRow(row, rec) =
        [row EXCEPT !.id = id, !.key = key, !.content = content, !.pay = pay, !.url = url,
                    !.hash = hash, !.status = "active", !.misses = 0]
  BY Zenon DEF UpdatedRow, UpgradedKey
<1>2. /\ id \in Ids \cup {NoId} /\ key \in Keys /\ content \in Contents /\ pay \in Pay
      /\ url \in Urls \cup {NoUrl} /\ hash \in Hashes /\ 0 \in 0 .. Threshold
  BY RecordIs, ThresholdAssumption DEF Row
<1> HIDE DEF id, key, content, pay, url, hash
<1> DEFINE u == [source |-> row.source, id |-> id, url |-> url, key |-> key,
                 content |-> content, pay |-> pay, hash |-> hash, status |-> "active",
                 misses |-> 0, reviewed |-> row.reviewed]
<1>3. UpdatedRow(row, rec) = u
  BY <1>1 DEF Row
<1>4. u \in Row
  BY <1>2 DEF Row
<1> QED BY <1>3, <1>4 DEF id, key, content, url, hash

(* The key of a consistent row tells its identity.                         *)
LEMMA KeyTellsIdentity ==
  ASSUME NEW row \in Row, RowIsConsistent(row), NEW rec \in Records,
         row.key = DedupeKey(rec)
  PROVE  /\ row.id = rec.id
         /\ rec.id = NoId => row.url = rec.url
BY DEF RowIsConsistent, DedupeKey

LEMMA AtMostOne ==
  ASSUME NEW S \in SUBSET JobIds, Cardinality(S) < 2, NEW a \in S, NEW b \in S
  PROVE  a = b
<1>1. IsFiniteSet(S)
  <2>1. IsFiniteSet(JobIds)
    BY BoundsAssumption, FS_Interval DEF JobIds
  <2> QED BY <2>1, FS_Subset
<1>2. SUFFICES ASSUME a # b PROVE FALSE
  OBVIOUS
<1>3. IsFiniteSet({a}) /\ Cardinality({a}) = 1
  BY FS_Singleton
<1>4. Cardinality({a} \cup {b}) = 2
  BY <1>2, <1>3, FS_AddElement
<1>5. Cardinality({a} \cup {b}) <= Cardinality(S)
  BY <1>1, FS_Subset
<1>6. Cardinality(S) \in Nat
  BY <1>1, FS_CardinalityType
<1> QED BY <1>4, <1>5, <1>6

(* persist_job_posting keeps a consistent table consistent, and changes    *)
(* the row that takes the record only.                                     *)
LEMMA PersistedIs ==
  ASSUME NEW view \in View, Fresh(view.rows, view.lastPk), ConsistentTable(view.rows),
         NEW s \in Sources, NEW rec \in Records,
         Cardinality(Matches(view.rows, s, rec)) < 2, RoomFor(view, s, rec)
  PROVE  LET p == Persisted(view, s, rec) IN
         /\ p.pk \in JobIds /\ p.view \in View
         /\ Fresh(p.view.rows, p.view.lastPk) /\ ConsistentTable(p.view.rows)
         /\ p.view.rows[p.pk] \in Row /\ p.view.rows[p.pk].source = s
         /\ p.view.rows[p.pk].misses = 0 /\ p.view.rows[p.pk].status = "active"
         /\ view.rows[p.pk] # NoRow =>
              /\ view.rows[p.pk].source = s
              /\ p.view.rows[p.pk].reviewed = view.rows[p.pk].reviewed
         /\ view.rows[p.pk] = NoRow => p.view.rows[p.pk].reviewed = NoHash
         /\ \A j \in JobIds : j # p.pk => p.view.rows[j] = view.rows[j]
<1> DEFINE rows == view.rows
           M == Matches(rows, s, rec)
           p == Persisted(view, s, rec)
<1>1. rows \in Table /\ view.lastPk \in 0 .. MaxJobs /\ M \subseteq JobIds
  BY DEF View, Matches, ByKey, ById, ByUrl, RowsOf
<1>2. /\ UniqueIdentity(rows)
      /\ \A j \in JobIds : rows[j] # NoRow => rows[j] \in Row /\ RowIsConsistent(rows[j])
  BY <1>1 DEF ConsistentTable, RowIsConsistent, Table
(* A row other than those that match has another key and another id.       *)
<1>3. ASSUME rec.id # NoId \/ M = {}, NEW k \in JobIds, k \notin M, rows[k].source = s
      PROVE  rows[k].key # DedupeKey(rec) /\ (rec.id # NoId => rows[k].id # rec.id)
  <2>1. rows[k] \in Row /\ RowIsConsistent(rows[k])
    BY <1>1, <1>2, <1>3, RowCases DEF Table
  <2>2. CASE rec.id = NoId
    BY <1>3, <2>2 DEF Matches, ByKey, RowsOf
  <2>3. CASE rec.id # NoId
    <3>1. rows[k].id # rec.id
      BY <1>3, <2>3 DEF Matches, ById, RowsOf
    <3> QED BY <2>1, <2>3, <3>1, KeyTellsIdentity
  <2> QED BY <2>2, <2>3
(* Replacing the row of one key by a row of the source that differs from   *)
(* the others in key and id.                                               *)
<1>4. ASSUME NEW pk \in JobIds, NEW n \in Row, n.source = s, RowIsConsistent(n),
             \A k \in JobIds : k # pk /\ rows[k] # NoRow /\ rows[k].source = s =>
               n.key # rows[k].key /\ (n.id = NoId \/ n.id # rows[k].id)
      PROVE  [rows EXCEPT ![pk] = n] \in Table /\ ConsistentTable([rows EXCEPT ![pk] = n])
  <2> DEFINE new == [rows EXCEPT ![pk] = n]
  <2>1. new \in Table
    BY <1>1 DEF Table
  <2>2. new[pk] = n /\ \A k \in JobIds : k # pk => new[k] = rows[k]
    BY <1>1 DEF Table
  <2> HIDE DEF new
  <2>3. UniqueIdentity(new)
    BY <1>2, <1>4, <2>2 DEF UniqueIdentity
  <2>4. \A j \in JobIds : new[j] # NoRow => RowIsConsistent(new[j])
    BY <1>2, <1>4, <2>2
  <2> QED BY <2>1, <2>3, <2>4 DEF ConsistentTable, RowIsConsistent, new
<1>5. CASE M = {}
  <2> DEFINE pk == view.lastPk + 1
             n == NewRow(s, rec)
             new == [rows EXCEPT ![pk] = n]
  <2>1. p = [pk |-> pk, view |-> [rows |-> new, lastPk |-> pk]]
    BY <1>5 DEF Persisted
  <2>2. pk \in JobIds /\ pk \in 0 .. MaxJobs /\ rows[pk] = NoRow
    BY <1>1, <1>5, BoundsAssumption DEF RoomFor, JobIds, Fresh
  <2>3. /\ n \in Row /\ n.source = s /\ n.id = rec.id /\ n.key = DedupeKey(rec) /\ n.misses = 0
        /\ n.status = "active" /\ n.reviewed = NoHash /\ RowIsConsistent(n)
    BY NewRowIs
  <2> HIDE DEF n
  <2>4. new \in Table /\ ConsistentTable(new)
    BY <1>3, <1>4, <1>5, <2>2, <2>3
  <2>5. new[pk] = n /\ \A k \in JobIds : k # pk => new[k] = rows[k]
    BY <1>1, <2>2 DEF Table
  <2>6. Fresh(new, pk)
    BY <1>1, <2>2, <2>5, BoundsAssumption DEF Fresh, JobIds
  <2> HIDE DEF new
  <2>7. /\ p.pk = pk /\ p.view.rows = new /\ p.view.lastPk = pk
        /\ p.view = [rows |-> new, lastPk |-> pk]
    BY <2>1
  <2> HIDE DEF p, pk
  <2>8. p.view \in View
    BY <2>2, <2>4, <2>7 DEF View
  <2> QED BY <2>2, <2>3, <2>4, <2>5, <2>6, <2>7, <2>8 DEF p
<1>6. CASE M # {}
  <2> DEFINE pk == CHOOSE j \in M : TRUE
             row == rows[pk]
             n == UpdatedRow(row, rec)
             new == [rows EXCEPT ![pk] = n]
  <2>1. p = [pk |-> pk, view |-> [rows |-> new, lastPk |-> view.lastPk]]
    BY <1>6 DEF Persisted
  <2>2. pk \in M /\ pk \in JobIds
    BY <1>1, <1>6
  <2> HIDE DEF pk
  <2>3. row.source = s /\ row \in Row /\ RowIsConsistent(row) /\ row # NoRow
    <3>1. row.source = s
      BY <2>2 DEF Matches, ByKey, ById, ByUrl, RowsOf
    <3> QED BY <1>1, <1>2, <2>2, <3>1, RowCases DEF Table
  <2>4. \A k \in JobIds : k # pk => k \notin M
    BY <1>1, <2>2, AtMostOne
  <2>5. rec.id = NoId => row.id = NoId /\ row.url = rec.url
    BY <2>2, <2>3, KeyTellsIdentity DEF Matches, ByKey
  <2>6. /\ n \in Row /\ n.source = row.source
        /\ n.id = IF row.id = NoId /\ rec.id # NoId THEN rec.id ELSE row.id
        /\ n.key = IF row.id = NoId /\ rec.id # NoId THEN DedupeKey(rec) ELSE row.key
        /\ n.content = IF row.hash # ContentHash(rec) THEN rec.content ELSE row.content
        /\ n.url = IF row.hash # ContentHash(rec) THEN rec.url ELSE row.url
        /\ n.hash = ContentHash(rec) /\ n.status = "active" /\ n.misses = 0
        /\ n.reviewed = row.reviewed
    BY <2>3, UpdatedRowIs
  <2> HIDE DEF n
  <2>7. RowIsConsistent(n)
    <3>1. n.hash = ContentHash(n)
      BY <2>3, <2>6 DEF RowIsConsistent, ContentHash
    <3>2. n.key = DedupeKey(n)
      BY <2>3, <2>5, <2>6 DEF RowIsConsistent, DedupeKey
    <3> QED BY <3>1, <3>2 DEF RowIsConsistent
  <2>8. \A k \in JobIds : k # pk /\ rows[k] # NoRow /\ rows[k].source = s =>
          n.key # rows[k].key /\ (n.id = NoId \/ n.id # rows[k].id)
    <3>1. CASE row.id = NoId /\ rec.id # NoId
      BY <1>3, <2>4, <2>6, <3>1
    <3>2. CASE ~(row.id = NoId /\ rec.id # NoId)
      <4>1. n.key = row.key /\ n.id = row.id
        BY <2>6, <3>2
      <4> QED BY <1>2, <2>2, <2>3, <4>1 DEF UniqueIdentity
    <3> QED BY <3>1, <3>2
  <2>9. new \in Table /\ ConsistentTable(new)
    BY <1>4, <2>2, <2>3, <2>6, <2>7, <2>8
  <2>10. new[pk] = n /\ \A k \in JobIds : k # pk => new[k] = rows[k]
    BY <1>1, <2>2 DEF Table
  <2>11. Fresh(new, view.lastPk)
    BY <2>2, <2>3, <2>10 DEF Fresh
  <2> HIDE DEF new
  <2>12. /\ p.pk = pk /\ p.view.rows = new /\ p.view.lastPk = view.lastPk
         /\ p.view = [rows |-> new, lastPk |-> view.lastPk]
    BY <2>1
  <2> HIDE DEF p
  <2>13. p.view \in View
    BY <1>1, <2>9, <2>12 DEF View
  <2> QED BY <2>2, <2>3, <2>6, <2>9, <2>10, <2>11, <2>12, <2>13 DEF p
<1> QED BY <1>5, <1>6

-----------------------------------------------------------------------------
(* The inductive invariant.                                                *)

WriterRuns == writer # NoSource => pipe[writer].run = "running"

OnlyWriterSees == \A s \in Sources : s # writer => pipe[s].seen = {}

KeysAreFresh == Fresh(jobs, lastPk) /\ Fresh(tx.rows, tx.lastPk)

(* A row that the open transaction has written, before it and now.         *)
WrittenRow(before, now) ==
  /\ now \in Row /\ now.source = writer /\ now.misses = 0 /\ now.status = "active"
  /\ before = NoRow => now.reviewed = NoHash
  /\ before # NoRow => before.source = writer /\ now.reviewed = before.reviewed

TxFollows ==
  IF writer = NoSource THEN tx = Closed
  ELSE \A j \in JobIds : IF j \in pipe[writer].seen THEN WrittenRow(jobs[j], tx.rows[j])
                         ELSE tx.rows[j] = jobs[j]

ViewsWereShown ==
  \A v \in Viewers : viewer[v] # NoView =>
    viewer[v].job \in JobIds /\ <<viewer[v].job, viewer[v].hash>> \in shown

JInv ==
  /\ JobTypeOK /\ WriterRuns /\ OnlyWriterSees /\ KeysAreFresh
  /\ ConsistentTable(jobs) /\ ConsistentTable(tx.rows)
  /\ TxFollows /\ MissesAreConsecutive /\ ReviewedWasShown /\ ViewsWereShown

(* The table of a closed transaction is empty.                             *)
LEMMA ClosedIs ==
  /\ Closed \in View /\ Fresh(Closed.rows, Closed.lastPk) /\ ConsistentTable(Closed.rows)
<1>1. 0 \in 0 .. MaxJobs
  BY BoundsAssumption
<1> QED BY <1>1 DEF Closed, View, Table, Fresh, ConsistentTable, UniqueIdentity

LEMMA IdleIs == Idle \in Pipe /\ Idle.seen = {}
  BY BoundsAssumption DEF Idle, Pipe

(* A run that has just started or just ended.                              *)
LEMMA IdleWithRun ==
  ASSUME NEW status \in {"running", "success", "partial", "failed"}
  PROVE  LET q == [Idle EXCEPT !.run = status] IN q \in Pipe /\ q.seen = {} /\ q.run = status
BY IdleIs DEF Pipe

LEMMA InitEstablishes ==
  ASSUME Init PROVE JInv
<1>1. 0 \in 0 .. MaxJobs /\ 0 \in 0 .. Threshold
  BY BoundsAssumption, ThresholdAssumption
<1>2. JobTypeOK
  BY <1>1, ClosedIs, IdleIs DEF Init, JobTypeOK, Table, View, NoView
<1>3. OnlyWriterSees
  BY IdleIs DEF Init, OnlyWriterSees
<1>4. ConsistentTable(jobs) /\ ConsistentTable(tx.rows) /\ KeysAreFresh
  BY ClosedIs DEF Init, ConsistentTable, UniqueIdentity, KeysAreFresh, Fresh
<1> QED BY <1>2, <1>3, <1>4
        DEF Init, JInv, WriterRuns, TxFollows, MissesAreConsecutive, ReviewedWasShown,
            ViewsWereShown

-----------------------------------------------------------------------------
(* Steps that change only the run of a source.                             *)
LEMMA RunSteps ==
  ASSUME JInv, UNCHANGED <<jobs, lastPk, writer, tx, viewer, absent, shown>>,
         NEW s \in Sources, NEW q \in Pipe, pipe' = [pipe EXCEPT ![s] = q],
         s = writer => q.run = "running" /\ q.seen = pipe[s].seen,
         s # writer => q.seen = {}
  PROVE  JInv'
<1> USE DEF JInv
<1>1. pipe \in [Sources -> Pipe] /\ writer \in Sources \cup {NoSource}
  BY DEF JobTypeOK
<1>2. pipe'[s] = q /\ \A r \in Sources : r # s => pipe'[r] = pipe[r]
  BY <1>1
<1>3. JobTypeOK'
  BY <1>1 DEF JobTypeOK
<1>4. WriterRuns' /\ OnlyWriterSees'
  BY <1>1, <1>2 DEF WriterRuns, OnlyWriterSees
<1>5. TxFollows'
  <2>1. writer # NoSource => pipe'[writer].seen = pipe[writer].seen
    BY <1>1, <1>2
  <2> QED BY <2>1 DEF TxFollows, WrittenRow
<1>6. MissesAreConsecutive' /\ ReviewedWasShown' /\ ViewsWereShown' /\ KeysAreFresh'
  BY DEF MissesAreConsecutive, ReviewedWasShown, ViewsWereShown, KeysAreFresh, Fresh
<1>7. ConsistentTable(jobs)' /\ ConsistentTable(tx.rows)'
  BY DEF ConsistentTable, UniqueIdentity
<1> QED BY <1>3, <1>4, <1>5, <1>6, <1>7

LEMMA StartRunStep ==
  ASSUME JInv, NEW s \in Sources, StartRun(s) PROVE JInv'
<1> DEFINE q == [Idle EXCEPT !.run = "running"]
<1>1. q \in Pipe /\ q.seen = {}
  BY IdleWithRun
<1>2. s # writer
  BY NullsAssumption DEF StartRun, JInv, WriterRuns
<1> HIDE DEF q
<1>3. pipe' = [pipe EXCEPT ![s] = q]
  BY Zenon DEF StartRun, q
<1> QED BY <1>1, <1>2, <1>3, RunSteps DEF StartRun

LEMMA FailFetchStep ==
  ASSUME JInv, NEW s \in Sources, FailFetch(s) PROVE JInv'
<1> DEFINE q == [pipe[s] EXCEPT !.run = "failed"]
<1>1. pipe[s] \in Pipe
  BY DEF JInv, JobTypeOK
<1>2. q \in Pipe /\ q.seen = pipe[s].seen
  BY <1>1 DEF Pipe
<1>3. pipe' = [pipe EXCEPT ![s] = q]
  BY DEF FailFetch
<1> HIDE DEF q
<1>4. s # writer /\ pipe[s].seen = {}
  BY DEF FailFetch, JInv, OnlyWriterSees
<1> QED BY <1>2, <1>3, <1>4, RunSteps DEF FailFetch

LEMMA RejectRecordStep ==
  ASSUME JInv, NEW s \in Sources, RejectRecord(s) PROVE JInv'
<1> DEFINE q == [pipe[s] EXCEPT !.failed = TRUE, !.records = @ + 1]
<1>1. pipe[s] \in Pipe /\ pipe[s].records < MaxBatch /\ writer = s
  BY DEF JInv, JobTypeOK, RejectRecord, NextRecord
<1>2. q \in Pipe /\ q.seen = pipe[s].seen /\ q.run = pipe[s].run
  <2>1. pipe[s].records + 1 \in 0 .. MaxBatch
    BY <1>1, BoundsAssumption DEF Pipe
  <2>2. ASSUME NEW n \in 0 .. MaxBatch
        PROVE  LET r == [pipe[s] EXCEPT !.failed = TRUE, !.records = n] IN
               r \in Pipe /\ r.seen = pipe[s].seen /\ r.run = pipe[s].run
    BY <1>1 DEF Pipe
  <2> QED BY <2>1, <2>2, Zenon
<1>3. pipe' = [pipe EXCEPT ![s] = q]
  BY Zenon DEF RejectRecord
<1> HIDE DEF q
<1>4. pipe[s].run = "running"
  BY <1>1, NullsAssumption DEF JInv, WriterRuns
<1> QED BY <1>1, <1>2, <1>3, <1>4, RunSteps DEF RejectRecord

-----------------------------------------------------------------------------
(* The write phase.                                                        *)
LEMMA BeginWriteStep ==
  ASSUME JInv, NEW s \in Sources, BeginWrite(s) PROVE JInv'
<1> USE DEF JInv, BeginWrite
<1>1. JobTypeOK'
  BY DEF JobTypeOK
<1>2. WriterRuns'
  BY DEF WriterRuns
<1>3. \A r \in Sources : pipe[r].seen = {}
  BY NullsAssumption DEF OnlyWriterSees
<1>4. OnlyWriterSees' /\ TxFollows'
  BY <1>3, NullsAssumption DEF OnlyWriterSees, TxFollows
<1>5. KeysAreFresh'
  BY DEF KeysAreFresh, Fresh
<1>6. ConsistentTable(jobs)' /\ ConsistentTable(tx.rows)'
  BY DEF ConsistentTable, UniqueIdentity
<1>7. MissesAreConsecutive' /\ ReviewedWasShown' /\ ViewsWereShown'
  BY DEF MissesAreConsecutive, ReviewedWasShown, ViewsWereShown
<1> QED BY <1>1, <1>2, <1>4, <1>5, <1>6, <1>7

LEMMA PersistRecordStep ==
  ASSUME JInv, NEW s \in Sources, NEW rec \in Records, PersistRecord(s, rec) PROVE JInv'
<1> DEFINE p == Persisted(tx, s, rec)
           q == [pipe[s] EXCEPT !.seen = @ \cup {p.pk}, !.records = @ + 1]
<1>1. /\ writer = s /\ writer # NoSource /\ pipe[s].records < MaxBatch /\ tx' = p.view
      /\ UNCHANGED <<jobs, lastPk, writer, viewer, absent, shown>>
  BY NullsAssumption DEF PersistRecord, NextRecord
<1>2. pipe' = [pipe EXCEPT ![s] = q]
  BY Zenon DEF PersistRecord
<1>3. /\ p.pk \in JobIds /\ p.view \in View
      /\ Fresh(p.view.rows, p.view.lastPk) /\ ConsistentTable(p.view.rows)
      /\ p.view.rows[p.pk] \in Row /\ p.view.rows[p.pk].source = s
      /\ p.view.rows[p.pk].misses = 0 /\ p.view.rows[p.pk].status = "active"
      /\ tx.rows[p.pk] # NoRow =>
           /\ tx.rows[p.pk].source = s
           /\ p.view.rows[p.pk].reviewed = tx.rows[p.pk].reviewed
      /\ tx.rows[p.pk] = NoRow => p.view.rows[p.pk].reviewed = NoHash
      /\ \A j \in JobIds : j # p.pk => p.view.rows[j] = tx.rows[j]
  <2>1. tx \in View /\ Fresh(tx.rows, tx.lastPk) /\ ConsistentTable(tx.rows)
    BY DEF JInv, JobTypeOK, View, KeysAreFresh
  <2>2. Cardinality(Matches(tx.rows, s, rec)) < 2 /\ RoomFor(tx, s, rec)
    BY DEF PersistRecord
  <2> QED BY <2>1, <2>2, PersistedIs
<1> HIDE DEF p
<1>4. pipe[s] \in Pipe /\ pipe \in [Sources -> Pipe]
  BY DEF JInv, JobTypeOK
<1>5. /\ q \in Pipe /\ q.run = pipe[s].run /\ q.seen = pipe[s].seen \cup {p.pk}
  <2>1. pipe[s].records + 1 \in 0 .. MaxBatch /\ pipe[s].seen \cup {p.pk} \in SUBSET JobIds
    BY <1>1, <1>3, <1>4, BoundsAssumption DEF Pipe
  <2>2. ASSUME NEW n \in 0 .. MaxBatch, NEW S \in SUBSET JobIds
        PROVE  LET r == [pipe[s] EXCEPT !.seen = S, !.records = n] IN
               r \in Pipe /\ r.run = pipe[s].run /\ r.seen = S
    BY <1>4 DEF Pipe
  <2> QED BY <2>1, <2>2, Zenon
<1> HIDE DEF q
<1>6. pipe'[s] = q /\ \A r \in Sources : r # s => pipe'[r] = pipe[r]
  BY <1>2, <1>4
<1>7. JobTypeOK'
  BY <1>1, <1>2, <1>3, <1>4, <1>5 DEF JInv, JobTypeOK, View
<1>8. WriterRuns' /\ OnlyWriterSees'
  BY <1>1, <1>5, <1>6 DEF JInv, WriterRuns, OnlyWriterSees
<1>9. KeysAreFresh'
  BY <1>1, <1>3 DEF JInv, KeysAreFresh, Fresh
<1>10. ConsistentTable(jobs)' /\ ConsistentTable(tx.rows)'
  BY <1>1, <1>3 DEF JInv, ConsistentTable, UniqueIdentity
<1>11. TxFollows'
  <2> SUFFICES ASSUME NEW j \in JobIds
               PROVE  IF j \in q.seen THEN WrittenRow(jobs[j], p.view.rows[j])
                      ELSE p.view.rows[j] = jobs[j]
    BY <1>1, <1>6 DEF TxFollows, WrittenRow
  <2>1. IF j \in pipe[s].seen THEN WrittenRow(jobs[j], tx.rows[j]) ELSE tx.rows[j] = jobs[j]
    BY <1>1 DEF JInv, TxFollows
  <2>2. CASE j # p.pk
    BY <1>3, <1>5, <2>1, <2>2
  <2>3. CASE j = p.pk
    <3>1. CASE j \in pipe[s].seen
      <4>1. tx.rows[j] \in Row /\ tx.rows[j] # NoRow
        BY <2>1, <3>1, RowCases DEF WrittenRow
      <4> QED BY <1>1, <1>3, <1>5, <2>1, <2>3, <3>1, <4>1 DEF WrittenRow
    <3>2. CASE j \notin pipe[s].seen
      BY <1>1, <1>3, <1>5, <2>1, <2>3, <3>2 DEF WrittenRow
    <3> QED BY <3>1, <3>2
  <2> QED BY <2>2, <2>3
<1>12. MissesAreConsecutive' /\ ReviewedWasShown' /\ ViewsWereShown'
  BY <1>1 DEF JInv, MissesAreConsecutive, ReviewedWasShown, ViewsWereShown
<1> QED BY <1>7, <1>8, <1>9, <1>10, <1>11, <1>12 DEF JInv

-----------------------------------------------------------------------------
(* The ends of a write phase.                                              *)

(* What reconciliation and the acknowledgement leave of a row.             *)
SameIdentity(a, b) ==
  /\ a.source = b.source /\ a.id = b.id /\ a.url = b.url /\ a.key = b.key
  /\ a.content = b.content /\ a.hash = b.hash

(* A table keeps its consistency when its rows keep their identities.      *)
LEMMA IdentityIsKept ==
  ASSUME NEW before \in Table, NEW after \in Table, ConsistentTable(before),
         \A j \in JobIds : after[j] # NoRow => before[j] # NoRow /\ SameIdentity(after[j], before[j])
  PROVE  ConsistentTable(after)
BY DEF ConsistentTable, UniqueIdentity, SameIdentity, DedupeKey, ContentHash

LEMMA ReconciledIs ==
  ASSUME NEW row \in Row, NEW seen \in BOOLEAN
  PROVE  LET r == Reconciled(row, seen) IN
         /\ r \in Row /\ SameIdentity(r, row) /\ r.reviewed = row.reviewed
         /\ seen => r.misses = 0 /\ r.status = row.status
         /\ ~seen /\ row.status = "not_found" => r.misses = Threshold /\ r.status = "not_found"
         /\ ~seen /\ row.status = "active" /\ row.misses + 1 >= Threshold =>
              r.misses = Threshold /\ r.status = "not_found"
         /\ ~seen /\ row.status = "active" /\ row.misses + 1 < Threshold =>
              r.misses = row.misses + 1 /\ r.status = "active"
<1>1. ASSUME NEW m \in 0 .. Threshold
      PROVE  LET r == [row EXCEPT !.misses = m, !.status = "not_found"] IN
             r \in Row /\ SameIdentity(r, row) /\ r.reviewed = row.reviewed
             /\ r.misses = m /\ r.status = "not_found"
  BY DEF Row, SameIdentity
<1>2. 0 \in 0 .. Threshold /\ Threshold \in 0 .. Threshold /\ row.status \in {"active", "not_found"}
  BY ThresholdAssumption DEF Row
<1>3. ASSUME NEW m \in 0 .. Threshold
      PROVE  LET r == [row EXCEPT !.misses = m] IN
             r \in Row /\ SameIdentity(r, row) /\ r.reviewed = row.reviewed
             /\ r.misses = m /\ r.status = row.status
  BY DEF Row, SameIdentity
<1>4. CASE seen
  <2>1. Reconciled(row, seen) = [row EXCEPT !.misses = 0]
    BY <1>4 DEF Reconciled
  <2> QED BY <1>2, <1>3, <1>4, <2>1, Zenon
<1>5. CASE ~seen /\ row.status = "not_found"
  <2>1. Reconciled(row, seen) = [row EXCEPT !.misses = Threshold]
    BY <1>5 DEF Reconciled
  <2> DEFINE r == Reconciled(row, seen)
  <2>2. r \in Row /\ SameIdentity(r, row) /\ r.reviewed = row.reviewed /\ r.misses = Threshold
        /\ r.status = row.status
    BY <1>2, <1>3, <2>1, Zenon
  <2> QED BY <1>5, <2>2
<1>6. CASE ~seen /\ row.status = "active" /\ row.misses + 1 >= Threshold
  <2>1. Reconciled(row, seen) = [row EXCEPT !.misses = Threshold, !.status = "not_found"]
    BY <1>6 DEF Reconciled
  <2> DEFINE r == Reconciled(row, seen)
  <2>2. r \in Row /\ SameIdentity(r, row) /\ r.reviewed = row.reviewed /\ r.misses = Threshold
        /\ r.status = "not_found"
    BY <1>1, <1>2, <2>1, Zenon
  <2>3. ~(row.misses + 1 < Threshold)
    BY <1>6, ThresholdAssumption DEF Row
  <2> QED BY <1>6, <2>2, <2>3
<1>7. CASE ~seen /\ row.status = "active" /\ ~(row.misses + 1 >= Threshold)
  <2>1. row.misses + 1 \in 0 .. Threshold /\ row.status # "not_found"
    BY <1>7, ThresholdAssumption DEF Row
  <2>2. Reconciled(row, seen) = [row EXCEPT !.misses = row.misses + 1]
    BY <1>7 DEF Reconciled
  <2> QED BY <1>3, <1>7, <2>1, <2>2, Zenon
<1> QED BY <1>2, <1>4, <1>5, <1>6, <1>7

(* Reconciliation of the rows of one source.                               *)
LEMMA ReconcileIs ==
  ASSUME NEW rows \in Table, NEW s \in Sources, NEW seen \in SUBSET JobIds
  PROVE  LET r == Reconcile(rows, s, seen) IN
         /\ r \in Table
         /\ \A j \in JobIds :
              /\ rows[j].source # s => r[j] = rows[j]
              /\ rows[j].source = s /\ j \in seen => r[j] = Reconciled(rows[j], TRUE)
              /\ rows[j].source = s /\ j \notin seen => r[j] = Reconciled(rows[j], FALSE)
              /\ r[j] = NoRow <=> rows[j] = NoRow
              /\ r[j] # NoRow => SameIdentity(r[j], rows[j]) /\ r[j].reviewed = rows[j].reviewed
<1> DEFINE r == Reconcile(rows, s, seen)
<1>1. ASSUME NEW j \in JobIds
      PROVE  /\ rows[j].source # s => r[j] = rows[j]
             /\ rows[j].source = s /\ j \in seen => r[j] = Reconciled(rows[j], TRUE)
             /\ rows[j].source = s /\ j \notin seen => r[j] = Reconciled(rows[j], FALSE)
  BY DEF Reconcile, ReconciledRows, RowsOf, Reconciled
<1>2. ASSUME NEW j \in JobIds
      PROVE  /\ r[j] \in Row \cup {NoRow}
             /\ r[j] = NoRow <=> rows[j] = NoRow
             /\ r[j] # NoRow => SameIdentity(r[j], rows[j]) /\ r[j].reviewed = rows[j].reviewed
  <2>1. rows[j] \in Row \cup {NoRow}
    BY DEF Table
  <2> HIDE DEF r
  <2>2. CASE rows[j].source # s
    BY <1>1, <2>1, <2>2 DEF SameIdentity
  <2>3. CASE rows[j].source = s
    <3>1. rows[j] \in Row /\ rows[j] # NoRow
      BY <2>1, <2>3, RowCases
    <3>2. r[j] \in Row /\ SameIdentity(r[j], rows[j]) /\ r[j].reviewed = rows[j].reviewed
      BY <1>1, <2>3, <3>1, ReconciledIs
    <3> QED BY <2>3, <3>1, <3>2, RowCases DEF SameIdentity
  <2> QED BY <2>2, <2>3
<1>3. r \in Table
  BY <1>2 DEF Table, Reconcile
<1> QED BY <1>1, <1>2, <1>3

(* Any end of a write phase: the transaction closes, and the committed     *)
(* rows are consistent, counted and acknowledged as they must be.          *)
LEMMA EndStep ==
  ASSUME JInv, NEW s \in Sources, writer = s,
         NEW q \in Pipe, q.seen = {}, pipe' = [pipe EXCEPT ![s] = q],
         writer' = NoSource, tx' = Closed, UNCHANGED <<viewer, shown>>,
         jobs' \in Table, lastPk' \in 0 .. MaxJobs, absent' \in [JobIds -> 0 .. Threshold],
         ConsistentTable(jobs'), Fresh(jobs', lastPk'), MissesAreConsecutive', ReviewedWasShown'
  PROVE  JInv'
<1> USE DEF JInv
<1>1. pipe \in [Sources -> Pipe] /\ pipe'[s] = q /\ \A r \in Sources : r # s => pipe'[r] = pipe[r]
  BY DEF JobTypeOK
<1>2. JobTypeOK'
  BY <1>1, ClosedIs DEF JobTypeOK, View
<1>3. OnlyWriterSees'
  BY <1>1 DEF OnlyWriterSees
<1>4. KeysAreFresh' /\ ConsistentTable(tx.rows)' /\ ConsistentTable(jobs)'
  BY ClosedIs DEF KeysAreFresh, Fresh, ConsistentTable, UniqueIdentity
<1> QED BY <1>2, <1>3, <1>4 DEF WriterRuns, TxFollows, ViewsWereShown

LEMMA RollBackStep ==
  ASSUME JInv, NEW s \in Sources, RollBack(s) PROVE JInv'
<1> DEFINE q == [Idle EXCEPT !.run = "failed"]
<1>1. q \in Pipe /\ q.seen = {}
  BY IdleWithRun
<1>2. pipe' = [pipe EXCEPT ![s] = q]
  BY DEF RollBack
<1> HIDE DEF q
<1>3. /\ writer = s /\ writer' = NoSource /\ tx' = Closed
      /\ UNCHANGED <<jobs, lastPk, viewer, absent, shown>>
  BY DEF RollBack
<1>4. /\ jobs' \in Table /\ lastPk' \in 0 .. MaxJobs /\ absent' \in [JobIds -> 0 .. Threshold]
      /\ Fresh(jobs', lastPk') /\ ConsistentTable(jobs')
  BY <1>3 DEF JInv, JobTypeOK, KeysAreFresh
<1>5. MissesAreConsecutive' /\ ReviewedWasShown'
  BY <1>3 DEF JInv, MissesAreConsecutive, ReviewedWasShown
<1> QED BY <1>1, <1>2, <1>3, <1>4, <1>5, EndStep

(* The view of an open transaction, row by row.                            *)
LEMMA OpenTx ==
  ASSUME JInv, NEW s \in Sources, writer = s
  PROVE  /\ tx.rows \in Table /\ tx.lastPk \in 0 .. MaxJobs
         /\ pipe[s].seen \in SUBSET JobIds
         /\ \A j \in JobIds : IF j \in pipe[s].seen THEN WrittenRow(jobs[j], tx.rows[j])
                              ELSE tx.rows[j] = jobs[j]
<1>1. writer # NoSource
  BY NullsAssumption
<1> QED BY <1>1 DEF JInv, JobTypeOK, TxFollows, Pipe

LEMMA CommitSuccessStep ==
  ASSUME JInv, NEW s \in Sources, CommitSuccess(s) PROVE JInv'
<1> DEFINE q == [Idle EXCEPT !.run = "success"]
           seen == pipe[s].seen
           rows == tx.rows
           done == Reconcile(rows, s, seen)
<1>1. q \in Pipe /\ q.seen = {}
  BY IdleWithRun
<1>2. pipe' = [pipe EXCEPT ![s] = q]
  BY DEF CommitSuccess, Commit
<1> HIDE DEF q
<1>3. /\ writer = s /\ writer' = NoSource /\ tx' = Closed /\ UNCHANGED <<viewer, shown>>
      /\ jobs' = done /\ lastPk' = tx.lastPk
      /\ absent' = [j \in JobIds |-> IF j \in seen THEN 0
                                     ELSE IF jobs[j].source = s /\ absent[j] < Threshold
                                       THEN absent[j] + 1 ELSE absent[j]]
  BY DEF CommitSuccess, Commit
<1>4. /\ rows \in Table /\ tx.lastPk \in 0 .. MaxJobs /\ seen \in SUBSET JobIds
      /\ \A j \in JobIds : IF j \in seen THEN WrittenRow(jobs[j], rows[j])
                           ELSE rows[j] = jobs[j]
  BY <1>3, OpenTx
<1>5. /\ done \in Table
      /\ \A j \in JobIds :
           /\ rows[j].source # s => done[j] = rows[j]
           /\ rows[j].source = s /\ j \in seen => done[j] = Reconciled(rows[j], TRUE)
           /\ rows[j].source = s /\ j \notin seen => done[j] = Reconciled(rows[j], FALSE)
           /\ done[j] = NoRow <=> rows[j] = NoRow
           /\ done[j] # NoRow => SameIdentity(done[j], rows[j]) /\ done[j].reviewed = rows[j].reviewed
  BY <1>4, ReconcileIs
<1>6. /\ jobs \in Table /\ absent \in [JobIds -> 0 .. Threshold] /\ Threshold \in Nat
      /\ Fresh(rows, tx.lastPk) /\ ConsistentTable(rows) /\ MissesAreConsecutive /\ ReviewedWasShown
  BY ThresholdAssumption DEF JInv, JobTypeOK, KeysAreFresh
<1> HIDE DEF done, seen, rows
<1>7. absent' \in [JobIds -> 0 .. Threshold]
  <2>1. \A j \in JobIds : absent[j] < Threshold => absent[j] + 1 \in 0 .. Threshold
    BY <1>6
  <2>2. 0 \in 0 .. Threshold
    BY <1>6
  <2> QED BY <1>3, <1>6, <2>1, <2>2
<1>8. ConsistentTable(jobs') /\ Fresh(jobs', lastPk')
  BY <1>3, <1>4, <1>5, <1>6, IdentityIsKept DEF Fresh
<1>9. ReviewedWasShown'
  <2> SUFFICES ASSUME NEW j \in JobIds, done[j] # NoRow, done[j].reviewed # NoHash
               PROVE  <<j, done[j].reviewed>> \in shown
    BY <1>3 DEF ReviewedWasShown
  <2>1. jobs[j] # NoRow /\ done[j].reviewed = jobs[j].reviewed
    BY <1>4, <1>5 DEF WrittenRow
  <2> QED BY <1>6, <2>1 DEF ReviewedWasShown
<1>10. MissesAreConsecutive'
  <2> SUFFICES ASSUME NEW j \in JobIds, done[j] # NoRow
               PROVE  /\ done[j].misses = absent'[j]
                      /\ done[j].status = "not_found" <=> absent'[j] = Threshold
    BY <1>3 DEF MissesAreConsecutive
  <2>1. rows[j] \in Row /\ rows[j] # NoRow
    BY <1>4, <1>5 DEF Table
  <2>2. rows[j].status \in {"active", "not_found"} /\ rows[j].misses \in 0 .. Threshold
    BY <2>1 DEF Row
  <2>3. CASE j \in seen
    <3>1. rows[j].source = s /\ rows[j].misses = 0 /\ rows[j].status = "active"
      BY <1>3, <1>4, <2>3 DEF WrittenRow
    <3>2. done[j].misses = 0 /\ done[j].status = "active"
      <4> DEFINE r == Reconciled(rows[j], TRUE)
      <4>1. r.misses = 0 /\ r.status = rows[j].status
        BY <2>1, ReconciledIs
      <4>2. done[j] = r
        BY <1>5, <2>3, <3>1
      <4> HIDE DEF r
      <4> QED BY <3>1, <4>1, <4>2
    <3>3. absent'[j] = 0
      BY <1>3, <2>3
    <3> QED BY <3>2, <3>3, ThresholdAssumption
  <2>4. CASE j \notin seen
    <3>1. /\ jobs[j] = rows[j] /\ rows[j].misses = absent[j] /\ absent[j] \in 0 .. Threshold
          /\ rows[j].status = "not_found" <=> absent[j] = Threshold
      BY <1>4, <1>6, <2>1, <2>4 DEF MissesAreConsecutive
    <3>2. CASE rows[j].source # s
      BY <1>3, <1>5, <2>4, <3>1, <3>2
    <3>3. CASE rows[j].source = s
      <4> DEFINE r == Reconciled(rows[j], FALSE)
      <4>1. /\ rows[j].status = "not_found" => r.misses = Threshold /\ r.status = "not_found"
            /\ rows[j].status = "active" /\ rows[j].misses + 1 >= Threshold =>
                 r.misses = Threshold /\ r.status = "not_found"
            /\ rows[j].status = "active" /\ rows[j].misses + 1 < Threshold =>
                 r.misses = rows[j].misses + 1 /\ r.status = "active"
        BY <2>1, ReconciledIs
      <4>2. done[j] = r
        BY <1>5, <2>4, <3>3
      <4>3. absent'[j] = IF absent[j] < Threshold THEN absent[j] + 1 ELSE absent[j]
        BY <1>3, <2>4, <3>1, <3>3
      <4> HIDE DEF r
      <4> QED BY <1>6, <2>2, <3>1, <4>1, <4>2, <4>3
    <3> QED BY <3>2, <3>3
  <2> QED BY <2>3, <2>4
<1> QED BY <1>1, <1>2, <1>3, <1>4, <1>5, <1>7, <1>8, <1>9, <1>10, EndStep

LEMMA CommitPartialStep ==
  ASSUME JInv, NEW s \in Sources, CommitPartial(s) PROVE JInv'
<1> DEFINE q == [Idle EXCEPT !.run = "partial"]
           seen == pipe[s].seen
           rows == tx.rows
<1>1. q \in Pipe /\ q.seen = {}
  BY IdleWithRun
<1>2. pipe' = [pipe EXCEPT ![s] = q]
  BY DEF CommitPartial, Commit
<1> HIDE DEF q
<1>3. /\ writer = s /\ writer' = NoSource /\ tx' = Closed /\ UNCHANGED <<viewer, shown>>
      /\ jobs' = rows /\ lastPk' = tx.lastPk
      /\ absent' = [j \in JobIds |-> IF j \in seen THEN 0 ELSE absent[j]]
  BY DEF CommitPartial, Commit, PartialRows
<1>4. /\ rows \in Table /\ tx.lastPk \in 0 .. MaxJobs
      /\ \A j \in JobIds : IF j \in seen THEN WrittenRow(jobs[j], rows[j])
                           ELSE rows[j] = jobs[j]
  BY <1>3, OpenTx
<1>5. /\ absent \in [JobIds -> 0 .. Threshold] /\ Threshold \in Nat \ {0}
      /\ Fresh(rows, tx.lastPk) /\ ConsistentTable(rows) /\ MissesAreConsecutive /\ ReviewedWasShown
  BY ThresholdAssumption DEF JInv, JobTypeOK, KeysAreFresh
<1> HIDE DEF seen, rows
<1>6. absent' \in [JobIds -> 0 .. Threshold]
  BY <1>3, <1>5
<1>7. ConsistentTable(jobs') /\ Fresh(jobs', lastPk')
  BY <1>3, <1>5
<1>8. ReviewedWasShown'
  BY <1>3, <1>4, <1>5 DEF ReviewedWasShown, WrittenRow
<1>9. MissesAreConsecutive'
  BY <1>3, <1>4, <1>5 DEF MissesAreConsecutive, WrittenRow
<1> QED BY <1>1, <1>2, <1>3, <1>4, <1>6, <1>7, <1>8, <1>9, EndStep

-----------------------------------------------------------------------------
(* The steps outside a write phase.                                        *)
LEMMA DeleteSourceStep ==
  ASSUME JInv, NEW s \in Sources, DeleteSource(s) PROVE JInv'
<1> DEFINE q == [pipe[s] EXCEPT !.run = "deleted"]
<1>1. /\ pipe \in [Sources -> Pipe] /\ jobs \in Table /\ absent \in [JobIds -> 0 .. Threshold]
      /\ 0 \in 0 .. Threshold
  BY ThresholdAssumption DEF JInv, JobTypeOK
<1>2. /\ writer = NoSource /\ UNCHANGED <<lastPk, writer, tx, viewer, shown>>
      /\ jobs' = [j \in JobIds |-> IF jobs[j].source = s THEN NoRow ELSE jobs[j]]
      /\ absent' = [j \in JobIds |-> IF jobs[j].source = s THEN 0 ELSE absent[j]]
      /\ pipe' = [pipe EXCEPT ![s] = q]
  BY DEF DeleteSource
<1>3. q \in Pipe /\ q.seen = pipe[s].seen
  BY <1>1 DEF Pipe
<1> HIDE DEF q
<1>4. pipe'[s] = q /\ \A r \in Sources : r # s => pipe'[r] = pipe[r]
  BY <1>1, <1>2
<1>5. jobs' \in Table /\ absent' \in [JobIds -> 0 .. Threshold]
  BY <1>1, <1>2 DEF Table
<1>6. JobTypeOK'
  BY <1>1, <1>2, <1>3, <1>5 DEF JInv, JobTypeOK
<1>7. \A j \in JobIds : jobs'[j] # NoRow => jobs[j] # NoRow /\ jobs'[j] = jobs[j] /\ absent'[j] = absent[j]
  BY <1>2
<1>8. ConsistentTable(jobs)' /\ ConsistentTable(tx.rows)'
  BY <1>2, <1>7 DEF JInv, ConsistentTable, UniqueIdentity
<1>9. KeysAreFresh'
  BY <1>2, <1>7 DEF JInv, KeysAreFresh, Fresh
<1>10. MissesAreConsecutive' /\ ReviewedWasShown' /\ ViewsWereShown'
  BY <1>2, <1>7 DEF JInv, MissesAreConsecutive, ReviewedWasShown, ViewsWereShown
<1>11. OnlyWriterSees' /\ WriterRuns' /\ TxFollows'
  BY <1>2, <1>3, <1>4 DEF JInv, OnlyWriterSees, WriterRuns, TxFollows
<1> QED BY <1>6, <1>8, <1>9, <1>10, <1>11 DEF JInv

LEMMA OpenDetailStep ==
  ASSUME JInv, NEW v \in Viewers, NEW j \in JobIds, OpenDetail(v, j) PROVE JInv'
<1> USE DEF JInv
<1>1. /\ UNCHANGED <<jobs, lastPk, writer, tx, pipe, absent>> /\ jobs[j] # NoRow
      /\ viewer' = [viewer EXCEPT ![v] = [job |-> j, hash |-> jobs[j].hash]]
      /\ shown' = shown \cup {<<j, jobs[j].hash>>}
  BY DEF OpenDetail
<1>2. jobs[j].hash \in Hashes /\ j \in 0 .. MaxJobs
  BY <1>1, BoundsAssumption DEF JobTypeOK, Table, Row, JobIds
<1>3. /\ viewer'[v] = [job |-> j, hash |-> jobs[j].hash]
      /\ \A u \in Viewers : u # v => viewer'[u] = viewer[u]
  BY <1>1 DEF JobTypeOK
<1>4. JobTypeOK'
  BY <1>1, <1>2 DEF JobTypeOK
<1>5. ViewsWereShown'
  BY <1>1, <1>3 DEF ViewsWereShown
<1>6. ReviewedWasShown'
  BY <1>1 DEF ReviewedWasShown
<1>7. KeysAreFresh' /\ ConsistentTable(jobs)' /\ ConsistentTable(tx.rows)'
  BY <1>1 DEF KeysAreFresh, Fresh, ConsistentTable, UniqueIdentity
<1>8. MissesAreConsecutive' /\ OnlyWriterSees' /\ WriterRuns'
  BY <1>1 DEF MissesAreConsecutive, OnlyWriterSees, WriterRuns
<1>9. TxFollows'
  BY <1>1 DEF TxFollows, WrittenRow
<1> QED BY <1>4, <1>5, <1>6, <1>7, <1>8, <1>9

(* The row an acknowledgement leaves.                                      *)
LEMMA MarkReviewedIs ==
  ASSUME JInv, NEW v \in Viewers, MarkReviewed(v)
  PROVE  LET k == viewer[v].job IN
         /\ k \in JobIds /\ <<k, viewer[v].hash>> \in shown /\ viewer[v].hash \in Hashes
         /\ jobs' \in Table
         /\ \A j \in JobIds : j # k => jobs'[j] = jobs[j]
         /\ jobs[k] = NoRow => jobs'[k] = NoRow
         /\ jobs[k] # NoRow =>
              /\ jobs'[k] \in Row /\ SameIdentity(jobs'[k], jobs[k])
              /\ jobs'[k].misses = jobs[k].misses /\ jobs'[k].status = jobs[k].status
              /\ jobs'[k].reviewed = IF jobs[k].hash = viewer[v].hash THEN viewer[v].hash
                                     ELSE jobs[k].reviewed
<1> DEFINE k == viewer[v].job
           a == Acknowledged(v)
           row == [jobs[k] EXCEPT !.reviewed = a]
<1>1. k \in JobIds /\ <<k, viewer[v].hash>> \in shown
  BY DEF MarkReviewed, JInv, ViewsWereShown
<1>2. viewer[v].hash \in Hashes
  BY <1>1 DEF JInv, JobTypeOK
<1>3. jobs \in Table
  BY DEF JInv, JobTypeOK
<1>4. CASE jobs[k] = NoRow
  BY <1>1, <1>2, <1>3, <1>4 DEF MarkReviewed
<1>5. CASE jobs[k] # NoRow
  <2>1. jobs' = [jobs EXCEPT ![k] = row]
    BY <1>5, Zenon DEF MarkReviewed
  <2>2. jobs[k] \in Row
    BY <1>1, <1>3, <1>5 DEF Table
  <2>3. a = IF jobs[k].hash = viewer[v].hash THEN viewer[v].hash ELSE jobs[k].reviewed
    BY DEF Acknowledged
  <2>4. a \in Hashes \cup {NoHash}
    BY <1>2, <2>2, <2>3 DEF Row
  <2> HIDE DEF a
  <2>5. /\ row \in Row /\ SameIdentity(row, jobs[k]) /\ row.misses = jobs[k].misses
        /\ row.status = jobs[k].status /\ row.reviewed = a
    BY <2>2, <2>4 DEF Row, SameIdentity
  <2> HIDE DEF row
  <2>6. jobs' \in Table /\ jobs'[k] = row /\ \A j \in JobIds : j # k => jobs'[j] = jobs[j]
    BY <1>1, <1>3, <2>1, <2>5 DEF Table
  <2> HIDE DEF k
  <2> QED BY <1>1, <1>2, <1>5, <2>3, <2>5, <2>6 DEF k
<1> QED BY <1>4, <1>5

LEMMA MarkReviewedStep ==
  ASSUME JInv, NEW v \in Viewers, MarkReviewed(v) PROVE JInv'
<1> DEFINE k == viewer[v].job
<1>1. /\ writer = NoSource /\ UNCHANGED <<lastPk, writer, tx, pipe, absent, shown>>
      /\ viewer' = [viewer EXCEPT ![v] = NoView]
  BY DEF MarkReviewed
<1>2. /\ k \in JobIds /\ <<k, viewer[v].hash>> \in shown /\ viewer[v].hash \in Hashes
      /\ jobs' \in Table
      /\ \A j \in JobIds : j # k => jobs'[j] = jobs[j]
      /\ jobs[k] = NoRow => jobs'[k] = NoRow
      /\ jobs[k] # NoRow =>
           /\ jobs'[k] \in Row /\ SameIdentity(jobs'[k], jobs[k])
           /\ jobs'[k].misses = jobs[k].misses /\ jobs'[k].status = jobs[k].status
           /\ jobs'[k].reviewed = IF jobs[k].hash = viewer[v].hash THEN viewer[v].hash
                                  ELSE jobs[k].reviewed
  BY MarkReviewedIs
<1> HIDE DEF k
<1>3. viewer \in [Viewers -> [job : 0 .. MaxJobs, hash : Hashes \cup {NoHash}]]
  BY DEF JInv, JobTypeOK
<1>4. NoView \in [job : 0 .. MaxJobs, hash : Hashes \cup {NoHash}]
  BY BoundsAssumption DEF NoView
<1>5. viewer'[v] = NoView /\ \A u \in Viewers : u # v => viewer'[u] = viewer[u]
  BY <1>1, <1>3
<1>6. JobTypeOK'
  BY <1>1, <1>2, <1>3, <1>4 DEF JInv, JobTypeOK
<1>7. ViewsWereShown'
  BY <1>1, <1>5 DEF JInv, ViewsWereShown
<1>8. \A j \in JobIds : jobs'[j] # NoRow =>
        /\ jobs[j] # NoRow /\ SameIdentity(jobs'[j], jobs[j])
        /\ jobs'[j].misses = jobs[j].misses /\ jobs'[j].status = jobs[j].status
  BY <1>2 DEF SameIdentity
<1>9. ConsistentTable(jobs)'
  <2>1. ConsistentTable(jobs) /\ jobs \in Table
    BY DEF JInv, JobTypeOK
  <2>2. ConsistentTable(jobs')
    BY <1>2, <1>8, <2>1, IdentityIsKept
  <2> QED BY <2>2
<1>10. ConsistentTable(tx.rows)'
  BY <1>1 DEF JInv, ConsistentTable, UniqueIdentity
<1>11. KeysAreFresh'
  BY <1>1, <1>8 DEF JInv, KeysAreFresh, Fresh
<1>12. MissesAreConsecutive'
  BY <1>1, <1>8 DEF JInv, MissesAreConsecutive
<1>13. ReviewedWasShown'
  BY <1>1, <1>2 DEF JInv, ReviewedWasShown
<1>14. OnlyWriterSees' /\ WriterRuns' /\ TxFollows'
  BY <1>1 DEF JInv, OnlyWriterSees, WriterRuns, TxFollows
<1> QED BY <1>6, <1>7, <1>9, <1>10, <1>11, <1>12, <1>13, <1>14 DEF JInv

-----------------------------------------------------------------------------
(* The theorems.                                                           *)
LEMMA NextKeepsJInv == JInv /\ [Next]_vars => JInv'
<1> SUFFICES ASSUME JInv, [Next]_vars PROVE JInv'
  OBVIOUS
<1>1. ASSUME NEW s \in Sources,
             \/ StartRun(s) \/ FailFetch(s) \/ BeginWrite(s) \/ RejectRecord(s)
             \/ \E rec \in Records : PersistRecord(s, rec)
             \/ CommitSuccess(s) \/ CommitPartial(s) \/ RollBack(s) \/ DeleteSource(s)
      PROVE  JInv'
  BY <1>1, StartRunStep, FailFetchStep, BeginWriteStep, RejectRecordStep, PersistRecordStep,
     CommitSuccessStep, CommitPartialStep, RollBackStep, DeleteSourceStep
<1>2. ASSUME NEW v \in Viewers, MarkReviewed(v) \/ \E j \in JobIds : OpenDetail(v, j)
      PROVE  JInv'
  BY <1>2, MarkReviewedStep, OpenDetailStep
<1>3. CASE UNCHANGED vars
  BY <1>3 DEF vars, JInv, JobTypeOK, WriterRuns, OnlyWriterSees, KeysAreFresh, Fresh,
              ConsistentTable, UniqueIdentity, TxFollows, WrittenRow, MissesAreConsecutive,
              ReviewedWasShown, ViewsWereShown
<1> QED BY <1>1, <1>2, <1>3 DEF Next

LEMMA JInvHolds == Spec => []JInv
BY InitEstablishes, NextKeepsJInv, PTL DEF Spec

(* Types: rows, runs, views and counters stay in their domains, the miss   *)
(* counter within the threshold.                                           *)
THEOREM JobStoreType == Spec => []JobTypeOK
<1>1. JInv => JobTypeOK
  BY DEF JInv
<1> QED BY <1>1, JInvHolds, PTL

(* However many records with and without external ids a site publishes, no *)
(* two rows of a source share a key or an external id, in the committed    *)
(* table and inside the open transaction.                                  *)
THEOREM JobIdentity == Spec => []IdentityIsConsistent
<1>1. JInv => IdentityIsConsistent
  BY DEF JInv, IdentityIsConsistent
<1> QED BY <1>1, JInvHolds, PTL

(* persist_job_posting never runs an accepted record into a unique         *)
(* constraint, and _single_url_fallback never finds two rows.              *)
THEOREM JobLookup == Spec => []LookupIsComplete
<1>1. ASSUME JInv PROVE LookupIsComplete
  <2> SUFFICES ASSUME NEW s \in Sources, NEW rec \in Records, writer = s
               PROVE  /\ Cardinality(ByUrl(tx.rows, s, rec)) <= 1
                      /\ Cardinality(Matches(tx.rows, s, rec)) < 2 /\ RoomFor(tx, s, rec)
                           => UniqueIdentity(Persisted(tx, s, rec).view.rows)
    BY DEF LookupIsComplete
  <2> DEFINE U == ByUrl(tx.rows, s, rec)
  <2>1. tx \in View /\ Fresh(tx.rows, tx.lastPk) /\ ConsistentTable(tx.rows)
    BY <1>1 DEF JInv, JobTypeOK, View, KeysAreFresh
  <2>2. \A a, b \in U : a = b
    <3> SUFFICES ASSUME NEW a \in U, NEW b \in U PROVE a = b
      OBVIOUS
    <3>1. /\ a \in JobIds /\ b \in JobIds /\ tx.rows[a].source = s /\ tx.rows[b].source = s
          /\ tx.rows[a].id = NoId /\ tx.rows[b].id = NoId /\ tx.rows[a].url = tx.rows[b].url
      BY DEF ByUrl, RowsOf
    <3>2. tx.rows[a] # NoRow /\ tx.rows[b] # NoRow
      BY <3>1, NullsAssumption DEF NoRow
    <3>3. tx.rows[a].key = tx.rows[b].key
      BY <2>1, <3>1, <3>2 DEF ConsistentTable, DedupeKey
    <3> QED BY <2>1, <3>1, <3>2, <3>3 DEF ConsistentTable, UniqueIdentity
  <2>3. Cardinality(U) <= 1
    <3> HIDE DEF U
    <3>1. CASE U = {}
      BY <3>1, FS_EmptySet
    <3>2. CASE U # {}
      <4>1. PICK a \in U : U = {a}
        BY <2>2, <3>2
      <4> QED BY <4>1, FS_Singleton
    <3> QED BY <3>1, <3>2
  <2>4. ASSUME Cardinality(Matches(tx.rows, s, rec)) < 2, RoomFor(tx, s, rec)
        PROVE  UniqueIdentity(Persisted(tx, s, rec).view.rows)
    BY <2>1, <2>4, PersistedIs DEF ConsistentTable
  <2> QED BY <2>3, <2>4
<1> QED BY <1>1, JInvHolds, PTL

(* reconcile_jobs_after_successful_run counts consecutive successful       *)
(* snapshots without the posting, whatever failed and partial runs, and    *)
(* other sources, did in between.                                          *)
THEOREM JobMisses == Spec => []MissesAreConsecutive
<1>1. JInv => MissesAreConsecutive
  BY DEF JInv
<1> QED BY <1>1, JInvHolds, PTL

(* mark_job_reviewed never records a content version that job_detail has   *)
(* not shown.                                                              *)
THEOREM JobReviews == Spec => []ReviewedWasShown
<1>1. JInv => ReviewedWasShown
  BY DEF JInv
<1> QED BY <1>1, JInvHolds, PTL

(* The run of a source leaves the postings of the others as they are.      *)
THEOREM JobIsolation == Spec => SourcesAreIsolated
<1> DEFINE A == \A s \in Sources : pipe'[s].run # pipe[s].run =>
                  \A j \in JobIds : jobs[j].source \notin {s, NoSource} => jobs'[j] = jobs[j]
<1>1. ASSUME JInv, Next PROVE A
  <2> SUFFICES ASSUME NEW s \in Sources, pipe'[s].run # pipe[s].run, NEW j \in JobIds,
                      jobs[j].source \notin {s, NoSource}
               PROVE  jobs'[j] = jobs[j]
    OBVIOUS
  <2>1. jobs[j] # NoRow /\ pipe \in [Sources -> Pipe]
    BY <1>1 DEF NoRow, JInv, JobTypeOK
  <2>2. ASSUME NEW t \in Sources, CommitSuccess(t) \/ CommitPartial(t)
        PROVE  jobs'[j] = jobs[j]
    <3>1. writer = t /\ \E q \in Pipe : pipe' = [pipe EXCEPT ![t] = q]
      BY <2>2, IdleWithRun, Zenon DEF CommitSuccess, CommitPartial, Commit
    <3>2. s = t
      BY <2>1, <3>1
    <3>3. /\ tx.rows \in Table /\ pipe[t].seen \in SUBSET JobIds
          /\ IF j \in pipe[t].seen THEN WrittenRow(jobs[j], tx.rows[j]) ELSE tx.rows[j] = jobs[j]
      BY <1>1, <3>1, OpenTx
    <3>4. tx.rows[j] = jobs[j]
      BY <2>1, <3>1, <3>2, <3>3 DEF WrittenRow
    <3>5. CASE CommitPartial(t)
      BY <3>4, <3>5 DEF CommitPartial, Commit, PartialRows
    <3>6. CASE CommitSuccess(t)
      <4>1. jobs' = Reconcile(tx.rows, t, pipe[t].seen)
        BY <3>6 DEF CommitSuccess, Commit
      <4>2. tx.rows[j].source # t
        BY <3>2, <3>4
      <4> QED BY <3>4, <4>1, <4>2 DEF Reconcile, ReconciledRows, RowsOf
    <3> QED BY <2>2, <3>5, <3>6
  <2>3. ASSUME NEW t \in Sources, DeleteSource(t) PROVE jobs'[j] = jobs[j]
    <3>1. s = t
      BY <2>1, <2>3 DEF DeleteSource
    <3> QED BY <2>3, <3>1 DEF DeleteSource
  <2>4. ASSUME NEW v \in Viewers, MarkReviewed(v) PROVE jobs'[j] = jobs[j]
    <3>1. pipe' = pipe
      BY <2>4, Zenon DEF MarkReviewed
    <3> QED BY <3>1
  <2> QED BY <1>1, <2>2, <2>3, <2>4
          DEF Next, StartRun, FailFetch, BeginWrite, RejectRecord, PersistRecord, RollBack, OpenDetail
<1>2. JInv /\ [Next]_vars => [A]_vars
  BY <1>1
<1> QED BY <1>2, JInvHolds, PTL DEF Spec, SourcesAreIsolated

(* A reviewed posting becomes unreviewed by new content only: neither a    *)
(* run nor the reader of another version takes an acknowledgement back.    *)
THEOREM JobAcknowledgement == Spec => AcknowledgementSticks
<1> DEFINE A == \A j \in JobIds :
                  /\ jobs[j] # NoRow /\ jobs[j].reviewed = jobs[j].hash
                  /\ jobs'[j] # NoRow /\ jobs'[j].hash = jobs[j].hash
                  => jobs'[j].reviewed = jobs[j].reviewed
<1>1. ASSUME JInv, Next PROVE A
  <2> SUFFICES ASSUME NEW j \in JobIds, jobs[j] # NoRow, jobs[j].reviewed = jobs[j].hash,
                      jobs'[j] # NoRow, jobs'[j].hash = jobs[j].hash
               PROVE  jobs'[j].reviewed = jobs[j].reviewed
    OBVIOUS
  <2>1. ASSUME NEW s \in Sources, CommitSuccess(s) \/ CommitPartial(s)
        PROVE  jobs'[j].reviewed = jobs[j].reviewed
    <3>1. writer = s
      BY <2>1 DEF CommitSuccess, CommitPartial
    <3>2. /\ tx.rows \in Table /\ pipe[s].seen \in SUBSET JobIds
          /\ IF j \in pipe[s].seen THEN WrittenRow(jobs[j], tx.rows[j]) ELSE tx.rows[j] = jobs[j]
      BY <1>1, <3>1, OpenTx
    <3>3. tx.rows[j].reviewed = jobs[j].reviewed
      BY <3>2 DEF WrittenRow
    <3>4. CASE CommitPartial(s)
      BY <3>3, <3>4 DEF CommitPartial, Commit, PartialRows
    <3>5. CASE CommitSuccess(s)
      <4>1. jobs' = Reconcile(tx.rows, s, pipe[s].seen)
        BY <3>5 DEF CommitSuccess, Commit
      <4> QED BY <3>2, <3>3, <4>1, ReconcileIs
    <3> QED BY <2>1, <3>4, <3>5
  <2>2. ASSUME NEW s \in Sources, DeleteSource(s)
        PROVE  jobs'[j].reviewed = jobs[j].reviewed
    BY <2>2 DEF DeleteSource
  <2>3. ASSUME NEW v \in Viewers, MarkReviewed(v)
        PROVE  jobs'[j].reviewed = jobs[j].reviewed
    BY <1>1, <2>3, MarkReviewedIs DEF SameIdentity
  <2> QED BY <1>1, <2>1, <2>2, <2>3
          DEF Next, StartRun, FailFetch, BeginWrite, RejectRecord, PersistRecord, RollBack, OpenDetail
<1>2. JInv /\ [Next]_vars => [A]_vars
  BY <1>1
<1> QED BY <1>2, JInvHolds, PTL DEF Spec, AcknowledgementSticks
=============================================================================
