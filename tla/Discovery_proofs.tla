-------------------------- MODULE Discovery_proofs --------------------------
(***************************************************************************)
(* Proofs about the discovery of one company, for any identities,          *)
(* platforms, queries, users, and any number of runs, crashes and failed   *)
(* saves.                                                                  *)
(*                                                                         *)
(* DInv says how the task and its run belong together: while the task is   *)
(* at work its run is RUNNING and not finished, no request touches it, and *)
(* its checks have been made by queries that the task remembers.           *)
(***************************************************************************)
EXTENDS Discovery, FiniteSetTheorems, TLAPS

Task ==
  [pc : Phases, run : 0 .. MaxRuns, domain : BOOLEAN,
   plan : {"none", "fallback", "pages"}, results : SUBSET Idents, fresh : SUBSET Idents,
   det : [Idents -> {"none", "weak", "strong"}], asked : Nat, covered : SUBSET Platforms,
   used : 0 .. MaxQueries, status : {"running"} \cup Finals, handled : BOOLEAN,
   created : BOOLEAN, looked : SUBSET Platforms]

(* What the end of a task finds is a final status, whichever way it came.  *)
TaskOK ==
  /\ task \in Task
  /\ task.pc = "idle" <=> task.run = 0
  /\ task.pc = "finish" => task.status \in Finals
  /\ task.pc = "sweep" /\ task.plan = "none" => task.status \in Finals
  /\ task.pc = "persist" => task.plan # "none"
  /\ task.covered \subseteq task.looked

Rows == [Idents -> Candidate \cup {NoCand}]

RowsOK ==
  /\ source \in [Idents -> SourceStates]
  /\ run \in [Runs -> [status : RunStates, finished : BOOLEAN]]
  /\ cand \in [Runs -> Rows]
  /\ check \in [Runs -> [Platforms -> Checks]]

(* Runs are created in the order of their keys, and a row that is not      *)
(* there has no checks.                                                    *)
RunsOK ==
  /\ \E n \in 0 .. MaxRuns : Created = 1 .. n
  /\ \A r \in Runs : run[r].status = "none" =>
       ~run[r].finished /\ \A p \in Platforms : check[r][p] = "none"

(* While the task is at work its run is RUNNING ...                        *)
OwnRun == task.run # 0 => run[task.run].status = "running" /\ ~run[task.run].finished

(* ... and no request has it in hand.                                      *)
Request ==
  [op : {"none", "confirm", "link", "ignore", "restore", "revalidate"}, run : 0 .. MaxRuns,
   ident : Idents \cup {Away.ident}, done : BOOLEAN,
   decision : {"none", "connected", "already_connected"}]

InHand(request) ==
  request.op # "none" =>
    /\ request.run \in Runs /\ request.ident \in Idents
    /\ run[request.run].status \notin {"none", "running"}
    /\ cand[request.run][request.ident] # NoCand
    /\ request.op = "link" => request.decision # "none"

WebOK == web \in [Users -> Request] /\ \A u \in Users : InHand(web[u])

DInv ==
  /\ RowsOK /\ TaskOK /\ RunsOK /\ OwnRun /\ WebOK
  /\ clicks \in Nat /\ mishaps \in Nat
  /\ RunningIsWorkedOn /\ NotFoundWasLookedFor

(* The task writes candidates of its own run only.                         *)
RowsWritten(rows) ==
  rows \in [Runs -> Rows] /\ \A r \in Runs \ {task.run} : rows[r] = cand[r]

(* Of the sources it only creates one.                                     *)
SourcesWritten ==
  /\ source' \in [Idents -> SourceStates]
  /\ \A i \in Idents : source'[i] # source[i] => source[i] = "absent"

(* A step before the end of the task keeps the invariant, the runs, and    *)
(* what the other runs have left.                                          *)
TaskKeeps ==
  /\ DInv' /\ SourcesWritten /\ UNCHANGED <<run, clicks>>
  /\ \A r \in Runs \ {task.run} : cand'[r] = cand[r] /\ check'[r] = check[r]

-----------------------------------------------------------------------------
(* What a step of the task leaves to be shown, by what it writes.          *)
LEMMA TaskWrites ==
  ASSUME DInv, task.run # 0, UNCHANGED <<run, web, counters>>,
         SourcesWritten, RowsWritten(cand'),
         check' \in [Runs -> [Platforms -> Checks]],
         \A r \in Runs \ {task.run} : check'[r] = check[r],
         TaskOK', task'.run = task.run,
         \A p \in Platforms : check'[task.run][p] = "not_found" => p \in task'.looked
  PROVE  TaskKeeps
<1>1. run' = run /\ web' = web /\ clicks' = clicks /\ mishaps' = mishaps
  BY DEF counters
<1>2. RowsOK'
  BY <1>1 DEF DInv, RowsOK, RowsWritten, SourcesWritten
<1>3. run[task.run].status = "running"
  BY DEF DInv, OwnRun
<1>4. RunsOK'
  <2>1. Created' = Created
    BY <1>1 DEF Created
  <2>2. ASSUME NEW r \in Runs, run[r].status = "none", NEW p \in Platforms
        PROVE  ~run[r].finished /\ check'[r][p] = "none"
    BY <1>3, <2>2 DEF DInv, RunsOK
  <2> QED BY <1>1, <2>1, <2>2 DEF DInv, RunsOK
<1>5. OwnRun' /\ RunningIsWorkedOn'
  BY <1>1 DEF DInv, OwnRun, RunningIsWorkedOn
<1>6. WebOK'
  <2>1. ASSUME NEW u \in Users, web[u].op # "none"
        PROVE  cand'[web[u].run][web[u].ident] = cand[web[u].run][web[u].ident]
    BY <1>3, <2>1 DEF DInv, WebOK, InHand, RowsWritten
  <2> QED BY <1>1, <2>1 DEF DInv, WebOK, InHand
<1>7. NotFoundWasLookedFor'
  BY DEF NotFoundWasLookedFor
<1> QED BY <1>1, <1>2, <1>4, <1>5, <1>6, <1>7 DEF DInv, TaskKeeps, RowsWritten

(* The task alone moves on.                                                *)
LEMMA TaskMoves ==
  ASSUME DInv, task.run # 0, UNCHANGED <<source, run, cand, check, web, counters>>,
         TaskOK', task'.run = task.run, task.looked \subseteq task'.looked
  PROVE  TaskKeeps
<1>1. /\ source' = source /\ cand' = cand /\ check' = check
  OBVIOUS
<1>2. \A p \in Platforms : check'[task.run][p] = "not_found" => p \in task'.looked
  BY <1>1 DEF DInv, NotFoundWasLookedFor
<1> QED BY <1>1, <1>2, TaskWrites DEF DInv, RowsOK, RowsWritten, SourcesWritten

(* Rows of candidates and checks of the run of the task.                   *)
LEMMA PutIs ==
  ASSUME DInv, NEW S \in SUBSET Idents, NEW rows \in [S -> Candidate]
  PROVE  RowsWritten(Put(rows))
<1>1. cand \in [Runs -> Rows]
  BY DEF DInv, RowsOK
<1>2. ASSUME NEW old \in Rows
      PROVE  [i \in Idents |-> IF i \in DOMAIN rows THEN rows[i] ELSE old[i]] \in Rows
  BY DEF Rows
<1>3. Put(rows) \in [Runs -> Rows]
  BY <1>1, <1>2 DEF Put
<1>4. \A r \in Runs \ {task.run} : Put(rows)[r] = cand[r]
  BY <1>1 DEF Put
<1> QED BY <1>3, <1>4 DEF RowsWritten

LEMMA RowIs ==
  ASSUME DInv, task.run # 0, NEW i \in Idents
  PROVE  /\ Row(i).ignored \in BOOLEAN
         /\ Retained(i) \in Candidate /\ Detected(i) \in Candidate
         /\ SeedDecision(i) \in Decisions
<1>1. task.run \in Runs
  BY DEF DInv, TaskOK, Task, Runs
<1>2. Row(i) \in Candidate \cup {NoCand}
  BY <1>1 DEF DInv, RowsOK, Rows, Row
<1>3. Row(i).ignored \in BOOLEAN
  <2>1. CASE Row(i) \in Candidate
    BY <2>1 DEF Candidate
  <2>2. CASE Row(i) = NoCand
    BY <2>2 DEF NoCand
  <2> QED BY <1>2, <2>1, <2>2
<1>4. Present(i) \in BOOLEAN
  BY DEF Present
<1>5. Retained(i) \in Candidate
  BY <1>3, <1>4 DEF Retained, Candidate, Decisions, Settled
<1>6. Detected(i) \in Candidate
  BY <1>3, <1>4 DEF Detected, Candidate, Decisions
<1> QED BY <1>3, <1>5, <1>6 DEF SeedDecision, Decisions

LEMMA MarkFoundIs ==
  ASSUME DInv, task.run # 0, NEW found \in SUBSET Idents
  PROVE  /\ MarkFound(found) \in [Runs -> [Platforms -> Checks]]
         /\ \A r \in Runs \ {task.run} : MarkFound(found)[r] = check[r]
         /\ \A p \in Platforms :
              /\ MarkFound(found)[task.run][p] = "not_found" => check[task.run][p] = "not_found"
              /\ check[task.run][p] = "not_found" => task.run # 0 /\ p \in task.looked
<1>1. task.run \in Runs /\ check \in [Runs -> [Platforms -> Checks]]
  BY DEF DInv, TaskOK, Task, Runs, RowsOK
<1>2. "found" \in Checks
  BY DEF Checks
<1>3. MarkFound(found) \in [Runs -> [Platforms -> Checks]]
  BY <1>1, <1>2 DEF MarkFound
<1>4. \A r \in Runs \ {task.run} : MarkFound(found)[r] = check[r]
  BY <1>1 DEF MarkFound
<1>5. \A p \in Platforms :
        MarkFound(found)[task.run][p] = "not_found" => check[task.run][p] = "not_found"
  BY <1>1 DEF MarkFound
<1> QED BY <1>3, <1>4, <1>5 DEF DInv, NotFoundWasLookedFor

LEMMA SetCheckIs ==
  ASSUME DInv, task.run # 0, NEW p \in Platforms, NEW status \in Checks
  PROVE  /\ SetCheck(p, status) \in [Runs -> [Platforms -> Checks]]
         /\ \A r \in Runs \ {task.run} : SetCheck(p, status)[r] = check[r]
         /\ SetCheck(p, status)[task.run][p] = status
         /\ \A q \in Platforms \ {p} : SetCheck(p, status)[task.run][q] = check[task.run][q]
<1>1. task.run \in Runs /\ check \in [Runs -> [Platforms -> Checks]]
  BY DEF DInv, TaskOK, Task, Runs, RowsOK
<1> QED BY <1>1 DEF SetCheck

(* Updates of the locals.                                                  *)
LEMMA EndedIs ==
  ASSUME TaskOK, task.run # 0, NEW status \in Finals
  PROVE  /\ Ended(status) \in Task /\ Ended(status).pc = "finish" /\ Ended(status).run = task.run
         /\ Ended(status).status = status /\ Ended(status).looked = task.looked
         /\ Ended(status).covered = {} /\ Ended(status).plan = "none"
<1>1. Idle \in Task
  BY DiscoveryAssumption DEF Idle, Task, Phases, DiscoveryAssumption
<1>2. /\ task.run \in 0 .. MaxRuns /\ task.handled \in BOOLEAN /\ task.created \in BOOLEAN
      /\ task.looked \in SUBSET Platforms
  BY DEF TaskOK, Task
<1>3. "finish" \in Phases /\ status \in {"running"} \cup Finals
  BY DEF Phases
<1>4. Ended(status) \in Task
  BY <1>1, <1>2, <1>3 DEF Ended, Task
<1> QED BY <1>4 DEF Ended, Idle

LEMMA ConcludeKeeps ==
  ASSUME DInv, task.run # 0, NEW status \in Finals, Conclude(status)
  PROVE  TaskOK' /\ task'.run = task.run /\ task'.looked = task.looked
<1>1. task' = Ended(status) /\ TaskOK
  BY DEF Conclude, DInv
<1> QED BY <1>1, EndedIs DEF TaskOK

LEMMA AtWork ==
  ASSUME DInv, task.pc # "idle"
  PROVE  /\ TaskOK /\ task.run # 0 /\ task.run \in Runs /\ task \in Task
         /\ task.status \in {"running"} \cup Finals /\ task.used \in 0 .. MaxQueries
         /\ task.asked \in Nat /\ task.results \in SUBSET Idents /\ task.fresh \in SUBSET Idents
         /\ task.covered \in SUBSET Platforms /\ task.looked \in SUBSET Platforms
         /\ task.covered \subseteq task.looked
         /\ task.plan \in {"none", "fallback", "pages"}
         /\ MaxQueries \in Nat /\ MaxQueries >= 2
BY DiscoveryAssumption DEF DInv, TaskOK, Task, Runs, DiscoveryAssumption

(* Any step that ends the task for its last save.                          *)
LEMMA ConcludesWork ==
  ASSUME DInv, task.pc # "idle", UNCHANGED <<source, run, cand, check, web, counters>>,
         NEW status \in Finals, Conclude(status)
  PROVE  TaskKeeps
BY AtWork, ConcludeKeeps, TaskMoves

(* A phase that decides what comes next, without writing rows.             *)
LEMMA GoKeeps ==
  ASSUME DInv, task.pc # "idle", NEW phase \in Phases \ {"idle", "finish", "sweep", "persist"},
         Go(phase)
  PROVE  TaskOK' /\ task'.run = task.run /\ task'.looked = task.looked /\ task'.pc = phase
<1>1. task' \in Task /\ task'.pc = phase /\ task'.run = task.run
      /\ task'.looked = task.looked /\ task'.covered = task.covered
  BY AtWork DEF Go, Task
<1> QED BY <1>1, AtWork DEF TaskOK

LEMMA GeneralKeeps ==
  ASSUME DInv, NEW found \in SUBSET Idents, SearchGeneral(found)
  PROVE  TaskKeeps
<1>1. task.pc = "general" /\ UNCHANGED <<source, run, cand, check, web, counters>>
      /\ task' = [task EXCEPT !.used = 2, !.results = found, !.pc = "crawl"]
  BY DEF SearchGeneral
<1>2. 2 \in 0 .. MaxQueries /\ "crawl" \in Phases /\ task.pc # "idle"
  BY <1>1, AtWork DEF Phases
<1>3. /\ task' \in Task /\ task'.pc = "crawl" /\ task'.run = task.run
      /\ task'.looked = task.looked /\ task'.covered = task.covered
  BY <1>1, <1>2, AtWork DEF Task
<1>4. TaskOK'
  BY <1>2, <1>3, AtWork DEF TaskOK
<1> QED BY <1>1, <1>2, <1>3, <1>4, AtWork, TaskMoves

LEMMA CrawlKeeps ==
  ASSUME DInv,
         \/ \E status \in Finals : NoOfficialSite(status)
         \/ CrawlUnreachable \/ CrawlUnconfirmed
         \/ \E det \in [Idents -> {"none", "weak", "strong"}] : CrawlPages(det)
  PROVE  TaskKeeps
<1>1. task.pc = "crawl" /\ task.pc # "idle" /\ UNCHANGED <<source, run, cand, check, web, counters>>
  BY DEF NoOfficialSite, CrawlUnreachable, CrawlUnconfirmed, CrawlPages
<1>2. {"crawl", "inventory", "record", "sweep"} \subseteq Phases /\ "needs_review" \in Finals
  BY DEF Phases, Finals
<1>3. ASSUME NEW status \in Finals, NoOfficialSite(status) PROVE TaskKeeps
  <2>1. CASE Conclude(status)
    BY <1>1, <2>1, ConcludesWork
  <2>2. CASE task' = [task EXCEPT !.status = status, !.plan = "none", !.pc = "sweep"]
    <3>1. /\ task' \in Task /\ task'.pc = "sweep" /\ task'.run = task.run
          /\ task'.looked = task.looked /\ task'.covered = task.covered /\ task'.status = status
      BY <1>1, <1>2, <2>2, AtWork DEF Task
    <3>2. TaskOK'
      BY <1>1, <3>1, AtWork DEF TaskOK
    <3> QED BY <1>1, <3>1, <3>2, AtWork, TaskMoves
  <2> QED BY <1>3, <2>1, <2>2 DEF NoOfficialSite
<1>4. CASE CrawlUnreachable
  <2>1. task' = [task EXCEPT !.plan = "fallback", !.pc = "inventory"]
    BY <1>4 DEF CrawlUnreachable
  <2>2. /\ task' \in Task /\ task'.pc = "inventory" /\ task'.run = task.run
        /\ task'.looked = task.looked /\ task'.covered = task.covered
    BY <1>1, <1>2, <2>1, AtWork DEF Task
  <2>3. TaskOK'
    BY <1>1, <2>2, AtWork DEF TaskOK
  <2> QED BY <1>1, <2>2, <2>3, AtWork, TaskMoves
<1>5. CASE CrawlUnconfirmed
  BY <1>1, <1>2, <1>5, ConcludesWork DEF CrawlUnconfirmed
<1>6. ASSUME NEW det \in [Idents -> {"none", "weak", "strong"}], CrawlPages(det) PROVE TaskKeeps
  <2>1. task' = [task EXCEPT !.plan = "pages", !.det = det, !.pc = "record"]
    BY <1>6 DEF CrawlPages
  <2>2. /\ task' \in Task /\ task'.pc = "record" /\ task'.run = task.run
        /\ task'.looked = task.looked /\ task'.covered = task.covered
    BY <1>1, <1>2, <2>1, AtWork DEF Task
  <2>3. TaskOK'
    BY <1>1, <2>2, AtWork DEF TaskOK
  <2> QED BY <1>1, <2>2, <2>3, AtWork, TaskMoves
<1> QED BY <1>3, <1>4, <1>5, <1>6

(* The inventory queries: what a query covers was looked for if and only   *)
(* if it was answered.                                                     *)
LEMMA QueriesKeeps ==
  ASSUME DInv, QueryFails \/ \E found \in SUBSET Idents : QueryAnswers(found)
  PROVE  TaskKeeps
<1>1. /\ task.pc = "inventory" /\ task.pc # "idle" /\ task.asked < Len(Covers)
      /\ UNCHANGED <<source, run, cand, check, web, counters>>
  BY DEF QueryFails, QueryAnswers, NextQuery
<1>2. CASE QueryFails
  <2> DEFINE n == task.asked + 1
  <2>1. task' = [task EXCEPT !.asked = n]
    BY <1>2 DEF QueryFails
  <2>2. n \in Nat
    BY <1>1, AtWork
  <2> HIDE DEF n
  <2>3. /\ task' \in Task /\ task'.pc = "inventory" /\ task'.run = task.run
        /\ task'.looked = task.looked /\ task'.covered = task.covered
    BY <1>1, <2>1, <2>2, AtWork DEF Task
  <2>4. TaskOK'
    BY <1>1, <2>3, AtWork DEF TaskOK
  <2> QED BY <1>1, <2>3, <2>4, AtWork, TaskMoves
<1>3. ASSUME NEW found \in SUBSET Idents, QueryAnswers(found) PROVE TaskKeeps
  <2> DEFINE n == task.asked + 1
             used == task.used + 1
             results == task.results \cup found
             fresh == task.fresh \cup found
             covered == task.covered \cup Covers[n]
             looked == task.looked \cup Covers[n]
  <2>1. /\ MaySearch
        /\ task' = [task EXCEPT !.asked = n, !.used = used, !.results = results,
                                !.fresh = fresh, !.covered = covered, !.looked = looked]
    BY <1>3 DEF QueryAnswers
  <2>2. n \in Nat /\ n \in 1 .. Len(Covers)
    BY <1>1, AtWork, DiscoveryAssumption DEF DiscoveryAssumption
  <2>3. Covers[n] \in SUBSET Platforms
    BY <2>2, DiscoveryAssumption DEF DiscoveryAssumption
  <2>4. used \in 0 .. MaxQueries
    BY <1>1, <2>1, AtWork DEF MaySearch
  <2>5. /\ results \in SUBSET Idents /\ fresh \in SUBSET Idents /\ covered \in SUBSET Platforms
        /\ looked \in SUBSET Platforms /\ covered \subseteq looked /\ task.looked \subseteq looked
    BY <1>1, <2>3, AtWork
  <2> HIDE DEF n, used, results, fresh, covered, looked
  <2>6. /\ task' \in Task /\ task'.pc = "inventory" /\ task'.run = task.run
        /\ task'.looked = looked /\ task'.covered = covered
    BY <1>1, <2>1, <2>2, <2>4, <2>5, AtWork DEF Task
  <2>7. TaskOK'
    BY <1>1, <2>5, <2>6, AtWork DEF TaskOK
  <2> QED BY <1>1, <2>5, <2>6, <2>7, AtWork, TaskMoves
<1> QED BY <1>2, <1>3

LEMMA InventoryDoneKeeps ==
  ASSUME DInv, InventoryDone
  PROVE  TaskKeeps
<1>1. /\ task.pc = "inventory" /\ task.pc # "idle"
      /\ UNCHANGED <<source, run, cand, check, web, counters>>
  BY DEF InventoryDone
<1>2. CASE task.plan # "none" /\ Go("persist")
  <2>1. "persist" \in Phases
    BY DEF Phases
  <2>2. /\ task' \in Task /\ task'.pc = "persist" /\ task'.run = task.run
        /\ task'.plan = task.plan
        /\ task'.looked = task.looked /\ task'.covered = task.covered
    BY <1>1, <1>2, <2>1, AtWork DEF Go, Task
  <2>3. TaskOK'
    BY <1>1, <1>2, <2>2, AtWork DEF TaskOK
  <2> QED BY <1>1, <2>2, <2>3, AtWork, TaskMoves
<1>3. CASE Conclude("needs_review")
  BY <1>1, <1>3, ConcludesWork DEF Finals
<1> QED BY <1>2, <1>3 DEF InventoryDone

(* The end of the sweep and of the task, an exception anywhere.            *)
LEMMA SweepDoneKeeps ==
  ASSUME DInv, SweepDone
  PROVE  TaskKeeps
<1>1. /\ task.pc = "sweep" /\ task.pc # "idle"
      /\ UNCHANGED <<source, run, cand, check, web, counters>>
  BY DEF SweepDone
<1>2. CASE task.plan = "none" /\ Conclude(task.status)
  <2>1. task.status \in Finals
    BY <1>1, <1>2, AtWork DEF TaskOK
  <2> QED BY <1>1, <1>2, <2>1, ConcludesWork
<1>3. CASE task' = [task EXCEPT !.pc = "covered", !.results = {}, !.used = 0]
  <2>1. "covered" \in Phases /\ 0 \in 0 .. MaxQueries
    BY <1>1, AtWork DEF Phases
  <2>2. /\ task' \in Task /\ task'.pc = "covered" /\ task'.run = task.run
        /\ task'.looked = task.looked /\ task'.covered = task.covered
    BY <1>1, <1>3, <2>1, AtWork DEF Task
  <2>3. TaskOK'
    BY <1>1, <2>2, AtWork DEF TaskOK
  <2> QED BY <1>1, <2>2, <2>3, AtWork, TaskMoves
<1> QED BY <1>2, <1>3 DEF SweepDone

LEMMA UndecidedKeeps ==
  ASSUME DInv, NEW careers \in BOOLEAN, Undecided(careers)
  PROVE  TaskKeeps
<1>1. /\ task.pc = "decide" /\ task.pc # "idle"
      /\ UNCHANGED <<source, run, cand, check, web, counters>>
  BY DEF Undecided
<1>2. PICK status \in Finals : Conclude(status)
  BY DEF Undecided, Finals
<1> QED BY <1>1, <1>2, ConcludesWork

LEMMA RaiseKeeps ==
  ASSUME DInv, Raise
  PROVE  TaskKeeps
<1>1. /\ task.pc # "idle" /\ UNCHANGED <<source, run, cand, check, web, counters>>
      /\ task' = [Ended("failed") EXCEPT !.handled = TRUE]
  BY DEF Raise
<1>2. "failed" \in Finals
  BY DEF Finals
<1>3. /\ task' \in Task /\ task'.pc = "finish" /\ task'.run = task.run /\ task'.status = "failed"
      /\ task'.looked = task.looked /\ task'.covered = {} /\ task'.plan = "none"
  BY <1>1, <1>2, AtWork, EndedIs DEF Task
<1>4. TaskOK'
  BY <1>1, <1>2, <1>3, AtWork DEF TaskOK
<1> QED BY <1>1, <1>3, <1>4, AtWork, TaskMoves

-----------------------------------------------------------------------------
(* The steps that write candidates and checks.  None of them reports a     *)
(* platform as not found that no query and no complete crawl covered.      *)
LEMMA RetainsRows ==
  ASSUME DInv, task.run # 0, NEW S \in SUBSET Idents
  PROVE  /\ RowsWritten(Put([i \in S |-> Retained(i)]))
         /\ RowsWritten(Put([i \in S |-> Detected(i)]))
<1>1. \A i \in S : Retained(i) \in Candidate /\ Detected(i) \in Candidate
  BY RowIs
<1>2. [i \in S |-> Retained(i)] \in [S -> Candidate] /\ [i \in S |-> Detected(i)] \in [S -> Candidate]
  BY <1>1
<1> QED BY <1>2, PutIs

(* A finding marks its platforms and covers nothing.                       *)
LEMMA FindingKeeps ==
  ASSUME DInv, task.pc # "idle", NEW found \in SUBSET Idents,
         UNCHANGED <<source, run, web, counters>>,
         RowsWritten(cand'), check' = MarkFound(found),
         TaskOK', task'.run = task.run, task.looked \subseteq task'.looked
  PROVE  TaskKeeps
<1>1. task.run # 0 /\ SourcesWritten
  BY AtWork DEF DInv, RowsOK, SourcesWritten
<1>2. /\ check' \in [Runs -> [Platforms -> Checks]]
      /\ \A r \in Runs \ {task.run} : check'[r] = check[r]
      /\ \A p \in Platforms : check'[task.run][p] = "not_found" => p \in task'.looked
  BY <1>1, MarkFoundIs
<1> QED BY <1>1, <1>2, TaskWrites

(* Every row of a check is written, and the others stay.                   *)
LEMMA ChecksAre ==
  ASSUME DInv, task.run # 0, NEW row \in [Platforms -> Checks]
  PROVE  /\ [check EXCEPT ![task.run] = row] \in [Runs -> [Platforms -> Checks]]
         /\ [check EXCEPT ![task.run] = row][task.run] = row
         /\ \A r \in Runs \ {task.run} : [check EXCEPT ![task.run] = row][r] = check[r]
BY DEF DInv, TaskOK, Task, Runs, RowsOK

LEMMA SeedSourcesKeeps ==
  ASSUME DInv, SeedSources
  PROVE  TaskKeeps
<1> DEFINE S == {j \in Idents : Present(j)}
           rows == [i \in S |-> [decision |-> SeedDecision(i), linked |-> TRUE,
                                 ignored |-> FALSE]]
<1>1. /\ task.pc = "sources" /\ task.pc # "idle" /\ Go("previous") /\ cand' = Put(rows)
      /\ UNCHANGED <<source, run, web, counters>>
  BY DEF SeedSources
<1>2. RowsWritten(cand')
  <2>1. \A i \in S : [decision |-> SeedDecision(i), linked |-> TRUE, ignored |-> FALSE]
                       \in Candidate
    BY <1>1, AtWork, RowIs DEF Candidate
  <2>2. rows \in [S -> Candidate] /\ S \in SUBSET Idents
    BY <2>1
  <2> HIDE DEF rows, S
  <2> QED BY <1>1, <2>2, PutIs
<1>3. PICK last \in [Platforms -> Idents \cup {"none"}] :
        check' = [check EXCEPT ![task.run] = [p \in Platforms |->
                    IF last[p] = "none" THEN "not_checked"
                    ELSE IF source[last[p]] = "active" THEN "already_connected"
                    ELSE "found"]]
  BY DEF SeedSources
<1> DEFINE row == [p \in Platforms |->
                     IF last[p] = "none" THEN "not_checked"
                     ELSE IF source[last[p]] = "active" THEN "already_connected"
                     ELSE "found"]
<1>4. row \in [Platforms -> Checks] /\ \A p \in Platforms : row[p] # "not_found"
  BY DEF Checks
<1>5. check' = [check EXCEPT ![task.run] = row]
  BY <1>3
<1> HIDE DEF row, rows, S
<1>6. /\ check' \in [Runs -> [Platforms -> Checks]] /\ check'[task.run] = row
      /\ \A r \in Runs \ {task.run} : check'[r] = check[r]
  BY <1>1, <1>4, <1>5, AtWork, ChecksAre
<1>7. TaskOK' /\ task'.run = task.run
  BY <1>1, GoKeeps DEF Phases
<1>8. SourcesWritten
  BY <1>1 DEF DInv, RowsOK, SourcesWritten
<1> QED BY <1>1, <1>2, <1>4, <1>6, <1>7, <1>8, AtWork, TaskWrites

LEMMA SeedPreviousKeeps ==
  ASSUME DInv, SeedPrevious
  PROVE  TaskKeeps
<1>1. /\ task.pc = "previous" /\ task.pc # "idle"
      /\ cand' = Put([i \in Previous |-> Retained(i)]) /\ check' = MarkFound(Previous)
      /\ Go("crawl") \/ Go("general")
      /\ UNCHANGED <<source, run, web, counters>>
  BY DEF SeedPrevious
<1>2. Previous \in SUBSET Idents
  BY DEF Previous
<1>3. RowsWritten(cand')
  BY <1>1, <1>2, AtWork, RetainsRows
<1>4. TaskOK' /\ task'.run = task.run /\ task'.looked = task.looked
  BY <1>1, GoKeeps DEF Phases
<1> QED BY <1>1, <1>2, <1>3, <1>4, FindingKeeps

(* A crawl of a given domain is complete: it has looked for every platform.*)
LEMMA RecordKeeps ==
  ASSUME DInv, RecordDetections
  PROVE  TaskKeeps
<1>1. /\ task.pc = "record" /\ task.pc # "idle" /\ cand' = Put([i \in Detections |-> Detected(i)])
      /\ UNCHANGED <<source, run, web, counters>>
  BY DEF RecordDetections
<1>2. Detections \in SUBSET Idents
  BY DEF Detections
<1>3. RowsWritten(cand')
  BY <1>1, <1>2, AtWork, RetainsRows
<1>4. CASE task.domain
  <2> DEFINE found == MarkFound(Detections)
             row == [p \in Platforms |-> IF found[task.run][p] = "not_checked" THEN "not_found"
                                         ELSE found[task.run][p]]
  <2>1. check' = [found EXCEPT ![task.run] = row]
    BY <1>4 DEF RecordDetections
  <2>2. /\ found \in [Runs -> [Platforms -> Checks]]
        /\ \A r \in Runs \ {task.run} : found[r] = check[r]
    BY <1>1, <1>2, AtWork, MarkFoundIs
  <2>3. row \in [Platforms -> Checks]
    BY <1>1, <2>2, AtWork DEF Checks
  <2> HIDE DEF found, row
  <2>4. /\ check' \in [Runs -> [Platforms -> Checks]]
        /\ \A r \in Runs \ {task.run} : check'[r] = check[r]
    BY <1>1, <2>1, <2>2, <2>3, AtWork
  <2>5. task' = [task EXCEPT !.pc = "decide", !.looked = Platforms]
    BY <1>4 DEF RecordDetections
  <2>6. "decide" \in Phases /\ Platforms \in SUBSET Platforms
    BY DEF Phases
  <2>7. /\ task' \in Task /\ task'.pc = "decide" /\ task'.run = task.run
        /\ task'.looked = Platforms /\ task'.covered = task.covered
    BY <1>1, <2>5, <2>6, AtWork DEF Task
  <2>8. TaskOK'
    BY <1>1, <2>7, AtWork DEF TaskOK
  <2>9. SourcesWritten
    BY <1>1 DEF DInv, RowsOK, SourcesWritten
  <2> QED BY <1>1, <1>3, <2>4, <2>7, <2>8, <2>9, AtWork, TaskWrites
<1>5. CASE ~task.domain
  <2>1. check' = MarkFound(Detections) /\ Go("inventory")
    BY <1>5 DEF RecordDetections
  <2>2. TaskOK' /\ task'.run = task.run /\ task'.looked = task.looked
    BY <1>1, <2>1, GoKeeps DEF Phases
  <2> QED BY <1>1, <1>2, <1>3, <2>1, <2>2, FindingKeeps
<1> QED BY <1>4, <1>5

LEMMA PersistKeeps ==
  ASSUME DInv, PersistInventory
  PROVE  TaskKeeps
<1> DEFINE found == IF task.plan = "fallback" THEN task.fresh ELSE task.results
           phase == IF task.domain THEN "covered" ELSE "sweep"
<1>1. /\ task.pc = "persist" /\ task.pc # "idle"
      /\ cand' = Put([i \in found |-> Detected(i)]) /\ check' = MarkFound(found)
      /\ task' = [task EXCEPT !.pc = phase, !.fresh = {}, !.asked = 0]
      /\ UNCHANGED <<source, run, web, counters>>
  BY DEF PersistInventory
<1>2. found \in SUBSET Idents
  BY <1>1, AtWork
<1>3. phase \in {"covered", "sweep"} /\ phase \in Phases
  BY DEF Phases
<1> HIDE DEF found, phase
<1>4. RowsWritten(cand')
  BY <1>1, <1>2, AtWork, RetainsRows
<1>5. /\ task' \in Task /\ task'.pc = phase /\ task'.run = task.run /\ task'.plan = task.plan
      /\ task'.looked = task.looked /\ task'.covered = task.covered
  BY <1>1, <1>3, AtWork DEF Task
<1>6. TaskOK'
  <2>1. task.plan # "none"
    BY <1>1, AtWork DEF TaskOK
  <2> QED BY <1>1, <1>3, <1>5, <2>1, AtWork DEF TaskOK
<1> QED BY <1>1, <1>2, <1>4, <1>5, <1>6, FindingKeeps

(* The sweep sets one check at a time; "not_found" takes a query of the    *)
(* platform that was answered.                                             *)
LEMMA SweepWrites ==
  ASSUME DInv, task.pc = "sweep", NEW p \in Platforms, NEW status \in Checks,
         NEW found \in SUBSET Idents, UNCHANGED <<source, run, web, counters>>,
         \/ cand' = cand
         \/ cand' = Put([i \in found |-> Retained(i)])
         \/ cand' = Put([i \in found |-> Detected(i)]),
         check' = SetCheck(p, status), status = "not_found" => p \in task'.looked,
         NEW used \in 0 .. MaxQueries, NEW looked \in SUBSET Platforms,
         task.looked \subseteq looked,
         task' = [task EXCEPT !.used = used, !.looked = looked]
  PROVE  TaskKeeps
<1>1. task.pc # "idle" /\ task.run # 0
  BY AtWork
<1>2. RowsWritten(cand') /\ SourcesWritten
  BY <1>1, RetainsRows DEF DInv, RowsOK, RowsWritten, SourcesWritten
<1>3. /\ check' \in [Runs -> [Platforms -> Checks]]
      /\ \A r \in Runs \ {task.run} : check'[r] = check[r]
      /\ check'[task.run][p] = status
      /\ \A q \in Platforms \ {p} : check'[task.run][q] = check[task.run][q]
  BY <1>1, SetCheckIs
<1>4. /\ task' \in Task /\ task'.pc = task.pc /\ task'.run = task.run /\ task'.looked = looked
      /\ task'.covered = task.covered /\ task'.plan = task.plan /\ task'.status = task.status
  BY <1>1, AtWork DEF Task
<1>5. TaskOK'
  BY <1>1, <1>4, AtWork DEF TaskOK
<1>6. \A q \in Platforms : check'[task.run][q] = "not_found" => q \in task'.looked
  <2>1. ASSUME NEW q \in Platforms \ {p}, check'[task.run][q] = "not_found"
        PROVE  q \in task'.looked
    BY <1>1, <1>3, <1>4, <2>1 DEF DInv, NotFoundWasLookedFor
  <2> QED BY <1>3, <2>1
<1> QED BY <1>1, <1>2, <1>3, <1>4, <1>5, <1>6, TaskWrites

LEMMA SweepKeeps ==
  ASSUME DInv, NEW p \in Platforms, NEW queries \in {1, 2},
         \/ SweepFromResults(p) \/ SweepFails(p, queries)
         \/ \E found \in SUBSET {i \in Idents : Platform[i] = p} :
              \/ SweepQuery(p, found, queries)
              \/ \E failures \in {0, 1} : SweepProbe(p, found, queries, failures)
  PROVE  TaskKeeps
<1>0. /\ task.pc = "sweep" /\ task.pc # "idle" /\ UNCHANGED <<source, run, web, counters>>
      /\ {"found", "not_found", "search_failed"} \subseteq Checks
      /\ task \in Task /\ task.used \in 0 .. MaxQueries /\ task.looked \in SUBSET Platforms
  <2>1. task.pc = "sweep" /\ UNCHANGED <<source, run, web, counters>>
    BY DEF SweepFromResults, SweepFails, SweepQuery, SweepProbe, MaySweep, Unswept
  <2> QED BY <2>1, AtWork DEF Checks
<1>1. CASE SweepFromResults(p)
  <2>1. cand' = Put([i \in Named(p) |-> Retained(i)]) /\ check' = SetCheck(p, "found")
        /\ task' = task
    BY <1>1 DEF SweepFromResults
  <2>2. task' = [task EXCEPT !.used = task.used, !.looked = task.looked]
    BY <1>0, <2>1 DEF Task
  <2>3. Named(p) \in SUBSET Idents
    BY <1>0, AtWork DEF Named
  <2> QED BY <1>0, <2>1, <2>2, <2>3, SweepWrites
<1>2. MaySweep(p, queries) =>
        /\ task.used + queries \in 0 .. MaxQueries
        /\ task.used + queries - 1 \in 0 .. MaxQueries
  BY <1>0, AtWork DEF MaySweep, MaySearch
<1>3. CASE SweepFails(p, queries)
  <2> DEFINE used == task.used + queries - 1
  <2>1. /\ cand' = cand /\ check' = SetCheck(p, "search_failed")
        /\ task' = [task EXCEPT !.used = used] /\ used \in 0 .. MaxQueries
    BY <1>2, <1>3 DEF SweepFails
  <2> HIDE DEF used
  <2>2. task' = [task EXCEPT !.used = used, !.looked = task.looked]
    BY <1>0, <2>1 DEF Task
  <2> QED BY <1>0, <2>1, <2>2, SweepWrites
<1>4. ASSUME NEW found \in SUBSET Idents, SweepQuery(p, found, queries)
      PROVE  TaskKeeps
  <2> DEFINE used == task.used + queries
             looked == task.looked \cup {p}
             status == IF found = {} THEN "not_found" ELSE "found"
  <2>1. /\ cand' = Put([i \in found |-> Retained(i)]) /\ check' = SetCheck(p, status)
        /\ task' = [task EXCEPT !.used = used, !.looked = looked]
        /\ used \in 0 .. MaxQueries
    BY <1>2, <1>4 DEF SweepQuery
  <2>2. status \in Checks /\ looked \in SUBSET Platforms /\ p \in looked
        /\ task.looked \subseteq looked
    BY <1>0
  <2> HIDE DEF used, looked, status
  <2>3. task'.looked = looked
    BY <1>0, <2>1 DEF Task
  <2> QED BY <1>0, <2>1, <2>2, <2>3, SweepWrites
<1>5. ASSUME NEW found \in SUBSET Idents, NEW failures \in {0, 1},
             SweepProbe(p, found, queries, failures)
      PROVE  TaskKeeps
  <2> DEFINE used == task.used + queries - failures
  <2>1. /\ cand' = Put([i \in found |-> Detected(i)]) /\ check' = SetCheck(p, "found")
        /\ task' = [task EXCEPT !.used = used] /\ used \in 0 .. MaxQueries
    BY <1>2, <1>5 DEF SweepProbe
  <2> HIDE DEF used
  <2>2. task' = [task EXCEPT !.used = used, !.looked = task.looked]
    BY <1>0, <2>1 DEF Task
  <2> QED BY <1>0, <2>1, <2>2, SweepWrites
<1> QED BY <1>1, <1>3, <1>4, <1>5

(* What an inventory query covered was looked for.                         *)
LEMMA MarkCoveredKeeps ==
  ASSUME DInv, MarkCovered
  PROVE  TaskKeeps
<1> DEFINE row == [p \in Platforms |->
                     IF p \in CoveredPlatforms /\ check[task.run][p] = "not_checked"
                     THEN "not_found" ELSE check[task.run][p]]
<1>1. /\ task.pc = "covered" /\ task.pc # "idle" /\ check' = [check EXCEPT ![task.run] = row]
      /\ UNCHANGED <<source, run, cand, web, counters>>
      /\ Conclude("needs_review") \/ task' = [task EXCEPT !.pc = "decide", !.covered = {}]
  BY DEF MarkCovered
<1>2. /\ row \in [Platforms -> Checks]
      /\ \A p \in Platforms : row[p] = "not_found" => p \in task.looked
  <2>1. check[task.run] \in [Platforms -> Checks]
    BY <1>1, AtWork DEF DInv, RowsOK
  <2>2. \A p \in Platforms : check[task.run][p] = "not_found" => p \in task.looked
    BY <1>1, AtWork DEF DInv, NotFoundWasLookedFor
  <2> QED BY <1>1, <2>1, <2>2, AtWork DEF Checks, CoveredPlatforms
<1> HIDE DEF row
<1>3. /\ check' \in [Runs -> [Platforms -> Checks]] /\ check'[task.run] = row
      /\ \A r \in Runs \ {task.run} : check'[r] = check[r]
  BY <1>1, <1>2, AtWork, ChecksAre
<1>4. TaskOK' /\ task'.run = task.run /\ task'.looked = task.looked
  <2>1. CASE Conclude("needs_review")
    BY <1>1, <2>1, AtWork, ConcludeKeeps DEF Finals
  <2>2. CASE task' = [task EXCEPT !.pc = "decide", !.covered = {}]
    <3>1. "decide" \in Phases
      BY DEF Phases
    <3>2. /\ task' \in Task /\ task'.pc = "decide" /\ task'.run = task.run
          /\ task'.looked = task.looked /\ task'.covered = {}
      BY <1>1, <2>2, <3>1, AtWork DEF Task
    <3> QED BY <1>1, <3>2, AtWork DEF TaskOK
  <2> QED BY <1>1, <2>1, <2>2
<1>5. SourcesWritten /\ RowsWritten(cand')
  BY <1>1 DEF DInv, RowsOK, RowsWritten, SourcesWritten
<1> QED BY <1>1, <1>2, <1>3, <1>4, <1>5, AtWork, TaskWrites

LEMMA ConnectKeeps ==
  ASSUME DInv, NEW i \in Idents, Connect(i)
  PROVE  TaskKeeps
<1> DEFINE rows == [j \in {i} |-> [decision |-> Connection(i), linked |-> TRUE,
                                   ignored |-> Row(i).ignored]]
           status == IF Connection(i) = "rejected" THEN "needs_review" ELSE Connection(i)
<1>1. /\ task.pc = "decide" /\ task.pc # "idle" /\ cand' = Put(rows)
      /\ source' = [source EXCEPT ![i] = AfterConnect(i)]
      /\ task' = [Ended(status) EXCEPT !.created = ~ Present(i)]
      /\ UNCHANGED <<run, check, web, counters>>
  BY DEF Connect
<1>2. Connection(i) \in {"connected", "already_connected", "rejected"}
  BY DEF Connection
<1>3. RowsWritten(cand')
  <2>1. [decision |-> Connection(i), linked |-> TRUE, ignored |-> Row(i).ignored] \in Candidate
    BY <1>1, <1>2, AtWork, RowIs DEF Candidate, Decisions
  <2>2. rows \in [{i} -> Candidate]
    BY <2>1
  <2> HIDE DEF rows
  <2> QED BY <1>1, <2>2, PutIs
<1>4. SourcesWritten
  <2>1. source \in [Idents -> SourceStates]
    BY DEF DInv, RowsOK
  <2>2. AfterConnect(i) \in SourceStates
    BY <2>1 DEF AfterConnect, SourceStates
  <2>3. AfterConnect(i) # source[i] => source[i] = "absent"
    BY DEF AfterConnect, Present
  <2> QED BY <1>1, <2>1, <2>2, <2>3 DEF SourcesWritten
<1>5. status \in Finals
  BY <1>2 DEF Finals
<1> HIDE DEF status, rows
<1>6. /\ task' \in Task /\ task'.pc = "finish" /\ task'.run = task.run /\ task'.status = status
      /\ task'.looked = task.looked /\ task'.covered = {} /\ task'.plan = "none"
  <2>1. (~ Present(i)) \in BOOLEAN
    BY DEF Present
  <2> DEFINE ended == Ended(status)
  <2>2. /\ ended \in Task /\ ended.pc = "finish" /\ ended.run = task.run /\ ended.status = status
        /\ ended.looked = task.looked /\ ended.covered = {} /\ ended.plan = "none"
    BY <1>1, <1>5, AtWork, EndedIs
  <2>3. task' = [ended EXCEPT !.created = ~ Present(i)]
    BY <1>1
  <2> HIDE DEF ended
  <2>4. task' \in Task
    BY <2>1, <2>2, <2>3 DEF Task
  <2> QED BY <2>2, <2>3, <2>4 DEF Task
<1>7. TaskOK'
  BY <1>1, <1>5, <1>6, AtWork DEF TaskOK
<1>8. /\ check' = check /\ check' \in [Runs -> [Platforms -> Checks]]
      /\ \A p \in Platforms : check'[task.run][p] = "not_found" => p \in task'.looked
  BY <1>1, <1>6, AtWork DEF DInv, RowsOK, NotFoundWasLookedFor
<1> QED BY <1>1, <1>3, <1>4, <1>6, <1>7, <1>8, AtWork, TaskWrites

-----------------------------------------------------------------------------
(* The task begins and ends.                                               *)
LEMMA IdleIs ==
  /\ Idle \in Task /\ Idle.pc = "idle" /\ Idle.run = 0 /\ Idle.covered = {}
  /\ Away \in Request /\ Away.op = "none"
<1>1. Idle \in Task
  BY DiscoveryAssumption DEF Idle, Task, Phases, DiscoveryAssumption
<1>2. 0 \in 0 .. MaxRuns
  BY DiscoveryAssumption DEF DiscoveryAssumption
<1>3. PICK i : Away = [op |-> "none", run |-> 0, ident |-> i, done |-> FALSE, decision |-> "none"]
  BY DEF Away
<1>4. Away.ident = i /\ Away.op = "none"
  BY <1>3
<1>5. Away \in Request
  <2>1. i \in Idents \cup {Away.ident}
    BY <1>4
  <2>2. /\ "none" \in {"none", "confirm", "link", "ignore", "restore", "revalidate"}
        /\ "none" \in {"none", "connected", "already_connected"}
    OBVIOUS
  <2> QED BY <1>2, <1>3, <2>1, <2>2 DEF Request
<1> QED BY <1>1, <1>4, <1>5 DEF Idle

(* A task that is gone leaves its run behind, or has finished it.          *)
LEMMA IdleKeeps ==
  ASSUME task' = Idle
  PROVE  TaskOK' /\ OwnRun' /\ NotFoundWasLookedFor' /\ task'.run = 0
BY IdleIs DEF TaskOK, OwnRun, NotFoundWasLookedFor

LEMMA FinishDInv ==
  ASSUME DInv, Finish
  PROVE  DInv'
<1> DEFINE status == FinalStatus(task.run, task.status)
<1>1. /\ task.pc = "finish" /\ task' = Idle /\ UNCHANGED <<source, cand, check, web, clicks, mishaps>>
      /\ run' = [run EXCEPT ![task.run] = [status |-> status, finished |-> TRUE]]
  BY DEF Finish, counters
<1>2. /\ task.run \in Runs /\ task.status \in Finals
      /\ run[task.run].status = "running" /\ ~run[task.run].finished
  BY <1>1, AtWork DEF TaskOK, DInv, OwnRun
<1>3. status \in Finals
  BY <1>2 DEF FinalStatus, Finals
<1> HIDE DEF status
<1>4. run \in [Runs -> [status : RunStates, finished : BOOLEAN]]
  BY DEF DInv, RowsOK
<1>5. /\ run' \in [Runs -> [status : RunStates, finished : BOOLEAN]]
      /\ run'[task.run].status = status
      /\ \A r \in Runs \ {task.run} : run'[r] = run[r]
  BY <1>1, <1>2, <1>3, <1>4 DEF RunStates
<1>6. status \notin {"none", "running"}
  BY <1>3 DEF Finals
<1>7. RowsOK'
  BY <1>1, <1>5 DEF DInv, RowsOK
<1>8. RunsOK'
  <2>1. \A r \in Runs : run'[r].status = "none" <=> run[r].status = "none"
    BY <1>2, <1>5, <1>6
  <2>2. Created' = Created
    BY <2>1 DEF Created
  <2>3. \A r \in Runs : run'[r].status = "none" => run'[r] = run[r]
    BY <1>5, <1>6
  <2> QED BY <1>1, <2>1, <2>2, <2>3 DEF DInv, RunsOK
<1>9. WebOK'
  BY <1>1, <1>5, <1>6 DEF DInv, WebOK, InHand
<1>10. RunningIsWorkedOn'
  <2>1. ASSUME NEW r \in Runs, run'[r].status = "running"
        PROVE  mishaps > 0
    BY <1>5, <1>6, <2>1 DEF DInv, RunningIsWorkedOn
  <2> QED BY <1>1, <2>1 DEF RunningIsWorkedOn
<1> QED BY <1>1, <1>7, <1>8, <1>9, <1>10, IdleKeeps DEF DInv

(* The save that ends the run fails: once more as a failure, then never.   *)
LEMMA FinishFailsDInv ==
  ASSUME DInv, FinishFails
  PROVE  DInv'
<1>1. /\ task.pc = "finish" /\ mishaps' = mishaps + 1
      /\ UNCHANGED <<source, run, cand, check, web, clicks>>
      /\ task' = Idle \/ task' = [task EXCEPT !.status = "failed", !.handled = TRUE]
  BY DEF FinishFails
<1>2. mishaps' \in Nat /\ mishaps' > 0
  BY <1>1 DEF DInv
<1>3. RunningIsWorkedOn'
  BY <1>2 DEF RunningIsWorkedOn
<1>4. TaskOK' /\ OwnRun' /\ NotFoundWasLookedFor'
  <2>1. CASE task' = Idle
    BY <2>1, IdleKeeps
  <2>2. CASE task' = [task EXCEPT !.status = "failed", !.handled = TRUE]
    <3>1. "failed" \in Finals
      BY DEF Finals
    <3>2. /\ task' \in Task /\ task'.pc = "finish" /\ task'.run = task.run
          /\ task'.status \in Finals /\ task'.looked = task.looked /\ task'.covered = task.covered
      BY <1>1, <2>2, <3>1, AtWork DEF Task
    <3>3. TaskOK'
      BY <1>1, <3>2, AtWork DEF TaskOK
    <3> QED BY <1>1, <3>2, <3>3 DEF DInv, OwnRun, NotFoundWasLookedFor
  <2> QED BY <1>1, <2>1, <2>2
<1>5. RowsOK' /\ RunsOK' /\ WebOK'
  BY <1>1 DEF DInv, RowsOK, RunsOK, WebOK, InHand, Created
<1> QED BY <1>1, <1>2, <1>3, <1>4, <1>5 DEF DInv

LEMMA CrashDInv ==
  ASSUME DInv, Crash
  PROVE  DInv'
<1>1. /\ task' = Idle /\ mishaps' = mishaps + 1 /\ UNCHANGED <<source, run, cand, check, clicks>>
      /\ web' = [u \in Users |-> Away]
  BY DEF Crash
<1>2. mishaps' \in Nat /\ mishaps' > 0
  BY <1>1 DEF DInv
<1>3. RunningIsWorkedOn'
  BY <1>2 DEF RunningIsWorkedOn
<1>4. WebOK'
  BY <1>1, IdleIs DEF WebOK, InHand
<1>5. RowsOK' /\ RunsOK'
  BY <1>1 DEF DInv, RowsOK, RunsOK, Created
<1> QED BY <1>1, <1>2, <1>3, <1>4, <1>5, IdleKeeps DEF DInv

(* A run is created behind all others; a process that died may have left   *)
(* some of them RUNNING.                                                   *)
LEMMA StartDInv ==
  ASSUME DInv, NEW domain \in BOOLEAN, Start(domain)
  PROVE  DInv'
<1>1. PICK n \in 0 .. MaxRuns : Created = 1 .. n
  BY DEF DInv, RunsOK
<1>2. MaxRuns \in Nat /\ n \in Nat
  BY DiscoveryAssumption DEF DiscoveryAssumption
<1>3. Cardinality(Created) = n
  <2>1. Cardinality(1 .. n) = n
    BY <1>2, FS_Interval
  <2> QED BY <1>1, <2>1, Zenon
<1> DEFINE r == n + 1
<1>4. /\ task.pc = "idle" /\ n < MaxRuns /\ run' = [run EXCEPT ![r].status = "running"]
      /\ task' = [Idle EXCEPT !.pc = "sources", !.run = r, !.domain = domain]
      /\ UNCHANGED <<source, cand, check, web, clicks, mishaps>>
  BY <1>3 DEF Start, counters
<1>5. r \in Runs /\ r \in 0 .. MaxRuns /\ r # 0 /\ r \notin Created
  BY <1>1, <1>2, <1>4 DEF Runs
<1> HIDE DEF r
<1>6. run \in [Runs -> [status : RunStates, finished : BOOLEAN]]
  BY DEF DInv, RowsOK
<1>7. run[r].status = "none" /\ ~run[r].finished /\ \A p \in Platforms : check[r][p] = "none"
  BY <1>5 DEF DInv, RunsOK, Created
<1>8. /\ run' \in [Runs -> [status : RunStates, finished : BOOLEAN]]
      /\ run'[r].status = "running" /\ ~run'[r].finished
      /\ \A s \in Runs \ {r} : run'[s] = run[s]
  BY <1>4, <1>5, <1>6, <1>7 DEF RunStates
<1>9. /\ task' \in Task /\ task'.pc = "sources" /\ task'.run = r /\ task'.covered = {}
  <2>1. "sources" \in Phases
    BY DEF Phases
  <2> QED BY <1>4, <1>5, <2>1, IdleIs DEF Task
<1>10. TaskOK'
  BY <1>5, <1>9 DEF TaskOK
<1>11. RowsOK'
  BY <1>4, <1>8 DEF DInv, RowsOK
<1>12. RunsOK'
  <2>1. Created' = Created \cup {r}
    BY <1>5, <1>8 DEF Created
  <2>2. Created' = 1 .. (n + 1)
    BY <1>1, <1>2, <2>1 DEF r
  <2>3. n + 1 \in 0 .. MaxRuns
    BY <1>2, <1>4
  <2>4. \A s \in Runs : run'[s].status = "none" => run[s].status = "none" /\ run'[s] = run[s]
    BY <1>8
  <2> QED BY <1>4, <2>2, <2>3, <2>4 DEF DInv, RunsOK
<1>13. WebOK'
  BY <1>4, <1>7, <1>8 DEF DInv, WebOK, InHand
<1>14. RunningIsWorkedOn'
  <2>1. ASSUME NEW s \in Runs \ {r}, run'[s].status = "running"
        PROVE  mishaps > 0
    <3>1. task.run = 0 /\ run[s].status = "running" /\ s # 0
      BY <1>4, <1>8, <2>1 DEF DInv, TaskOK, Runs
    <3> QED BY <3>1 DEF DInv, RunningIsWorkedOn
  <2> QED BY <1>4, <1>9, <2>1 DEF RunningIsWorkedOn
<1>15. OwnRun' /\ NotFoundWasLookedFor'
  BY <1>4, <1>7, <1>8, <1>9 DEF OwnRun, NotFoundWasLookedFor
<1> QED BY <1>4, <1>10, <1>11, <1>12, <1>13, <1>14, <1>15 DEF DInv

(* Everything the task does before it saves its run.                       *)
LEMMA WorkKeeps ==
  ASSUME DInv, TaskStep
  PROVE  TaskKeeps \/ Finish
<1>1. CASE SeedSources \/ SeedPrevious
  BY <1>1, SeedSourcesKeeps, SeedPreviousKeeps
<1>2. ASSUME NEW found \in SUBSET Idents, SearchGeneral(found) \/ QueryAnswers(found)
      PROVE  TaskKeeps
  BY <1>2, GeneralKeeps, QueriesKeeps
<1>3. CASE \/ \E status \in Finals : NoOfficialSite(status)
           \/ CrawlUnreachable \/ CrawlUnconfirmed
           \/ \E det \in [Idents -> {"none", "weak", "strong"}] : CrawlPages(det)
  BY <1>3, CrawlKeeps
<1>4. CASE RecordDetections \/ QueryFails \/ InventoryDone \/ PersistInventory
  BY <1>4, RecordKeeps, QueriesKeeps, InventoryDoneKeeps, PersistKeeps
<1>5. ASSUME NEW p \in Platforms, NEW queries \in {1, 2},
             \/ SweepFromResults(p) \/ SweepFails(p, queries)
             \/ \E found \in SUBSET {i \in Idents : Platform[i] = p} :
                  \/ SweepQuery(p, found, queries)
                  \/ \E failures \in {0, 1} : SweepProbe(p, found, queries, failures)
      PROVE  TaskKeeps
  BY <1>5, SweepKeeps
<1>6. CASE SweepDone \/ MarkCovered
  BY <1>6, SweepDoneKeeps, MarkCoveredKeeps
<1>7. ASSUME NEW i \in Idents, Connect(i) PROVE TaskKeeps
  BY <1>7, ConnectKeeps
<1>8. ASSUME NEW careers \in BOOLEAN, Undecided(careers) PROVE TaskKeeps
  BY <1>8, UndecidedKeeps
<1>9. CASE Raise
  BY <1>9, RaiseKeeps
<1> QED BY <1>1, <1>2, <1>3, <1>4, <1>5, <1>6, <1>7, <1>8, <1>9 DEF TaskStep

-----------------------------------------------------------------------------
(* The requests.                                                           *)
RowsStay ==
  \A r \in Runs, i \in Idents : cand[r][i] # NoCand => cand'[r][i] # NoCand
RunsStay ==
  \A r \in Runs :
    /\ run'[r].finished = run[r].finished
    /\ run'[r].status # run[r].status =>
         run[r].status \notin {"none", "running"} /\ run'[r].status \notin {"none", "running"}

LEMMA WebWrites ==
  ASSUME DInv, UNCHANGED <<check, task, mishaps>>, RowsOK', WebOK', RunsStay, clicks' \in Nat
  PROVE  DInv'
<1>1. check' = check /\ task' = task /\ mishaps' = mishaps
  OBVIOUS
<1>2. \A r \in Runs : run'[r].status = "none" <=> run[r].status = "none"
  BY DEF RunsStay
<1>3. Created' = Created
  BY <1>2 DEF Created
<1>4. RunsOK'
  BY <1>1, <1>2, <1>3 DEF DInv, RunsOK, RunsStay
<1>5. OwnRun'
  BY <1>1 DEF DInv, OwnRun, RunsStay, TaskOK, Task, Runs
<1>6. RunningIsWorkedOn'
  BY <1>1 DEF DInv, RunningIsWorkedOn, RunsStay
<1>7. TaskOK' /\ NotFoundWasLookedFor'
  BY <1>1 DEF DInv, TaskOK, NotFoundWasLookedFor
<1> QED BY <1>1, <1>4, <1>5, <1>6, <1>7 DEF DInv

(* A request is taken up, goes on, or is answered.                         *)
LEMMA RequestKeeps ==
  ASSUME DInv, RowsStay, RunsStay, NEW u \in Users, NEW request \in Request,
         web' = [web EXCEPT ![u] = request], InHand(request)'
  PROVE  WebOK'
<1>1. web' \in [Users -> Request] /\ web'[u] = request
  BY DEF DInv, WebOK
<1>2. ASSUME NEW v \in Users \ {u}
      PROVE  InHand(web[v])' /\ web'[v] = web[v]
  BY DEF DInv, WebOK, InHand, RowsStay, RunsStay
<1> QED BY <1>1, <1>2 DEF WebOK

LEMMA LeaveKeeps ==
  ASSUME DInv, RowsStay, RunsStay, NEW u \in Users, Leave(u)
  PROVE  WebOK'
BY IdleIs, RequestKeeps DEF Leave, InHand

(* A row that a request has in hand is there, and stays.                   *)
LEMMA MineIs ==
  ASSUME DInv, NEW u \in Users, web[u].op # "none"
  PROVE  /\ web[u] \in Request /\ web[u].run \in Runs /\ web[u].ident \in Idents
         /\ run[web[u].run].status \notin {"none", "running"}
         /\ web[u].op = "link" => web[u].decision # "none"
         /\ Mine(u) \in Candidate
BY DEF DInv, WebOK, InHand, Mine, RowsOK, Rows

LEMMA SaveKeeps ==
  ASSUME DInv, NEW u \in Users, web[u].op # "none", NEW row \in Candidate, Save(u, row)
  PROVE  cand' \in [Runs -> Rows] /\ RowsStay
<1>1. web[u].run \in Runs /\ web[u].ident \in Idents /\ cand \in [Runs -> Rows]
  BY MineIs DEF DInv, RowsOK
<1>2. row # NoCand
  BY DEF Candidate, NoCand, Decisions
<1>3. cand' = [cand EXCEPT ![web[u].run][web[u].ident] = row]
  BY DEF Save
<1>4. cand' \in [Runs -> Rows]
  BY <1>1, <1>3 DEF Rows
<1>5. \A r \in Runs, i \in Idents :
        cand'[r][i] = IF r = web[u].run /\ i = web[u].ident THEN row ELSE cand[r][i]
  BY <1>1, <1>3 DEF Rows
<1> QED BY <1>2, <1>4, <1>5 DEF RowsStay

LEMMA BeginKeeps ==
  ASSUME DInv, NEW u \in Users, NEW r \in Runs, NEW i \in Idents,
         \/ BeginConfirm(u, r, i) \/ BeginRevalidate(u, r, i)
         \/ \E op \in {"ignore", "restore"} : BeginIgnore(u, r, i, op)
  PROVE  DInv' /\ RowsStay
<1>1. /\ Click /\ Shown(r) /\ cand[r][i] # NoCand
      /\ UNCHANGED <<source, run, cand, check, task, mishaps>>
  BY DEF BeginConfirm, BeginIgnore, BeginRevalidate, Connectable, NoCand
<1>2. PICK op \in {"confirm", "ignore", "restore", "revalidate"} : Load(u, op, r, i)
  BY DEF BeginConfirm, BeginIgnore, BeginRevalidate
<1> DEFINE request == [Away EXCEPT !.op = op, !.run = r, !.ident = i]
<1>3. web' = [web EXCEPT ![u] = request]
  BY <1>2 DEF Load
<1>4. r \in 0 .. MaxRuns
  BY DEF Runs
<1>5. /\ request \in Request /\ request.op = op /\ request.run = r /\ request.ident = i
  BY <1>4, IdleIs DEF Request
<1> HIDE DEF request
<1>6. RowsStay /\ RunsStay
  BY <1>1 DEF RowsStay, RunsStay
<1>7. InHand(request)'
  BY <1>1, <1>5 DEF InHand, Shown
<1>8. WebOK'
  BY <1>3, <1>5, <1>6, <1>7, RequestKeeps
<1>9. RowsOK' /\ clicks' \in Nat
  BY <1>1 DEF DInv, RowsOK, Click
<1> QED BY <1>1, <1>6, <1>8, <1>9, WebWrites

LEMMA ConfirmKeeps ==
  ASSUME DInv, NEW u \in Users, ConfirmSource(u) \/ ConfirmCandidate(u)
  PROVE  DInv' /\ RowsStay
<1>1. CASE ConfirmSource(u)
  <2> DEFINE i == web[u].ident
  <2>1. /\ web[u].op = "confirm" /\ UNCHANGED <<run, cand, check, task, clicks, mishaps>>
    BY <1>1 DEF ConfirmSource, counters
  <2>2. /\ web[u] \in Request /\ i \in Idents /\ InHand(web[u])
    BY <2>1, MineIs DEF DInv, WebOK
  <2>3. RowsStay /\ RunsStay
    BY <2>1 DEF RowsStay, RunsStay
  <2>4. CASE Leave(u) /\ UNCHANGED source
    <3>1. WebOK'
      BY <2>3, <2>4, LeaveKeeps
    <3>2. RowsOK' /\ clicks' \in Nat
      BY <2>1, <2>4 DEF DInv, RowsOK
    <3> QED BY <2>1, <2>3, <3>1, <3>2, WebWrites
  <2>5. CASE ~(source[i] = "blocked" \/ Mine(u).ignored)
    <3>1. source' = [source EXCEPT ![i] = "active"]
      BY <1>1, <2>5 DEF ConfirmSource
    <3>2. PICK request \in Request :
            /\ web' = [web EXCEPT ![u] = request] /\ request.op = "link"
            /\ request.decision # "none" /\ request.run = web[u].run /\ request.ident = i
      <4> DEFINE done == source[i] # "active"
                 decision == IF Present(i) THEN "already_connected" ELSE "connected"
                 linking == [web[u] EXCEPT !.op = "link", !.done = done, !.decision = decision]
      <4>1. web' = [web EXCEPT ![u].op = "link", ![u].done = done, ![u].decision = decision]
        BY <1>1, <2>5 DEF ConfirmSource
      <4>2. web' = [web EXCEPT ![u] = linking]
        BY <4>1 DEF DInv, WebOK
      <4>3. done \in BOOLEAN /\ decision \in {"connected", "already_connected"}
        OBVIOUS
      <4> HIDE DEF done, decision
      <4>4. /\ linking \in Request /\ linking.op = "link" /\ linking.decision # "none"
            /\ linking.run = web[u].run /\ linking.ident = i
        BY <2>2, <4>3 DEF Request
      <4> QED BY <4>2, <4>4
    <3>3. web[u].run \in Runs /\ run'[web[u].run] = run[web[u].run]
          /\ cand'[web[u].run][i] = cand[web[u].run][i]
      BY <2>1, <2>2 DEF InHand
    <3>4. InHand(request)'
      BY <2>1, <2>2, <3>2, <3>3 DEF InHand
    <3>5. WebOK'
      BY <2>3, <3>2, <3>4, RequestKeeps
    <3>6. source' \in [Idents -> SourceStates]
      BY <3>1 DEF DInv, RowsOK, SourceStates
    <3>7. RowsOK' /\ clicks' \in Nat
      BY <2>1, <3>6 DEF DInv, RowsOK
    <3> QED BY <2>1, <2>3, <3>5, <3>7, WebWrites
  <2> QED BY <1>1, <2>4, <2>5 DEF ConfirmSource
<1>2. CASE ConfirmCandidate(u)
  <2>1. /\ web[u].op = "link" /\ Leave(u) /\ UNCHANGED <<source, check, task, clicks, mishaps>>
    BY <1>2 DEF ConfirmCandidate, counters
  <2>2. CASE UNCHANGED <<cand, run>>
    <3>1. RowsStay /\ RunsStay
      BY <2>2 DEF RowsStay, RunsStay
    <3>2. WebOK'
      BY <2>1, <3>1, LeaveKeeps
    <3>3. RowsOK' /\ clicks' \in Nat
      BY <2>1, <2>2 DEF DInv, RowsOK
    <3> QED BY <2>1, <3>1, <3>2, <3>3, WebWrites
  <2>3. CASE Present(web[u].ident)
    <3> DEFINE status == IF web[u].done THEN "connected" ELSE "already_connected"
               row == [Mine(u) EXCEPT !.linked = TRUE, !.decision = web[u].decision]
    <3>1. Save(u, row) /\ run' = [run EXCEPT ![web[u].run].status = status]
      BY <1>2, <2>3 DEF ConfirmCandidate
    <3>2. /\ web[u] \in Request /\ web[u].decision # "none" /\ Mine(u) \in Candidate
          /\ web[u].run \in Runs /\ run[web[u].run].status \notin {"none", "running"}
      BY <2>1, MineIs
    <3>3. row \in Candidate
      BY <3>2 DEF Candidate, Decisions, Request
    <3>4. status \in {"connected", "already_connected"}
      OBVIOUS
    <3> HIDE DEF status, row
    <3>5. cand' \in [Runs -> Rows] /\ RowsStay
      BY <2>1, <3>1, <3>3, SaveKeeps
    <3>6. run \in [Runs -> [status : RunStates, finished : BOOLEAN]]
      BY DEF DInv, RowsOK
    <3>7. run' \in [Runs -> [status : RunStates, finished : BOOLEAN]]
      BY <3>1, <3>2, <3>4, <3>6 DEF RunStates, Finals
    <3>8. RunsStay
      BY <3>1, <3>2, <3>4, <3>6 DEF RunsStay
    <3>9. WebOK'
      BY <2>1, <3>5, <3>8, LeaveKeeps
    <3>10. RowsOK' /\ clicks' \in Nat
      BY <2>1, <3>5, <3>7 DEF DInv, RowsOK
    <3> QED BY <2>1, <3>5, <3>8, <3>9, <3>10, WebWrites
  <2> QED BY <1>2, <2>2, <2>3 DEF ConfirmCandidate
<1> QED BY <1>1, <1>2

LEMMA SavesKeep ==
  ASSUME DInv, NEW u \in Users, SaveIgnored(u) \/ SaveRevalidated(u)
  PROVE  DInv' /\ RowsStay
<1>1. /\ web[u].op # "none" /\ Leave(u) /\ UNCHANGED <<source, run, check, task, clicks, mishaps>>
  BY DEF SaveIgnored, SaveRevalidated, counters
<1>2. PICK row \in Candidate : Save(u, row)
  <2>1. Mine(u) \in Candidate
    BY <1>1, MineIs
  <2>2. CASE SaveIgnored(u)
    <3> DEFINE ignored == web[u].op = "ignore"
    <3>1. Save(u, [Mine(u) EXCEPT !.ignored = ignored]) /\ ignored \in BOOLEAN
      BY <2>2 DEF SaveIgnored
    <3> HIDE DEF ignored
    <3>2. [Mine(u) EXCEPT !.ignored = ignored] \in Candidate
      BY <2>1, <3>1 DEF Candidate
    <3> QED BY <3>1, <3>2
  <2>3. CASE SaveRevalidated(u)
    <3>1. [Mine(u) EXCEPT !.decision = "selected"] \in Candidate
      BY <2>1 DEF Candidate, Decisions
    <3> QED BY <2>3, <3>1 DEF SaveRevalidated
  <2> QED BY <2>2, <2>3
<1>3. cand' \in [Runs -> Rows] /\ RowsStay
  BY <1>1, <1>2, SaveKeeps
<1>4. RunsStay
  BY <1>1 DEF RunsStay
<1>5. WebOK'
  BY <1>1, <1>3, <1>4, LeaveKeeps
<1>6. RowsOK' /\ clicks' \in Nat
  BY <1>1, <1>3 DEF DInv, RowsOK
<1> QED BY <1>1, <1>3, <1>4, <1>5, <1>6, WebWrites

LEMMA ManageKeeps ==
  ASSUME DInv, NEW i \in Idents, ManageSource(i)
  PROVE  DInv' /\ RowsStay
<1>1. Click /\ UNCHANGED <<run, check, task, web, mishaps>>
  BY DEF ManageSource
<1>2. source \in [Idents -> SourceStates] /\ cand \in [Runs -> Rows]
  BY DEF DInv, RowsOK
<1>3. source' \in [Idents -> SourceStates]
  BY <1>2 DEF ManageSource, SourceStates
<1>4. cand' \in [Runs -> Rows] /\ RowsStay
  <2>1. CASE UNCHANGED cand
    BY <1>2, <2>1 DEF RowsStay
  <2>2. CASE cand' = [r \in Runs |-> [cand[r] EXCEPT ![i].linked = FALSE]]
    <3>1. ASSUME NEW r \in Runs
          PROVE  /\ [cand[r] EXCEPT ![i].linked = FALSE] \in Rows
                 /\ \A j \in Idents : cand[r][j] # NoCand =>
                      [cand[r] EXCEPT ![i].linked = FALSE][j] # NoCand
      <4> DEFINE row == [cand[r][i] EXCEPT !.linked = FALSE]
      <4>1. cand[r] \in [Idents -> Candidate \cup {NoCand}]
        BY <1>2 DEF Rows
      <4>2. [cand[r] EXCEPT ![i].linked = FALSE] = [cand[r] EXCEPT ![i] = row]
        BY <4>1
      <4>3. CASE cand[r][i] \in Candidate
        <5>1. row \in Candidate /\ row # NoCand
          BY <4>3 DEF Candidate, NoCand, Decisions
        <5> HIDE DEF row
        <5> QED BY <4>1, <4>2, <5>1 DEF Rows
      <4>4. CASE cand[r][i] = NoCand
        <5>1. row = NoCand
          <6>1. PICK d, l, g : NoCand = [decision |-> d, linked |-> l, ignored |-> g] /\ l = FALSE
            BY Zenon DEF NoCand
          <6>2. [NoCand EXCEPT !.linked = l] = NoCand
            BY <6>1
          <6>3. row = [NoCand EXCEPT !.linked = l]
            BY <4>4, <6>1, Zenon
          <6> QED BY <6>2, <6>3
        <5> HIDE DEF row
        <5> QED BY <4>1, <4>2, <4>4, <5>1 DEF Rows
      <4> QED BY <4>1, <4>3, <4>4
    <3> QED BY <2>2, <3>1 DEF RowsStay
  <2> QED BY <2>1, <2>2 DEF ManageSource
<1>5. RunsStay
  BY <1>1 DEF RunsStay
<1>6. WebOK'
  BY <1>1, <1>4, <1>5 DEF DInv, WebOK, InHand, RowsStay, RunsStay
<1>7. RowsOK' /\ clicks' \in Nat
  BY <1>1, <1>3, <1>4 DEF DInv, RowsOK, Click
<1> QED BY <1>1, <1>4, <1>5, <1>6, <1>7, WebWrites

LEMMA WebKeeps ==
  ASSUME DInv, WebStep
  PROVE  DInv' /\ RowsStay
<1>1. ASSUME NEW u \in Users, NEW r \in Runs, NEW i \in Idents,
             \/ BeginConfirm(u, r, i) \/ BeginRevalidate(u, r, i)
             \/ \E op \in {"ignore", "restore"} : BeginIgnore(u, r, i, op)
      PROVE  DInv' /\ RowsStay
  BY <1>1, BeginKeeps
<1>2. ASSUME NEW u \in Users, ConfirmSource(u) \/ ConfirmCandidate(u) PROVE DInv' /\ RowsStay
  BY <1>2, ConfirmKeeps
<1>3. ASSUME NEW u \in Users, SaveIgnored(u) \/ SaveRevalidated(u) PROVE DInv' /\ RowsStay
  BY <1>3, SavesKeep
<1>4. ASSUME NEW i \in Idents, ManageSource(i) PROVE DInv' /\ RowsStay
  BY <1>4, ManageKeeps
<1> QED BY <1>1, <1>2, <1>3, <1>4 DEF WebStep

-----------------------------------------------------------------------------
(* The invariant.                                                          *)
LEMMA DiscoveryInit ==
  ASSUME Init
  PROVE  DInv
<1>1. /\ source \in [Idents -> SourceStates]
      /\ run = [r \in Runs |-> [status |-> "none", finished |-> FALSE]]
      /\ cand = [r \in Runs |-> [i \in Idents |-> NoCand]]
      /\ check = [r \in Runs |-> [p \in Platforms |-> "none"]]
      /\ task = Idle /\ web = [u \in Users |-> Away] /\ clicks = 0 /\ mishaps = 0
  BY DEF Init
<1>2. RowsOK
  BY <1>1 DEF RowsOK, Rows, RunStates, Checks
<1>3. TaskOK /\ task.run = 0
  BY <1>1, IdleIs DEF TaskOK
<1>4. RunsOK
  <2>1. \A r \in Runs : run[r].status = "none" /\ ~run[r].finished
    BY <1>1
  <2>2. Created = 1 .. 0
    BY <2>1 DEF Created
  <2>3. 0 \in 0 .. MaxRuns
    BY DiscoveryAssumption DEF DiscoveryAssumption
  <2> QED BY <1>1, <2>1, <2>2, <2>3 DEF RunsOK
<1>5. WebOK
  BY <1>1, IdleIs DEF WebOK, InHand
<1>6. RunningIsWorkedOn
  BY <1>1 DEF RunningIsWorkedOn
<1> QED BY <1>1, <1>2, <1>3, <1>4, <1>5, <1>6 DEF DInv, OwnRun, NotFoundWasLookedFor

LEMMA DiscoveryStep ==
  ASSUME DInv, [Next]_vars
  PROVE  DInv'
<1>1. CASE TaskStep
  BY <1>1, WorkKeeps, FinishDInv DEF TaskKeeps
<1>2. CASE WebStep
  BY <1>2, WebKeeps
<1>3. CASE FinishFails \/ Crash
  BY <1>3, FinishFailsDInv, CrashDInv
<1>4. ASSUME NEW domain \in BOOLEAN, Start(domain) PROVE DInv'
  BY <1>4, StartDInv
<1>5. CASE UNCHANGED vars
  BY <1>5 DEF vars, DInv, RowsOK, TaskOK, RunsOK, Created, OwnRun, WebOK, InHand,
              RunningIsWorkedOn, NotFoundWasLookedFor
<1> QED BY <1>1, <1>2, <1>3, <1>4, <1>5 DEF Next

LEMMA DInvAlways == Spec => []DInv
BY DiscoveryInit, DiscoveryStep, PTL DEF Spec

(* The rows of sources, runs, candidates and checks have their types, and  *)
(* the searches of a run stay within their budget                          *)
(* (SOURCE_DISCOVERY_SEARCH_MAX_QUERIES).                                  *)
THEOREM DiscoveryType == Spec => []DiscoveryTypeOK
<1>1. DInv => DiscoveryTypeOK
  BY DEF DInv, RowsOK, Rows, TaskOK, Task, DiscoveryTypeOK
<1> QED BY <1>1, DInvAlways, PTL

(* A run is RUNNING only while its task is at work, whatever the task      *)
(* raises and wherever: only a dead process, or a save that fails in the   *)
(* handling of a failure, leaves one behind (run_discovery).               *)
THEOREM DiscoveryLeavesNoRun == Spec => []RunningIsWorkedOn
<1>1. DInv => RunningIsWorkedOn
  BY DEF DInv
<1> QED BY <1>1, DInvAlways, PTL

(* "Not found" is an answer: of a query about the platform, or of the      *)
(* complete crawl of a domain; a query that failed, or was not asked for   *)
(* want of budget, is none (_adapter_sweep, _mark_inventory_covered_checks).*)
THEOREM DiscoveryNotFoundIsAnAnswer == Spec => []NotFoundWasLookedFor
<1>1. DInv => NotFoundWasLookedFor
  BY DEF DInv
<1> QED BY <1>1, DInvAlways, PTL

-----------------------------------------------------------------------------
(* What a step may not do. Of the steps of the requests only two write     *)
(* sources, and each of them says so.                                      *)
Approval ==
  clicks' = clicks => \A i \in Idents : source'[i] # source[i] =>
    \/ source[i] = "absent"
    \/ source[i] = "inactive" /\ \E u \in Users : web[u].op = "confirm"

LEMMA ApprovalStep ==
  ASSUME DInv, [Next]_vars
  PROVE  Approval
<1>1. CASE TaskKeeps
  BY <1>1 DEF TaskKeeps, SourcesWritten, Approval
<1>2. CASE UNCHANGED source
  BY <1>2 DEF Approval
<1>3. ASSUME NEW u \in Users, ConfirmSource(u) PROVE Approval
  <2>1. CASE UNCHANGED source
    BY <1>2, <2>1
  <2>2. CASE /\ source[web[u].ident] # "blocked"
             /\ source' = [source EXCEPT ![web[u].ident] = "active"]
    <3>1. web[u].op = "confirm" /\ source \in [Idents -> SourceStates]
      BY <1>3 DEF ConfirmSource, DInv, RowsOK
    <3>2. ASSUME NEW i \in Idents, source'[i] # source[i]
          PROVE  source[i] \in {"absent", "inactive"}
      BY <2>2, <3>1, <3>2 DEF SourceStates
    <3> QED BY <3>1, <3>2 DEF Approval
  <2> QED BY <1>3, <2>1, <2>2 DEF ConfirmSource
<1>4. ASSUME Click PROVE Approval
  BY <1>4 DEF Click, DInv, Approval
<1>5. CASE WebStep
  <2>1. ASSUME NEW u \in Users,
               ConfirmCandidate(u) \/ SaveIgnored(u) \/ SaveRevalidated(u)
        PROVE  Approval
    BY <1>2, <2>1 DEF ConfirmCandidate, SaveIgnored, SaveRevalidated
  <2>2. ASSUME NEW u \in Users, NEW r \in Runs, NEW i \in Idents,
               \/ BeginConfirm(u, r, i) \/ BeginRevalidate(u, r, i)
               \/ \E op \in {"ignore", "restore"} : BeginIgnore(u, r, i, op)
        PROVE  Approval
    BY <1>4, <2>2 DEF BeginConfirm, BeginIgnore, BeginRevalidate
  <2>3. ASSUME NEW i \in Idents, ManageSource(i) PROVE Approval
    BY <1>4, <2>3 DEF ManageSource
  <2> QED BY <1>3, <1>5, <2>1, <2>2, <2>3 DEF WebStep
<1>6. Finish \/ FinishFails \/ Crash \/ (\E domain \in BOOLEAN : Start(domain)) \/ UNCHANGED vars
        => UNCHANGED source
  BY DEF Finish, FinishFails, Crash, Start, vars
<1> QED BY <1>1, <1>2, <1>5, <1>6, WorkKeeps DEF Next

(* The task creates sources and confirms what is active: no unapproved     *)
(* source is approved by it, and no inactive one activated, but on the     *)
(* confirmation of a user (_connect, confirm_candidate).                   *)
THEOREM DiscoveryPreservesApproval == Spec => ApprovalIsPreserved
<1>1. DInv /\ [Next]_vars => [Approval]_vars
  BY ApprovalStep
<1> QED BY <1>1, DInvAlways, PTL DEF Spec, ApprovalIsPreserved, Approval

(* What the checks of a run say of a platform, once they are made: that it *)
(* was not reached, that a query or a crawl answered "not found", or that  *)
(* the run has a candidate of it. CInv is the invariant behind "complete": *)
(* no step forgets a candidate that a check reports, and none skips the    *)
(* making of the checks but an exception, which fails the run.             *)
Unreached == {"not_checked", "search_failed"}
Explained(p) ==
  \/ check[task.run][p] \in Unreached \cup {"not_found"}
  \/ \E i \in Idents : Platform[i] = p /\ cand[task.run][i] # NoCand

CInv ==
  \/ task.run = 0 \/ task.pc = "sources" \/ (task.pc = "finish" /\ task.status = "failed")
  \/ \A p \in Platforms : Explained(p)

OwnRowsStay == \A i \in Idents : cand[task.run][i] # NoCand => cand'[task.run][i] # NoCand

LEMMA ExplainedStays ==
  ASSUME task'.run = task.run, OwnRowsStay, \A p \in Platforms : Explained(p),
         \A p \in Platforms :
           \/ check'[task.run][p] = check[task.run][p]
           \/ check'[task.run][p] \in Unreached \cup {"not_found"}
           \/ \E i \in Idents : Platform[i] = p /\ cand'[task.run][i] # NoCand
  PROVE  CInv'
BY DEF Explained, OwnRowsStay, CInv, Unreached

(* Rows that are put are there, and no row goes.                           *)
LEMMA PutStays ==
  ASSUME DInv, task.run # 0, NEW S \in SUBSET Idents, NEW rows \in [S -> Candidate],
         cand' = Put(rows)
  PROVE  OwnRowsStay /\ \A i \in S : cand'[task.run][i] # NoCand
<1>1. task.run \in Runs /\ cand \in [Runs -> Rows]
  BY DEF DInv, TaskOK, Task, Runs, RowsOK
<1>2. \A i \in S : rows[i] # NoCand
  BY DEF Candidate, NoCand, Decisions
<1>3. \A i \in Idents : cand'[task.run][i] = IF i \in S THEN rows[i] ELSE cand[task.run][i]
  BY <1>1 DEF Put, Rows
<1> QED BY <1>2, <1>3 DEF OwnRowsStay

LEMMA FindingStays ==
  ASSUME DInv, task.run # 0, NEW S \in SUBSET Idents,
         \/ cand' = Put([i \in S |-> Retained(i)])
         \/ cand' = Put([i \in S |-> Detected(i)])
  PROVE  OwnRowsStay /\ \A i \in S : cand'[task.run][i] # NoCand
<1>1. /\ [i \in S |-> Retained(i)] \in [S -> Candidate]
      /\ [i \in S |-> Detected(i)] \in [S -> Candidate]
  BY RowIs
<1> QED BY <1>1, PutStays

(* A platform is marked as found for a candidate of it.                    *)
LEMMA MarkFoundMarks ==
  ASSUME DInv, task.run # 0, NEW found \in SUBSET Idents, NEW p \in Platforms
  PROVE  \/ MarkFound(found)[task.run][p] = check[task.run][p]
         \/ \E i \in found : Platform[i] = p
<1>1. task.run \in Runs /\ check \in [Runs -> [Platforms -> Checks]]
  BY DEF DInv, TaskOK, Task, Runs, RowsOK
<1> QED BY <1>1 DEF MarkFound, PlatformsOf

(* The first step makes the checks, of the sources that it has as rows.    *)
LEMMA SeedSourcesExplains ==
  ASSUME DInv, SeedSources
  PROVE  CInv'
<1> DEFINE S == {j \in Idents : Present(j)}
           rows == [i \in S |-> [decision |-> SeedDecision(i), linked |-> TRUE,
                                 ignored |-> FALSE]]
<1>1. task.pc = "sources" /\ Go("previous") /\ cand' = Put(rows)
  BY DEF SeedSources
<1>2. task.run # 0 /\ task.run \in Runs /\ task'.run = task.run
  BY <1>1, AtWork, GoKeeps DEF Phases
<1>3. \A i \in S : cand'[task.run][i] # NoCand
  <2>1. \A i \in S : [decision |-> SeedDecision(i), linked |-> TRUE, ignored |-> FALSE]
                       \in Candidate
    BY <1>2, RowIs DEF Candidate
  <2>2. rows \in [S -> Candidate] /\ S \in SUBSET Idents
    BY <2>1
  <2> HIDE DEF rows, S
  <2> QED BY <1>1, <1>2, <2>2, PutStays
<1>4. PICK last \in {f \in [Platforms -> Idents \cup {"none"}] :
                       \A p \in Platforms :
                         LET own == {i \in Idents : Present(i) /\ Platform[i] = p}
                         IN IF own = {} THEN f[p] = "none" ELSE f[p] \in own} :
        check' = [check EXCEPT ![task.run] = [p \in Platforms |->
                    IF last[p] = "none" THEN "not_checked"
                    ELSE IF source[last[p]] = "active" THEN "already_connected"
                    ELSE "found"]]
  BY DEF SeedSources
<1>5. ASSUME NEW p \in Platforms
      PROVE  Explained(p)'
  <2>1. check'[task.run][p] =
          IF last[p] = "none" THEN "not_checked"
          ELSE IF source[last[p]] = "active" THEN "already_connected" ELSE "found"
    BY <1>2, <1>4 DEF DInv, RowsOK
  <2>2. CASE last[p] = "none"
    BY <1>2, <2>1, <2>2 DEF Explained, Unreached
  <2>3. CASE last[p] # "none"
    <3>1. last[p] \in S /\ Platform[last[p]] = p
      BY <1>4, <2>3
    <3> QED BY <1>2, <1>3, <3>1 DEF Explained
  <2> QED BY <2>2, <2>3
<1> QED BY <1>5 DEF CInv

(* The steps that write candidates.                                        *)
LEMMA FindingExplains ==
  ASSUME DInv, task.pc # "idle", \A p \in Platforms : Explained(p),
         SeedPrevious \/ RecordDetections \/ PersistInventory
  PROVE  CInv'
<1>1. PICK found \in SUBSET Idents :
        /\ \/ cand' = Put([i \in found |-> Retained(i)])
           \/ cand' = Put([i \in found |-> Detected(i)])
        /\ \/ check' = MarkFound(found)
           \/ check' = [MarkFound(found) EXCEPT ![task.run] =
                          [p \in Platforms |-> IF @[p] = "not_checked" THEN "not_found"
                                               ELSE @[p]]]
  <2>1. CASE SeedPrevious
    <3>1. Previous \in SUBSET Idents
      BY DEF Previous
    <3> QED BY <2>1, <3>1 DEF SeedPrevious
  <2>2. CASE RecordDetections
    <3>1. Detections \in SUBSET Idents
      BY DEF Detections
    <3> QED BY <2>2, <3>1 DEF RecordDetections
  <2>3. CASE PersistInventory
    BY <2>3, AtWork DEF PersistInventory
  <2> QED BY <2>1, <2>2, <2>3
<1>2. task.run # 0 /\ task.run \in Runs
  BY AtWork
<1>3. OwnRowsStay /\ \A i \in found : cand'[task.run][i] # NoCand
  BY <1>1, <1>2, FindingStays
<1>4. MarkFound(found) \in [Runs -> [Platforms -> Checks]]
  BY <1>2, MarkFoundIs
<1>5. ASSUME NEW p \in Platforms
      PROVE  \/ check'[task.run][p] = MarkFound(found)[task.run][p]
             \/ check'[task.run][p] = "not_found"
  BY <1>1, <1>2, <1>4
<1>6. task'.run = task.run
  <2>1. TaskOK /\ task \in Task
    BY AtWork
  <2> QED BY <2>1 DEF SeedPrevious, RecordDetections, PersistInventory, Go, Task
<1>7. \A p \in Platforms :
        \/ check'[task.run][p] = check[task.run][p]
        \/ check'[task.run][p] \in Unreached \cup {"not_found"}
        \/ \E i \in Idents : Platform[i] = p /\ cand'[task.run][i] # NoCand
  BY <1>2, <1>3, <1>5, MarkFoundMarks
<1> QED BY <1>3, <1>6, <1>7, ExplainedStays

(* The sweep: a check says "found" for rows that are written with it.      *)
LEMMA SweepExplains ==
  ASSUME DInv, \A p \in Platforms : Explained(p), NEW p \in Platforms, NEW queries \in {1, 2},
         \/ SweepFromResults(p) \/ SweepFails(p, queries)
         \/ \E found \in SUBSET {i \in Idents : Platform[i] = p} :
              \/ SweepQuery(p, found, queries)
              \/ \E failures \in {0, 1} : SweepProbe(p, found, queries, failures)
  PROVE  CInv'
<1>1. task.pc = "sweep" /\ task.pc # "idle"
  BY DEF SweepFromResults, SweepFails, SweepQuery, SweepProbe, MaySweep, Unswept
<1>2. task.run # 0 /\ task.run \in Runs /\ task \in Task
  BY <1>1, AtWork
<1>3. task'.run = task.run
  BY <1>2 DEF SweepFromResults, SweepFails, SweepQuery, SweepProbe, Task
<1>4. PICK status \in {"found", "not_found", "search_failed"},
           found \in SUBSET {i \in Idents : Platform[i] = p} :
        /\ check' = SetCheck(p, status) /\ (status = "found" => found # {})
        /\ \/ cand' = cand /\ status # "found"
           \/ cand' = Put([i \in found |-> Retained(i)])
           \/ cand' = Put([i \in found |-> Detected(i)])
  <2>1. CASE SweepFromResults(p)
    <3>1. Named(p) \in SUBSET {i \in Idents : Platform[i] = p}
      BY <1>2 DEF Named, Task
    <3> QED BY <2>1, <3>1 DEF SweepFromResults
  <2>2. CASE SweepFails(p, queries)
    BY <2>2 DEF SweepFails
  <2>3. ASSUME NEW S \in SUBSET {i \in Idents : Platform[i] = p}, SweepQuery(p, S, queries)
        PROVE  \/ /\ S = {} /\ check' = SetCheck(p, "not_found")
                  /\ cand' = Put([i \in S |-> Retained(i)])
               \/ /\ S # {} /\ check' = SetCheck(p, "found")
                  /\ cand' = Put([i \in S |-> Retained(i)])
    BY <2>3 DEF SweepQuery
  <2>4. ASSUME NEW S \in SUBSET {i \in Idents : Platform[i] = p}, NEW failures \in {0, 1},
               SweepProbe(p, S, queries, failures)
        PROVE  S # {} /\ check' = SetCheck(p, "found") /\ cand' = Put([i \in S |-> Detected(i)])
    BY <2>4 DEF SweepProbe
  <2> QED BY <2>1, <2>2, <2>3, <2>4
<1>5. OwnRowsStay /\ (status = "found" => \A i \in found : cand'[task.run][i] # NoCand)
  <2>1. CASE cand' = cand /\ status # "found"
    BY <2>1 DEF OwnRowsStay
  <2>2. CASE \/ cand' = Put([i \in found |-> Retained(i)])
             \/ cand' = Put([i \in found |-> Detected(i)])
    BY <1>2, <2>2, FindingStays
  <2> QED BY <1>4, <2>1, <2>2
<1>6. /\ check'[task.run][p] = status
      /\ \A q \in Platforms \ {p} : check'[task.run][q] = check[task.run][q]
  BY <1>2, <1>4, SetCheckIs DEF Checks
<1>7. \A q \in Platforms :
        \/ check'[task.run][q] = check[task.run][q]
        \/ check'[task.run][q] \in Unreached \cup {"not_found"}
        \/ \E i \in Idents : Platform[i] = q /\ cand'[task.run][i] # NoCand
  BY <1>4, <1>5, <1>6 DEF Unreached
<1> QED BY <1>3, <1>5, <1>7, ExplainedStays

(* A step that writes no row leaves what the checks say.                   *)
LEMMA RestExplains ==
  ASSUME CInv, task'.run = task.run, OwnRowsStay, UNCHANGED check,
         task.pc # "sources" \/ UNCHANGED task,
         task.pc # "finish" \/ UNCHANGED task
  PROVE  CInv'
<1>1. CASE \A p \in Platforms : Explained(p)
  BY <1>1, ExplainedStays
<1>2. CASE ~(\A p \in Platforms : Explained(p))
  BY <1>2 DEF CInv
<1> QED BY <1>1, <1>2

LEMMA WorkExplains ==
  ASSUME DInv, CInv, TaskStep, ~Finish, ~Raise
  PROVE  CInv'
<1>1. CASE SeedSources
  BY <1>1, SeedSourcesExplains
<1>2. CASE ~SeedSources
  <2>1. task.pc \notin {"idle", "sources", "finish"}
    <3>1. ASSUME SeedPrevious \/ RecordDetections \/ PersistInventory \/ MarkCovered
          PROVE  task.pc \in {"previous", "record", "persist", "covered"}
      BY <3>1 DEF SeedPrevious, RecordDetections, PersistInventory, MarkCovered
    <3>2. ASSUME NEW found, SearchGeneral(found) \/ QueryAnswers(found)
          PROVE  task.pc \in {"general", "inventory"}
      BY <3>2 DEF SearchGeneral, QueryAnswers, NextQuery
    <3>3. ASSUME \/ \E status \in Finals : NoOfficialSite(status)
                 \/ CrawlUnreachable \/ CrawlUnconfirmed
                 \/ \E det \in [Idents -> {"none", "weak", "strong"}] : CrawlPages(det)
          PROVE  task.pc = "crawl"
      BY <3>3 DEF NoOfficialSite, CrawlUnreachable, CrawlUnconfirmed, CrawlPages
    <3>4. ASSUME QueryFails \/ InventoryDone \/ SweepDone
          PROVE  task.pc \in {"inventory", "sweep"}
      BY <3>4 DEF QueryFails, NextQuery, InventoryDone, SweepDone
    <3>5. ASSUME NEW p, NEW queries,
                 \/ SweepFromResults(p) \/ SweepFails(p, queries)
                 \/ \E found \in SUBSET {i \in Idents : Platform[i] = p} :
                      \/ SweepQuery(p, found, queries)
                      \/ \E failures \in {0, 1} : SweepProbe(p, found, queries, failures)
          PROVE  task.pc = "sweep"
      BY <3>5 DEF SweepFromResults, SweepFails, SweepQuery, SweepProbe, MaySweep, Unswept
    <3>6. ASSUME \/ \E i \in Idents : Connect(i)
                 \/ \E careers \in BOOLEAN : Undecided(careers)
          PROVE  task.pc = "decide"
      BY <3>6 DEF Connect, Undecided
    <3> QED BY <1>2, <3>1, <3>2, <3>3, <3>4, <3>5, <3>6 DEF TaskStep
  <2>2. task.run # 0 /\ task.run \in Runs /\ task \in Task
    BY <2>1, AtWork
  <2>3. \A p \in Platforms : Explained(p)
    BY <2>1, <2>2 DEF CInv
  <2>4. \A status : Ended(status).run = task.run
    BY DEF Ended, Idle
  <2>5. CASE \/ \E found \in SUBSET Idents : SearchGeneral(found) \/ QueryAnswers(found)
             \/ \E status \in Finals : NoOfficialSite(status)
             \/ CrawlUnreachable \/ CrawlUnconfirmed
             \/ \E det \in [Idents -> {"none", "weak", "strong"}] : CrawlPages(det)
             \/ QueryFails \/ InventoryDone \/ SweepDone
             \/ \E careers \in BOOLEAN : Undecided(careers)
    <3>1. UNCHANGED <<cand, check>>
      BY <2>5 DEF SearchGeneral, QueryAnswers, NoOfficialSite, CrawlUnreachable,
                  CrawlUnconfirmed, CrawlPages, QueryFails, InventoryDone, SweepDone, Undecided
    <3>2. task'.run = task.run
      <4>1. CASE \E found \in SUBSET Idents : SearchGeneral(found) \/ QueryAnswers(found)
        BY <2>2, <4>1 DEF SearchGeneral, QueryAnswers, Task
      <4>2. CASE \/ \E status \in Finals : NoOfficialSite(status)
                 \/ CrawlUnreachable \/ CrawlUnconfirmed
                 \/ \E det \in [Idents -> {"none", "weak", "strong"}] : CrawlPages(det)
        <5>1. ASSUME NEW status \in Finals, NoOfficialSite(status) PROVE task'.run = task.run
          <6>1. CASE task.domain
            BY <2>4, <5>1, <6>1 DEF NoOfficialSite, Conclude
          <6>2. CASE ~task.domain
            BY <2>2, <5>1, <6>2 DEF NoOfficialSite, Task
          <6> QED BY <6>1, <6>2
        <5>2. ASSUME CrawlUnreachable PROVE task'.run = task.run
          BY <2>2, <5>2 DEF CrawlUnreachable, Task
        <5>3. ASSUME CrawlUnconfirmed PROVE task'.run = task.run
          BY <2>4, <5>3 DEF CrawlUnconfirmed, Conclude
        <5>4. ASSUME NEW det \in [Idents -> {"none", "weak", "strong"}], CrawlPages(det)
              PROVE  task'.run = task.run
          BY <2>2, <5>4 DEF CrawlPages, Task
        <5> QED BY <4>2, <5>1, <5>2, <5>3, <5>4
      <4>3. CASE QueryFails \/ InventoryDone \/ SweepDone
        <5>1. ASSUME QueryFails PROVE task'.run = task.run
          BY <2>2, <5>1 DEF QueryFails, NextQuery, Go, Task
        <5>2. ASSUME InventoryDone PROVE task'.run = task.run
          BY <2>2, <2>4, <5>2 DEF InventoryDone, Conclude, Go, Task
        <5>3. ASSUME SweepDone PROVE task'.run = task.run
          BY <2>2, <2>4, <5>3 DEF SweepDone, Conclude, Go, Task
        <5> QED BY <4>3, <5>1, <5>2, <5>3
      <4>4. CASE \E careers \in BOOLEAN : Undecided(careers)
        BY <2>4, <4>4 DEF Undecided, Conclude
      <4> QED BY <2>5, <4>1, <4>2, <4>3, <4>4
    <3> QED BY <2>1, <3>1, <3>2, RestExplains DEF OwnRowsStay
  <2>6. CASE SeedPrevious \/ RecordDetections \/ PersistInventory
    BY <2>1, <2>3, <2>6, FindingExplains
  <2>7. ASSUME NEW p \in Platforms, NEW queries \in {1, 2},
               \/ SweepFromResults(p) \/ SweepFails(p, queries)
               \/ \E found \in SUBSET {i \in Idents : Platform[i] = p} :
                    \/ SweepQuery(p, found, queries)
                    \/ \E failures \in {0, 1} : SweepProbe(p, found, queries, failures)
        PROVE  CInv'
    BY <2>3, <2>7, SweepExplains
  <2>8. CASE MarkCovered
    <3>1. /\ UNCHANGED cand
          /\ check' = [check EXCEPT ![task.run] = [p \in Platforms |->
                         IF p \in CoveredPlatforms /\ @[p] = "not_checked"
                         THEN "not_found" ELSE @[p]]]
      BY <2>8 DEF MarkCovered
    <3>2. \A p \in Platforms : \/ check'[task.run][p] = check[task.run][p]
                               \/ check'[task.run][p] = "not_found"
      BY <2>2, <3>1 DEF DInv, RowsOK
    <3>3. task'.run = task.run
      BY <2>2, <2>4, <2>8 DEF MarkCovered, Conclude, Task
    <3> QED BY <2>3, <3>1, <3>2, <3>3, ExplainedStays DEF OwnRowsStay
  <2>9. ASSUME NEW i \in Idents, Connect(i) PROVE CInv'
    <3> DEFINE row == [decision |-> Connection(i), linked |-> TRUE, ignored |-> Row(i).ignored]
    <3>1. cand' = Put([j \in {i} |-> row]) /\ UNCHANGED check
      BY <2>9 DEF Connect
    <3>2. row \in Candidate
      BY <2>2, RowIs DEF Connection, Candidate, Decisions
    <3> HIDE DEF row
    <3>3. OwnRowsStay
      <4>1. [j \in {i} |-> row] \in [{i} -> Candidate] /\ {i} \in SUBSET Idents
        BY <3>2
      <4> QED BY <2>2, <3>1, <4>1, PutStays
    <3>4. task'.run = task.run
      BY <2>9, <2>4 DEF Connect, Ended, Idle
    <3> QED BY <2>1, <3>1, <3>3, <3>4, RestExplains
  <2> QED BY <1>2, <2>5, <2>6, <2>7, <2>8, <2>9 DEF TaskStep
<1> QED BY <1>1, <1>2

LEMMA ExplainedStep ==
  ASSUME DInv, CInv, [Next]_vars
  PROVE  CInv'
<1>1. CASE TaskStep /\ ~Finish /\ ~Raise
  BY <1>1, WorkExplains
<1>2. CASE Raise
  <2>1. task'.pc = "finish" /\ task'.status = "failed"
    BY <1>2 DEF Raise, Ended, Idle
  <2> QED BY <2>1 DEF CInv
<1>3. CASE Finish \/ Crash
  BY <1>3, IdleIs DEF Finish, Crash, CInv
<1>4. CASE FinishFails
  <2>1. CASE task' = Idle
    BY <2>1, IdleIs DEF CInv
  <2>2. CASE task' = [task EXCEPT !.status = "failed", !.handled = TRUE]
    <3>1. task.pc = "finish" /\ task \in Task
      BY <1>4, AtWork DEF FinishFails
    <3>2. task'.pc = "finish" /\ task'.status = "failed"
      BY <2>2, <3>1 DEF Task
    <3> QED BY <3>2 DEF CInv
  <2> QED BY <1>4, <2>1, <2>2 DEF FinishFails
<1>5. ASSUME NEW domain \in BOOLEAN, Start(domain) PROVE CInv'
  <2>1. task'.pc = "sources"
    BY <1>5 DEF Start, Idle
  <2> QED BY <2>1 DEF CInv
<1>6. CASE WebStep
  <2>1. RowsStay
    BY <1>6, WebKeeps
  <2>2. UNCHANGED <<check, task>>
    BY <1>6 DEF WebStep, BeginConfirm, BeginRevalidate, BeginIgnore, ConfirmSource,
                ConfirmCandidate, SaveIgnored, SaveRevalidated, ManageSource
  <2>3. CASE task.run = 0
    BY <2>2, <2>3 DEF CInv
  <2>4. CASE task.run # 0
    <3>1. task.run \in Runs
      BY <2>4 DEF DInv, TaskOK, Task, Runs
    <3> QED BY <2>1, <2>2, <3>1, RestExplains DEF RowsStay, OwnRowsStay
  <2> QED BY <2>3, <2>4
<1>7. CASE UNCHANGED vars
  BY <1>7 DEF vars, CInv, Explained
<1> QED BY <1>1, <1>2, <1>3, <1>4, <1>5, <1>6, <1>7 DEF Next

LEMMA CInvAlways == Spec => [](DInv /\ CInv)
<1>1. Init => CInv
  BY DEF Init, CInv, Idle
<1> QED BY <1>1, DiscoveryInit, DiscoveryStep, ExplainedStep, PTL DEF Spec

(* A run that is finished as settled has explained all its checks.         *)
Settles ==
  \A r \in Runs :
    /\ run'[r].finished /\ ~ run[r].finished
    /\ run'[r].status \notin {"failed", "needs_review"}
    => \A p \in Platforms : Accounted(p)

LEMMA SettlesStep ==
  ASSUME DInv, CInv, [Next]_vars
  PROVE  Settles
<1>1. run \in [Runs -> [status : RunStates, finished : BOOLEAN]]
  BY DEF DInv, RowsOK
<1>2. CASE \A r \in Runs : run'[r].finished = run[r].finished
  BY <1>2 DEF Settles
<1>3. CASE Finish
  <2>1. \A r \in Runs \ {task.run} : run'[r] = run[r]
    BY <1>1, <1>3 DEF Finish
  <2>2. task.run \in Runs => run'[task.run].status = FinalStatus(task.run, task.status)
    BY <1>1, <1>3 DEF Finish
  <2>3. task.run \in Runs /\ task.pc = "finish" /\ check \in [Runs -> [Platforms -> Checks]]
    BY <1>3, AtWork DEF Finish, DInv, RowsOK
  <2>4. ASSUME run'[task.run].status \notin {"failed", "needs_review"}, NEW p \in Platforms
        PROVE  Accounted(p)
    <3>1. task.status # "failed" /\ ~Incomplete(task.run)
      BY <2>2, <2>3, <2>4 DEF FinalStatus
    <3>2. Explained(p)
      BY <2>3, <3>1 DEF CInv, Runs
    <3>3. check[task.run][p] \notin Unreached
      BY <3>1 DEF Incomplete, Unreached
    <3>4. CASE check[task.run][p] = "not_found"
      BY <2>3, <3>4 DEF DInv, NotFoundWasLookedFor, Accounted, Runs
    <3>5. CASE check[task.run][p] # "not_found"
      BY <3>2, <3>3, <3>5 DEF Explained, Accounted, SourceCandidates
    <3> QED BY <3>4, <3>5
  <2> QED BY <2>1, <2>3, <2>4 DEF Settles
<1>4. ASSUME NEW r \in Runs, NEW status, run' = [run EXCEPT ![r].status = status]
      PROVE  Settles
  <2>1. \A s \in Runs : run'[s].finished = run[s].finished
    BY <1>1, <1>4
  <2> QED BY <1>2, <2>1
<1>5. ASSUME NEW u \in Users, ConfirmCandidate(u) PROVE Settles
  <2>1. web[u].run \in Runs
    BY <1>5, MineIs DEF ConfirmCandidate
  <2> QED BY <1>2, <1>4, <1>5, <2>1 DEF ConfirmCandidate
<1>6. ASSUME NEW domain \in BOOLEAN, Start(domain) PROVE Settles
  <2> DEFINE r == Cardinality(Created) + 1
  <2>1. run' = [run EXCEPT ![r].status = "running"]
    BY <1>6 DEF Start
  <2> HIDE DEF r
  <2>2. \A s \in Runs : run'[s].finished = run[s].finished
    BY <1>1, <2>1
  <2> QED BY <1>2, <2>2
<1>7. CASE WebStep
  <2>1. ASSUME NEW u \in Users, ConfirmSource(u) \/ SaveIgnored(u) \/ SaveRevalidated(u)
        PROVE  UNCHANGED run
    BY <2>1 DEF ConfirmSource, SaveIgnored, SaveRevalidated
  <2>2. ASSUME NEW u \in Users, NEW r \in Runs, NEW i \in Idents,
               \/ BeginConfirm(u, r, i) \/ BeginRevalidate(u, r, i)
               \/ \E op \in {"ignore", "restore"} : BeginIgnore(u, r, i, op)
        PROVE  UNCHANGED run
    BY <2>2 DEF BeginConfirm, BeginIgnore, BeginRevalidate
  <2>3. ASSUME NEW i \in Idents, ManageSource(i) PROVE UNCHANGED run
    BY <2>3 DEF ManageSource
  <2> QED BY <1>2, <1>5, <1>7, <2>1, <2>2, <2>3 DEF WebStep
<1>8. TaskKeeps \/ FinishFails \/ Crash \/ UNCHANGED vars => UNCHANGED run
  BY DEF TaskKeeps, FinishFails, Crash, vars
<1> QED BY <1>2, <1>3, <1>6, <1>7, <1>8, WorkKeeps DEF Next

(* A run that does not end as failed or to be reviewed knows every         *)
(* platform: by an answer, by a complete crawl, or by a candidate that it  *)
(* has. So no sequence of failed, skipped and unaffordable searches, of    *)
(* earlier findings and of deletions passes for a complete one (_finish).  *)
THEOREM DiscoverySettlesOnAll == Spec => SettledRunsAreComplete
<1>1. DInv /\ CInv /\ [Next]_vars => [Settles]_vars
  BY SettlesStep
<1> QED BY <1>1, CInvAlways, PTL DEF Spec, SettledRunsAreComplete, Settles

Final ==
  clicks' = clicks /\ UNCHANGED web =>
    \A r \in Runs : run[r].finished => cand'[r] = cand[r] /\ check'[r] = check[r]

LEMMA FinalStep ==
  ASSUME DInv, [Next]_vars
  PROVE  Final
<1>1. CASE TaskKeeps
  BY <1>1 DEF TaskKeeps, Final, DInv, OwnRun, Runs
<1>2. CASE UNCHANGED <<cand, check>>
  BY <1>2 DEF Final
<1>3. ASSUME NEW u \in Users, web[u].op # "none", Leave(u) PROVE Final
  <2>1. web'[u].op = "none"
    BY <1>3, IdleIs DEF Leave, DInv, WebOK
  <2> QED BY <1>3, <2>1 DEF Final
<1>4. CASE WebStep
  <2>1. ASSUME NEW u \in Users, ConfirmSource(u) PROVE Final
    BY <1>2, <2>1 DEF ConfirmSource
  <2>2. ASSUME NEW u \in Users,
               ConfirmCandidate(u) \/ SaveIgnored(u) \/ SaveRevalidated(u)
        PROVE  Final
    <3>1. web[u].op # "none" /\ Leave(u)
      BY <2>2 DEF ConfirmCandidate, SaveIgnored, SaveRevalidated
    <3> QED BY <1>3, <3>1
  <2>3. ASSUME NEW u \in Users, NEW r \in Runs, NEW i \in Idents,
               \/ BeginConfirm(u, r, i) \/ BeginRevalidate(u, r, i)
               \/ \E op \in {"ignore", "restore"} : BeginIgnore(u, r, i, op)
        PROVE  Final
    BY <1>2, <2>3 DEF BeginConfirm, BeginIgnore, BeginRevalidate
  <2>4. ASSUME NEW i \in Idents, ManageSource(i) PROVE Final
    BY <2>4 DEF ManageSource, Click, DInv, Final
  <2> QED BY <1>4, <2>1, <2>2, <2>3, <2>4 DEF WebStep
<1>5. Finish \/ FinishFails \/ Crash \/ (\E domain \in BOOLEAN : Start(domain)) \/ UNCHANGED vars
        => UNCHANGED <<cand, check>>
  BY DEF Finish, FinishFails, Crash, Start, vars
<1> QED BY <1>1, <1>2, <1>4, <1>5, WorkKeeps DEF Next

(* What a run has found is final once it is over: no later task writes the *)
(* rows of an earlier run, though it reads them                            *)
(* (_candidate_by_source_key filters by run); only users do.               *)
THEOREM DiscoveryKeepsSnapshots == Spec => SnapshotsAreFinal
<1>1. DInv /\ [Next]_vars => [Final]_vars
  BY FinalStep
<1> QED BY <1>1, DInvAlways, PTL DEF Spec, SnapshotsAreFinal, Final
=============================================================================
