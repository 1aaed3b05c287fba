------------------------ MODULE RunLifecycle_proofs ------------------------
(***************************************************************************)
(* Proofs about RunLifecycle for every number of companies, sources and    *)
(* runs.  LInv adds one fact to the properties: no row lies beyond the     *)
(* AUTOINCREMENT counter, so that StartRun never overwrites a run.  The    *)
(* part of it about runs, RunsInv, needs nothing of the cached status and  *)
(* survives the views of SourceManagement, which overwrite that status.    *)
(***************************************************************************)
EXTENDS RunLifecycle, TLAPS

FreshPk == \A r \in RunIds : r > lastPk => run[r] = NoRun

RunsInv == TypeOK /\ FreshPk /\ OneRunningPerSource /\ RunningIsOwned

LInv == RunsInv /\ CachedRunningIsReal

(* _aggregate_company_state writes one of the five statuses, and writes    *)
(* "running" only if a RUNNING row of one of the company's saved sources   *)
(* exists.                                                                 *)
LEMMA AggregateResult ==
  ASSUME NEW c \in Companies, NEW src, NEW rn
  PROVE  /\ Aggregate(c, src, rn) \in {"never", "running"} \cup Terminal
         /\ Aggregate(c, src, rn) = "running" =>
              \E r \in RunIds : /\ rn[r].status = "running"
                                /\ rn[r].source \in Sources
                                /\ Owner[rn[r].source] = c
BY DEF Aggregate, Terminal

(* The first states satisfy the inductive invariant.                       *)
LEMMA InitLInv == LifecycleInit => LInv
<1> SUFFICES ASSUME LifecycleInit PROVE LInv
  OBVIOUS
<1>1. TypeOK
  BY MaxRunsAssumption DEF LifecycleInit, TypeOK, CompanyRow, SourceRow, RunRow, NoRun, Presence, Terminal
<1>2. FreshPk /\ OneRunningPerSource /\ RunningIsOwned
  BY DEF LifecycleInit, FreshPk, OneRunningPerSource, RunningIsOwned, Running, NoRun
<1>3. CachedRunningIsReal
  BY DEF LifecycleInit, CachedRunningIsReal
<1> QED
  BY <1>1, <1>2, <1>3 DEF LInv, RunsInv

(* start_scrape_run: the new row gets a fresh key, its source has no other *)
(* RUNNING row, and both owners are saved.                                 *)
LEMMA StartRunRunsInv ==
  ASSUME RunsInv, NEW s \in Sources, StartRun(s)
  PROVE  RunsInv' /\ (CachedRunningIsReal => CachedRunningIsReal')
<1> DEFINE new == lastPk + 1
<1>0. /\ new \in RunIds /\ run[new] = NoRun /\ Owner[s] \in Companies
      /\ source' = source /\ lastPk' = new /\ MayStart(s)
  BY OwnerAssumption, MaxRunsAssumption DEF RunsInv, TypeOK, FreshPk, StartRun, RunIds
<1>1. run' = [run EXCEPT ![new] = [status |-> "running", source |-> s, company |-> Owner[s]]]
  BY DEF StartRun
<1>2. company' = [company EXCEPT ![Owner[s]].status = Aggregate(Owner[s], source, run')]
  BY DEF StartRun
<1>3. \A r \in RunIds : r # new => run'[r] = run[r]
  BY <1>0, <1>1 DEF RunsInv, TypeOK
<1>4. /\ run'[new].status = "running" /\ run'[new].source = s
      /\ run'[new].company = Owner[s]
  BY <1>0, <1>1 DEF RunsInv, TypeOK
<1>5. \A c \in Companies : /\ company'[c].row = company[c].row
                           /\ c # Owner[s] => company'[c] = company[c]
  BY <1>0, <1>2 DEF RunsInv, TypeOK, CompanyRow
<1>6. TypeOK'
  <2>1. company' \in [Companies -> CompanyRow]
    BY <1>0, <1>2, AggregateResult DEF RunsInv, TypeOK, CompanyRow
  <2>2. run' \in [RunIds -> RunRow]
    BY <1>0, <1>1 DEF RunsInv, TypeOK, RunRow
  <2> QED
    BY <1>0, <2>1, <2>2, MaxRunsAssumption DEF RunsInv, TypeOK, RunIds
<1>7. FreshPk'
  BY <1>0, <1>3, MaxRunsAssumption DEF RunsInv, TypeOK, FreshPk, RunIds
<1>8. OneRunningPerSource'
  <2> SUFFICES ASSUME NEW q \in RunIds, NEW r \in RunIds, Running(q)', Running(r)',
                      run'[q].source = run'[r].source
               PROVE  q = r
    BY DEF OneRunningPerSource
  <2>1. ASSUME NEW p \in RunIds, p # new, Running(p)' PROVE run'[p].source # s
    BY <2>1, <1>0, <1>3 DEF MayStart, HasRunning, Running
  <2> QED
    BY <1>3, <1>4, <2>1 DEF RunsInv, OneRunningPerSource, Running
<1>9. RunningIsOwned'
  <2> SUFFICES ASSUME NEW r \in RunIds, run'[r].status = "running"
               PROVE  /\ run'[r].source \in Sources
                      /\ source[run'[r].source].row = "saved"
                      /\ run'[r].company = Owner[run'[r].source]
                      /\ company'[run'[r].company].row = "saved"
    BY <1>0 DEF RunningIsOwned, Running
  <2>1. CASE r = new
    BY <2>1, <1>0, <1>4, <1>5 DEF MayStart, Executable
  <2>2. CASE r # new
    <3>1. run'[r] = run[r]
      BY <2>2, <1>3
    <3>2. /\ run[r].source \in Sources /\ source[run[r].source].row = "saved"
          /\ run[r].company = Owner[run[r].source] /\ company[run[r].company].row = "saved"
      BY <3>1 DEF RunsInv, RunningIsOwned, Running
    <3> QED
      BY <3>1, <3>2, <1>5, OwnerAssumption
  <2> QED
    BY <2>1, <2>2
<1>10. CachedRunningIsReal => CachedRunningIsReal'
  <2> SUFFICES ASSUME CachedRunningIsReal, NEW c \in Companies, company'[c].status = "running"
               PROVE  \E r \in RunIds : run'[r].company = c /\ run'[r].status = "running"
    BY DEF CachedRunningIsReal, CompanyHasRunning, Running
  <2>1. CASE c = Owner[s]
    BY <2>1, <1>0, <1>4
  <2>2. CASE c # Owner[s]
    <3>1. PICK r \in RunIds : run[r].company = c /\ run[r].status = "running"
      BY <2>2, <1>5 DEF CachedRunningIsReal, CompanyHasRunning, Running
    <3> QED
      BY <3>1, <1>0, <1>3 DEF NoRun
  <2> QED
    BY <2>1, <2>2
<1> QED
  BY <1>6, <1>7, <1>8, <1>9, <1>10 DEF RunsInv

(* finish_scrape_run: one row leaves RUNNING, and the status of its        *)
(* company is computed from the rows after that.                           *)
LEMMA FinishRunRunsInv ==
  ASSUME RunsInv, NEW f \in RunIds, NEW status \in Terminal, FinishRun(f, status)
  PROVE  RunsInv' /\ (CachedRunningIsReal => CachedRunningIsReal')
<1> DEFINE owner == run[f].company
<1>0. /\ owner \in Companies /\ run[f].source \in Sources
      /\ Owner[run[f].source] = owner /\ Running(f)
      /\ source' = source /\ lastPk' = lastPk
  BY OwnerAssumption DEF RunsInv, TypeOK, FinishRun, MayFinish
<1>1. run' = [run EXCEPT ![f].status = status]
  BY DEF FinishRun
<1>2. company' = [company EXCEPT ![owner].status = Aggregate(owner, source, run')]
  BY DEF FinishRun, FinishCache
<1>3. \A r \in RunIds : /\ run'[r].source = run[r].source
                        /\ run'[r].company = run[r].company
                        /\ r # f => run'[r] = run[r]
  BY <1>1 DEF RunsInv, TypeOK, RunRow
<1>4. run'[f].status = status
  BY <1>1 DEF RunsInv, TypeOK
<1>5. \A c \in Companies : /\ company'[c].row = company[c].row
                           /\ c # owner => company'[c] = company[c]
  BY <1>0, <1>2 DEF RunsInv, TypeOK, CompanyRow
<1>6. TypeOK'
  <2>1. company' \in [Companies -> CompanyRow]
    BY <1>0, <1>2, AggregateResult DEF RunsInv, TypeOK, CompanyRow
  <2>2. run[f] \in [status : {"running"} \cup Terminal,
                    source : Sources \cup {NoSource}, company : Companies]
    BY <1>0 DEF RunsInv, TypeOK, RunRow, NoRun, Running
  <2>3. [run[f] EXCEPT !.status = status] \in RunRow
    BY <2>2 DEF RunRow
  <2>4. run' \in [RunIds -> RunRow]
    BY <1>1, <2>3 DEF RunsInv, TypeOK
  <2> QED
    BY <1>0, <2>1, <2>4 DEF RunsInv, TypeOK
<1>7. FreshPk'
  <2>1. run[f] # NoRun
    BY <1>0 DEF Running, NoRun
  <2> QED
    BY <1>0, <1>3, <2>1 DEF RunsInv, FreshPk
<1>8. OneRunningPerSource' /\ RunningIsOwned'
  <2>1. \A r \in RunIds : Running(r)' => Running(r)
    BY <1>0, <1>3 DEF Running
  <2>2. OneRunningPerSource'
    BY <1>3, <2>1 DEF RunsInv, OneRunningPerSource
  <2>3. ASSUME NEW r \in RunIds, Running(r)
        PROVE  /\ run'[r].source \in Sources
               /\ source'[run'[r].source].row = "saved"
               /\ run'[r].company = Owner[run'[r].source]
               /\ company'[run'[r].company].row = "saved"
    BY <2>3, <1>0, <1>3, <1>5, OwnerAssumption DEF RunsInv, RunningIsOwned
  <2> QED
    BY <2>1, <2>2, <2>3 DEF RunningIsOwned
<1>9. CachedRunningIsReal => CachedRunningIsReal'
  <2> SUFFICES ASSUME CachedRunningIsReal, NEW c \in Companies, company'[c].status = "running"
               PROVE  \E r \in RunIds : run'[r].company = c /\ run'[r].status = "running"
    BY DEF CachedRunningIsReal, CompanyHasRunning, Running
  <2>1. CASE c = owner
    <3>1. Aggregate(owner, source, run') = "running"
      BY <2>1, <1>0, <1>2 DEF RunsInv, TypeOK
    <3>2. PICK r \in RunIds : /\ run'[r].status = "running"
                              /\ run'[r].source \in Sources
                              /\ Owner[run'[r].source] = owner
      BY <3>1, <1>0, AggregateResult
    <3>3. run'[r].company = owner
      BY <3>2, <1>8 DEF RunningIsOwned, Running
    <3> QED
      BY <3>2, <3>3, <2>1
  <2>2. CASE c # owner
    <3>1. PICK r \in RunIds : run[r].company = c /\ run[r].status = "running"
      BY <2>2, <1>5 DEF CachedRunningIsReal, CompanyHasRunning, Running
    <3> QED
      BY <3>1, <2>2, <1>3
  <2> QED
    BY <2>1, <2>2
<1> QED
  BY <1>6, <1>7, <1>8, <1>9 DEF RunsInv

(* Deleting a source without a RUNNING row only touches terminal runs.     *)
LEMMA DeleteSourceRunsInv ==
  ASSUME RunsInv, NEW s \in Sources, DeleteSource(s)
  PROVE  RunsInv' /\ (CachedRunningIsReal => CachedRunningIsReal')
<1>0. /\ company' = company /\ lastPk' = lastPk
      /\ source' = [source EXCEPT ![s].row = "deleted"]
      /\ run' = [r \in RunIds |-> IF run[r].source = s
                                  THEN [run[r] EXCEPT !.source = NoSource] ELSE run[r]]
      /\ \A r \in RunIds : ~(run[r].source = s /\ Running(r))
  BY DEF DeleteSource, MayDeleteSource, HasRunning
<1>1. \A r \in RunIds : /\ run'[r].status = run[r].status
                        /\ run'[r].company = run[r].company
                        /\ run[r].source # s => run'[r] = run[r]
                        /\ run[r].source = s => run'[r].source = NoSource
  BY <1>0 DEF RunsInv, TypeOK, RunRow
<1>2. TypeOK'
  <2>0. \A r \in RunIds : run[r].source = s => [run[r] EXCEPT !.source = NoSource] \in RunRow
    BY NullAssumption DEF RunsInv, TypeOK, RunRow, NoRun
  <2>1. run' \in [RunIds -> RunRow]
    BY <1>0, <2>0 DEF RunsInv, TypeOK
  <2>2. source' \in [Sources -> SourceRow]
    BY <1>0 DEF RunsInv, TypeOK, SourceRow, Presence
  <2> QED
    BY <1>0, <2>1, <2>2 DEF RunsInv, TypeOK
<1>3. FreshPk'
  BY <1>0, <1>1, NullAssumption DEF RunsInv, FreshPk, NoRun
<1>4. \A r \in RunIds : Running(r)' => Running(r) /\ run'[r] = run[r] /\ run[r].source # s
  BY <1>0, <1>1 DEF Running
<1>5. OneRunningPerSource'
  BY <1>4 DEF RunsInv, OneRunningPerSource
<1>6. \A q \in Sources : q # s => source'[q] = source[q]
  BY <1>0 DEF RunsInv, TypeOK
<1>7. RunningIsOwned'
  <2> SUFFICES ASSUME NEW r \in RunIds, Running(r)'
               PROVE  /\ run'[r].source \in Sources
                      /\ source'[run'[r].source].row = "saved"
                      /\ run'[r].company = Owner[run'[r].source]
                      /\ company[run'[r].company].row = "saved"
    BY <1>0 DEF RunningIsOwned
  <2>1. Running(r) /\ run'[r] = run[r] /\ run[r].source # s
    BY <1>4
  <2>2. /\ run[r].source \in Sources /\ source[run[r].source].row = "saved"
        /\ run[r].company = Owner[run[r].source] /\ company[run[r].company].row = "saved"
    BY <2>1 DEF RunsInv, RunningIsOwned
  <2> QED
    BY <2>1, <2>2, <1>6
<1>8. CachedRunningIsReal => CachedRunningIsReal'
  BY <1>0, <1>1 DEF CachedRunningIsReal, CompanyHasRunning, Running
<1> QED
  BY <1>2, <1>3, <1>5, <1>7, <1>8 DEF RunsInv

(* Deleting a company without a RUNNING row removes its whole graph and    *)
(* nothing of another company.                                             *)
LEMMA DeleteCompanyRunsInv ==
  ASSUME RunsInv, NEW c \in Companies, DeleteCompany(c)
  PROVE  RunsInv' /\ (CachedRunningIsReal => CachedRunningIsReal')
<1>0. /\ lastPk' = lastPk
      /\ company' = [company EXCEPT ![c].row = "deleted"]
      /\ source' = [s \in Sources |-> IF Owner[s] = c /\ source[s].row = "saved"
                                    THEN [source[s] EXCEPT !.row = "deleted"] ELSE source[s]]
      /\ run' = [r \in RunIds |-> IF run[r].company = c THEN NoRun ELSE run[r]]
      /\ \A r \in RunIds : ~(run[r].company = c /\ Running(r))
  BY DEF DeleteCompany, CompanyHasRunning, RunsWithout
<1>1. \A r \in RunIds : /\ run[r].company # c => run'[r] = run[r]
                        /\ run[r].company = c => run'[r] = NoRun
  BY <1>0
<1>2. TypeOK'
  <2>1. run' \in [RunIds -> RunRow]
    BY <1>0 DEF RunsInv, TypeOK, RunRow, NoRun
  <2>2. source' \in [Sources -> SourceRow]
    BY <1>0 DEF RunsInv, TypeOK, SourceRow, Presence
  <2>3. company' \in [Companies -> CompanyRow]
    BY <1>0 DEF RunsInv, TypeOK, CompanyRow, Presence
  <2> QED
    BY <1>0, <2>1, <2>2, <2>3 DEF RunsInv, TypeOK
<1>3. FreshPk'
  BY <1>0, <1>1 DEF RunsInv, FreshPk
<1>4. \A r \in RunIds : Running(r)' => Running(r) /\ run'[r] = run[r] /\ run[r].company # c
  BY <1>1 DEF Running, NoRun
<1>5. OneRunningPerSource'
  BY <1>4 DEF RunsInv, OneRunningPerSource
<1>6. /\ \A d \in Companies : d # c => company'[d] = company[d]
      /\ \A s \in Sources : Owner[s] # c => source'[s] = source[s]
      /\ company'[c].row = "deleted"
  BY <1>0 DEF RunsInv, TypeOK
<1>7. RunningIsOwned'
  <2> SUFFICES ASSUME NEW r \in RunIds, Running(r)'
               PROVE  /\ run'[r].source \in Sources
                      /\ source'[run'[r].source].row = "saved"
                      /\ run'[r].company = Owner[run'[r].source]
                      /\ company'[run'[r].company].row = "saved"
    BY DEF RunningIsOwned
  <2>1. Running(r) /\ run'[r] = run[r] /\ run[r].company # c
    BY <1>4
  <2>2. /\ run[r].source \in Sources /\ source[run[r].source].row = "saved"
        /\ run[r].company = Owner[run[r].source] /\ company[run[r].company].row = "saved"
    BY <2>1 DEF RunsInv, RunningIsOwned
  <2> QED
    BY <2>1, <2>2, <1>6, OwnerAssumption
<1>8. CachedRunningIsReal => CachedRunningIsReal'
  <2> SUFFICES ASSUME CachedRunningIsReal, NEW d \in Companies, company'[d].status = "running"
               PROVE  \E r \in RunIds : run'[r].company = d /\ run'[r].status = "running"
    BY DEF CachedRunningIsReal, CompanyHasRunning, Running
  <2>1. company[d].status = "running"
    BY <1>0 DEF RunsInv, TypeOK, CompanyRow
  <2>2. PICK r \in RunIds : run[r].company = d /\ run[r].status = "running"
    BY <2>1 DEF CachedRunningIsReal, CompanyHasRunning, Running
  <2> QED
    BY <2>2, <1>0, <1>1 DEF Running
<1> QED
  BY <1>2, <1>3, <1>5, <1>7, <1>8 DEF RunsInv

(* Writing companies and sources, without a row of theirs being taken      *)
(* away, never endangers a run.                                            *)
LEMMA SavedRowsRunsInv ==
  ASSUME RunsInv, run' = run, lastPk' = lastPk,
         company' \in [Companies -> CompanyRow], source' \in [Sources -> SourceRow],
         \A c \in Companies : company[c].row = "saved" => company'[c].row = "saved",
         \A s \in Sources : source[s].row = "saved" => source'[s].row = "saved"
  PROVE  RunsInv'
<1>1. TypeOK' /\ FreshPk' /\ OneRunningPerSource'
  BY DEF RunsInv, TypeOK, FreshPk, OneRunningPerSource, Running
<1>2. RunningIsOwned'
  <2> SUFFICES ASSUME NEW r \in RunIds, Running(r)
               PROVE  /\ run[r].source \in Sources
                      /\ source'[run[r].source].row = "saved"
                      /\ run[r].company = Owner[run[r].source]
                      /\ company'[run[r].company].row = "saved"
    BY DEF RunningIsOwned, Running
  <2> QED
    BY OwnerAssumption DEF RunsInv, RunningIsOwned
<1> QED
  BY <1>1, <1>2 DEF RunsInv

(* Creating rows and saving is_active flags never touches a run, nor the   *)
(* presence of a saved row.                                                *)
LEMMA SaveRunsInv ==
  ASSUME RunsInv,
         \/ \E c \in Companies : CreateCompany(c) \/ \E b \in BOOLEAN : SaveCompanyActive(c, b)
         \/ \E s \in Sources : CreateSource(s) \/ \E b \in BOOLEAN : SaveSourceActive(s, b)
  PROVE  RunsInv' /\ (CachedRunningIsReal => CachedRunningIsReal')
<1>0. run' = run /\ lastPk' = lastPk
  BY DEF CreateCompany, SaveCompanyActive, CreateSource, SaveSourceActive
<1>1. /\ company' \in [Companies -> CompanyRow]
      /\ \A c \in Companies : /\ company[c].row = "saved" => company'[c].row = "saved"
                              /\ company'[c].status = company[c].status
  BY DEF RunsInv, TypeOK, CompanyRow, Presence,
         CreateCompany, SaveCompanyActive, CreateSource, SaveSourceActive
<1>2. /\ source' \in [Sources -> SourceRow]
      /\ \A s \in Sources : source[s].row = "saved" => source'[s].row = "saved"
  BY DEF RunsInv, TypeOK, SourceRow, Presence,
         CreateCompany, SaveCompanyActive, CreateSource, SaveSourceActive
<1>3. RunsInv'
  BY <1>0, <1>1, <1>2, SavedRowsRunsInv
<1>4. CachedRunningIsReal => CachedRunningIsReal'
  BY <1>0, <1>1 DEF CachedRunningIsReal, CompanyHasRunning, Running
<1> QED
  BY <1>3, <1>4

(* Every step of the services keeps the invariant of the runs, and the     *)
(* cached status true.                                                     *)
LEMMA NextRunsInv ==
  ASSUME RunsInv, [LifecycleNext]_lifecycleVars
  PROVE  RunsInv' /\ (CachedRunningIsReal => CachedRunningIsReal')
<1>1. CASE Administer
  BY <1>1, SaveRunsInv, DeleteSourceRunsInv, DeleteCompanyRunsInv DEF Administer
<1>2. CASE \E s \in Sources : StartRun(s)
  BY <1>2, StartRunRunsInv
<1>3. CASE \E r \in RunIds, status \in Terminal : FinishRun(r, status)
  BY <1>3, FinishRunRunsInv
<1>4. CASE UNCHANGED lifecycleVars
  BY <1>4 DEF lifecycleVars, RunsInv, TypeOK, FreshPk, OneRunningPerSource, RunningIsOwned,
              CachedRunningIsReal, CompanyHasRunning, Running
<1> QED
  BY <1>1, <1>2, <1>3, <1>4 DEF LifecycleNext

LEMMA NextLInv == LInv /\ [LifecycleNext]_lifecycleVars => LInv'
BY NextRunsInv DEF LInv

(* The rows the monitoring services write are well formed, whatever the    *)
(* interleaving of starts, finishes, deletions and switches.               *)
THEOREM LifecycleType == LifecycleSpec => []TypeOK
<1>1. LifecycleSpec => []LInv
  BY InitLInv, NextLInv, PTL DEF LifecycleSpec
<1>2. LInv => TypeOK
  BY DEF LInv, RunsInv
<1> QED
  BY <1>1, <1>2, PTL

(* No source ever has two RUNNING runs, for any number of companies,       *)
(* sources and runs (docs/MULTI_SOURCE_ARCHITECTURE.md, "Two simultaneous  *)
(* runs for the same source are rejected").                                *)
THEOREM LifecycleOneRunning == LifecycleSpec => []OneRunningPerSource
<1>1. LifecycleSpec => []LInv
  BY InitLInv, NextLInv, PTL DEF LifecycleSpec
<1>2. LInv => OneRunningPerSource
  BY DEF LInv, RunsInv
<1> QED
  BY <1>1, <1>2, PTL

(* No deletion orphans a RUNNING run: its source and company rows exist    *)
(* until it ends.                                                          *)
THEOREM LifecycleRunningOwned == LifecycleSpec => []RunningIsOwned
<1>1. LifecycleSpec => []LInv
  BY InitLInv, NextLInv, PTL DEF LifecycleSpec
<1>2. LInv => RunningIsOwned
  BY DEF LInv, RunsInv
<1> QED
  BY <1>1, <1>2, PTL

(* The cached Company status is never left at "running" once the last      *)
(* RUNNING run of the company has ended.                                   *)
THEOREM LifecycleCachedRunning == LifecycleSpec => []CachedRunningIsReal
<1>1. LifecycleSpec => []LInv
  BY InitLInv, NextLInv, PTL DEF LifecycleSpec
<1>2. LInv => CachedRunningIsReal
  BY DEF LInv, RunsInv
<1> QED
  BY <1>1, <1>2, PTL

(* What every step of the services keeps of a terminal row.                *)
RowIsFinal(r) ==
  run[r].status \in Terminal =>
    \/ run'[r].status = run[r].status
    \/ run'[r] = NoRun /\ company'[run[r].company].row = "deleted"

LEMMA NextRowsAreFinal ==
  ASSUME RunsInv, [LifecycleNext]_lifecycleVars \/ UNCHANGED run, NEW r \in RunIds
  PROVE  RowIsFinal(r)
<1> SUFFICES ASSUME run[r].status \in Terminal
             PROVE  \/ run'[r].status = run[r].status
                    \/ run'[r] = NoRun /\ company'[run[r].company].row = "deleted"
  BY DEF RowIsFinal
<1>1. CASE \E s \in Sources : StartRun(s)
  <2>1. PICK s \in Sources : StartRun(s)
    BY <1>1
  <2>2. r # lastPk + 1
    BY MaxRunsAssumption DEF RunsInv, TypeOK, FreshPk, RunIds, NoRun, Terminal
  <2> QED
    BY <2>1, <2>2 DEF StartRun, RunsInv, TypeOK
<1>2. CASE \E f \in RunIds, status \in Terminal : FinishRun(f, status)
  BY <1>2 DEF FinishRun, MayFinish, Running, Terminal, RunsInv, TypeOK
<1>3. CASE \E c \in Companies : DeleteCompany(c)
  <2>1. run[r].company \in Companies
    BY DEF RunsInv, TypeOK, RunRow, NoRun, Terminal
  <2> QED
    BY <1>3, <2>1 DEF DeleteCompany, RunsWithout, RunsInv, TypeOK
<1>4. CASE \E s \in Sources : DeleteSource(s)
  BY <1>4 DEF DeleteSource, RunsInv, TypeOK, RunRow
<1>5. CASE UNCHANGED run
  BY <1>5
<1> QED
  BY <1>1, <1>2, <1>3, <1>4, <1>5
     DEF LifecycleNext, lifecycleVars, Administer, CreateCompany, CreateSource,
         SaveSourceActive, SaveCompanyActive

(* A terminal run keeps its status until its company is deleted.           *)
THEOREM LifecycleTerminalIsFinal == LifecycleSpec => TerminalIsFinal
<1>1. LInv /\ [LifecycleNext]_lifecycleVars => [\A r \in RunIds : RowIsFinal(r)]_lifecycleVars
  BY NextRowsAreFinal DEF LInv
<1>2. LifecycleSpec => []LInv
  BY InitLInv, NextLInv, PTL DEF LifecycleSpec
<1> QED
  BY <1>1, <1>2, PTL DEF LifecycleSpec, TerminalIsFinal, RowIsFinal
=============================================================================
