---------------------- MODULE SourceManagement_proofs ----------------------
(***************************************************************************)
(* Proofs about SourceManagement for every number of companies, sources,   *)
(* runs, web threads and URLs.  The services keep what RunLifecycle_proofs *)
(* shows of them; what has to be shown here is that the saves of the views *)
(* do, although each writes a row loaded some steps before.  The argument  *)
(* needs nothing of what a view has read: MInv does not mention it, beyond *)
(* its type.                                                               *)
(***************************************************************************)
EXTENDS SourceManagement, RunLifecycle_proofs

SourceViews == {"source_toggle", "source_edit"}
CompanyViews == {"company_toggle", "company_edit"}

(* What a view has in hand belongs to the table it manages.                *)
ViewsAreTyped ==
  \A e \in Editors :
    /\ editor[e].view \in SourceViews => editor[e].key \in Sources
    /\ editor[e].view \in CompanyViews => editor[e].key \in Companies
    /\ editor[e].view = "source_edit" => editor[e].url \in Urls

(* A source row never outlives its company row.                            *)
SavedAreOwned ==
  \A s \in Sources : source[s].row = "saved" => company[Owner[s]].row = "saved"

UrlsAreTyped ==
  /\ url \in [Sources -> Urls \cup {NoUrl}]
  /\ \A s \in Sources : url[s] \in (IF source[s].row = "new" THEN {NoUrl} ELSE Urls)

ThreadsAreTyped ==
  /\ worker \in [Sources -> Urls \cup {NoUrl}]
  /\ fetching \in [RunIds -> Urls \cup {NoUrl}]
  /\ editor \in [Editors -> EditorState]
  /\ ViewsAreTyped

RowsInv == RunsInv /\ SavedAreOwned /\ UrlsAreTyped /\ NoDuplicateConfiguration

MInv == RowsInv /\ ThreadsAreTyped

-----------------------------------------------------------------------------
(* The services: no step of theirs leaves a source without its company.    *)
LEMMA ServicesKeepOwners ==
  ASSUME RunsInv, SavedAreOwned, [LifecycleNext]_lifecycleVars
  PROVE  SavedAreOwned'
<1> SUFFICES ASSUME NEW s \in Sources, source'[s].row = "saved"
             PROVE  company'[Owner[s]].row = "saved"
  BY DEF SavedAreOwned
<1>0. Owner[s] \in Companies
  BY OwnerAssumption
<1>1. ASSUME NEW c \in Companies, CreateCompany(c) \/ \E b \in BOOLEAN : SaveCompanyActive(c, b)
      PROVE  company'[Owner[s]].row = "saved"
  BY <1>0, <1>1 DEF CreateCompany, SaveCompanyActive, RunsInv, TypeOK, CompanyRow, SavedAreOwned
<1>2. ASSUME NEW c \in Companies, DeleteCompany(c)
      PROVE  company'[Owner[s]].row = "saved"
  <2>1. source[s].row = "saved" /\ Owner[s] # c
    BY <1>2 DEF DeleteCompany, RunsInv, TypeOK, SourceRow
  <2>2. company'[Owner[s]] = company[Owner[s]]
    BY <1>0, <1>2, <2>1 DEF DeleteCompany, RunsInv, TypeOK
  <2> QED
    BY <2>1, <2>2 DEF SavedAreOwned
<1>3. ASSUME NEW t \in Sources,
             CreateSource(t) \/ DeleteSource(t) \/ \E b \in BOOLEAN : SaveSourceActive(t, b)
      PROVE  company'[Owner[s]].row = "saved"
  BY <1>3 DEF CreateSource, DeleteSource, SaveSourceActive, RunsInv, TypeOK, SourceRow, SavedAreOwned
<1>4. ASSUME NEW t \in Sources, StartRun(t)
      PROVE  company'[Owner[s]].row = "saved"
  <2>1. source' = source /\ company'[Owner[s]].row = company[Owner[s]].row
    BY <1>0, <1>4 DEF StartRun, RunsInv, TypeOK, CompanyRow
  <2> QED
    BY <2>1 DEF SavedAreOwned
<1>5. ASSUME NEW r \in RunIds, NEW status \in Terminal, FinishRun(r, status)
      PROVE  company'[Owner[s]].row = "saved"
  <2>1. source' = source /\ company'[Owner[s]].row = company[Owner[s]].row
    BY <1>0, <1>5 DEF FinishRun, RunsInv, TypeOK, CompanyRow
  <2> QED
    BY <2>1 DEF SavedAreOwned
<1>6. CASE UNCHANGED lifecycleVars
  BY <1>6 DEF lifecycleVars, SavedAreOwned
<1> QED
  BY <1>1, <1>2, <1>3, <1>4, <1>5, <1>6 DEF LifecycleNext, Administer

(* A service that creates no source makes none visible, and the unique     *)
(* constraint holds of fewer rows.                                         *)
RowsOnlyLeave ==
  \A s \in Sources : /\ source'[s].row = "saved" => source[s].row = "saved"
                     /\ source'[s].row = "new" <=> source[s].row = "new"

LEMMA ServicesCreateNone ==
  ASSUME RunsInv, [LifecycleNext]_lifecycleVars, \A s \in Sources : ~CreateSource(s)
  PROVE  RowsOnlyLeave
<1>1. ASSUME NEW c \in Companies,
             CreateCompany(c) \/ DeleteCompany(c) \/ \E b \in BOOLEAN : SaveCompanyActive(c, b)
      PROVE  RowsOnlyLeave
  BY <1>1 DEF CreateCompany, DeleteCompany, SaveCompanyActive, RunsInv, TypeOK, SourceRow,
              RowsOnlyLeave
<1>2. ASSUME NEW t \in Sources, DeleteSource(t) \/ \E b \in BOOLEAN : SaveSourceActive(t, b)
      PROVE  RowsOnlyLeave
  BY <1>2 DEF DeleteSource, MayDeleteSource, SaveSourceActive, RunsInv, TypeOK, SourceRow,
              RowsOnlyLeave
<1>3. ASSUME UNCHANGED source PROVE RowsOnlyLeave
  BY <1>3 DEF RowsOnlyLeave
<1> QED
  BY <1>1, <1>2, <1>3 DEF LifecycleNext, Administer, StartRun, FinishRun, lifecycleVars

LEMMA LeavingKeepsUrls ==
  ASSUME UrlsAreTyped, NoDuplicateConfiguration, RowsOnlyLeave, url' = url
  PROVE  UrlsAreTyped' /\ NoDuplicateConfiguration'
BY DEF UrlsAreTyped, NoDuplicateConfiguration, RowsOnlyLeave, SameUrl, Siblings

(* A service that creates no source keeps all that is said of the rows.    *)
LEMMA ServicesRowsInv ==
  ASSUME RowsInv, [LifecycleNext]_lifecycleVars, \A s \in Sources : ~CreateSource(s), url' = url
  PROVE  RowsInv'
<1>1. RunsInv'
  BY NextRunsInv DEF RowsInv
<1>2. SavedAreOwned'
  BY ServicesKeepOwners DEF RowsInv
<1>3. UrlsAreTyped' /\ NoDuplicateConfiguration'
  BY ServicesCreateNone, LeavingKeepsUrls DEF RowsInv
<1> QED
  BY <1>1, <1>2, <1>3 DEF RowsInv

(* A URL that no saved sibling has may be given to a source, whether its   *)
(* row is updated, inserted for the first time, or inserted again.         *)
LEMMA NewUrlIsUnique ==
  ASSUME UrlsAreTyped, NoDuplicateConfiguration, NEW s \in Sources, NEW u \in Urls,
         ~SameUrl(s, u), url' = [url EXCEPT ![s] = u],
         source'[s].row = "saved", \A t \in Sources \ {s} : source'[t] = source[t]
  PROVE  UrlsAreTyped' /\ NoDuplicateConfiguration'
<1>1. url'[s] = u /\ \A t \in Sources \ {s} : url'[t] = url[t]
  BY DEF UrlsAreTyped
<1>2. UrlsAreTyped'
  BY <1>1 DEF UrlsAreTyped
<1>3. NoDuplicateConfiguration'
  <2> SUFFICES ASSUME NEW p \in Sources, source'[p].row = "saved",
                      NEW t \in Sources \ {p}, Owner[t] = Owner[p], source'[t].row = "saved",
                      url'[t] = url'[p]
               PROVE  FALSE
    BY DEF NoDuplicateConfiguration, SameUrl, Siblings
  <2>1. CASE p = s
    BY <1>1, <2>1 DEF SameUrl, Siblings
  <2>2. CASE t = s
    BY <1>1, <2>2 DEF SameUrl, Siblings
  <2>3. CASE p # s /\ t # s
    BY <1>1, <2>3 DEF NoDuplicateConfiguration, SameUrl, Siblings
  <2> QED
    BY <2>1, <2>2, <2>3
<1> QED
  BY <1>2, <1>3

-----------------------------------------------------------------------------
(* The threads: their states keep their types, whichever step they make.   *)
LEMMA IdleIsTyped == Idle \in EditorState
BY DEF Idle, EditorState, Loaded

LEMMA LeavingIsTyped ==
  ASSUME ThreadsAreTyped, NEW e \in Editors, Leave(e), UNCHANGED <<worker, fetching>>
  PROVE  ThreadsAreTyped'
<1>1. editor' \in [Editors -> EditorState]
  BY IdleIsTyped DEF ThreadsAreTyped, Leave
<1>2. ViewsAreTyped'
  BY DEF ThreadsAreTyped, ViewsAreTyped, Leave, Idle, SourceViews, CompanyViews
<1> QED
  BY <1>1, <1>2 DEF ThreadsAreTyped

LEMMA GoingIsTyped ==
  ASSUME ThreadsAreTyped, NEW e \in Editors, NEW pc \in {"checked", "clean"}, Goto(e, pc),
         UNCHANGED <<worker, fetching>>
  PROVE  ThreadsAreTyped'
<1>1. /\ editor' = [editor EXCEPT ![e] = [editor[e] EXCEPT !.pc = pc]]
      /\ editor[e] \in EditorState
  BY DEF Goto, ThreadsAreTyped
<1>2. /\ [editor[e] EXCEPT !.pc = pc] \in EditorState
      /\ [editor[e] EXCEPT !.pc = pc].view = editor[e].view
      /\ [editor[e] EXCEPT !.pc = pc].key = editor[e].key
      /\ [editor[e] EXCEPT !.pc = pc].url = editor[e].url
  BY <1>1 DEF EditorState
<1>3. editor' \in [Editors -> EditorState]
  BY <1>1, <1>2 DEF ThreadsAreTyped
<1>4. ViewsAreTyped'
  BY <1>1, <1>2 DEF ThreadsAreTyped, ViewsAreTyped
<1> QED
  BY <1>3, <1>4 DEF ThreadsAreTyped

LEMMA OpeningIsTyped ==
  ASSUME ThreadsAreTyped, RunsInv, NEW e \in Editors, OpenView(e)
  PROVE  ThreadsAreTyped'
<1>1. ASSUME NEW view \in SourceViews \cup CompanyViews, NEW key, NEW row \in Loaded,
             NEW u \in Urls \cup {NoUrl}, NEW b \in BOOLEAN, Open(e, view, key, row, u, b),
             view \in SourceViews => key \in Sources,
             view \in CompanyViews => key \in Companies,
             view = "source_edit" => u \in Urls
      PROVE  ThreadsAreTyped'
  <2> DEFINE state == [pc |-> "loaded", view |-> view, key |-> key,
                       row |-> row, url |-> u, active |-> b]
  <2>1. state \in EditorState
    BY <1>1 DEF EditorState, SourceViews, CompanyViews
  <2>2. editor' = [editor EXCEPT ![e] = state] /\ UNCHANGED <<worker, fetching>>
    BY <1>1 DEF Open
  <2>3. state.view = view /\ state.key = key /\ state.url = u
    OBVIOUS
  <2> HIDE DEF state
  <2>4. editor' \in [Editors -> EditorState]
    BY <2>1, <2>2 DEF ThreadsAreTyped
  <2>5. ViewsAreTyped'
    BY <1>1, <2>2, <2>3 DEF ThreadsAreTyped, ViewsAreTyped
  <2> QED
    BY <2>2, <2>4, <2>5 DEF ThreadsAreTyped
<1>2. /\ \A s \in Sources : SourceSnapshot(s) \in Loaded
      /\ \A c \in Companies : CompanySnapshot(c) \in Loaded
  BY DEF SourceSnapshot, CompanySnapshot, Loaded, RunsInv, TypeOK, SourceRow, CompanyRow
<1>3. ASSUME NEW s \in Sources, Open(e, "source_toggle", s, SourceSnapshot(s), NoUrl, FALSE)
      PROVE  ThreadsAreTyped'
  BY <1>1, <1>2, <1>3 DEF SourceViews, CompanyViews
<1>4. ASSUME NEW s \in Sources, NEW u \in Urls,
             Open(e, "source_edit", s, SourceSnapshot(s), u, FALSE)
      PROVE  ThreadsAreTyped'
  BY <1>1, <1>2, <1>4 DEF SourceViews, CompanyViews
<1>5. ASSUME NEW c \in Companies, Open(e, "company_toggle", c, CompanySnapshot(c), NoUrl, FALSE)
      PROVE  ThreadsAreTyped'
  BY <1>1, <1>2, <1>5 DEF SourceViews, CompanyViews
<1>6. ASSUME NEW c \in Companies, NEW b \in BOOLEAN,
             Open(e, "company_edit", c, CompanySnapshot(c), NoUrl, b)
      PROVE  ThreadsAreTyped'
  BY <1>1, <1>2, <1>6 DEF SourceViews, CompanyViews
<1> QED
  BY <1>3, <1>4, <1>5, <1>6 DEF OpenView

-----------------------------------------------------------------------------
(* The steps.                                                              *)

(* Nothing exists in the first state, and no view is open.                 *)
LEMMA InitMInv == Init => MInv
<1> SUFFICES ASSUME Init PROVE MInv
  OBVIOUS
<1>1. RunsInv
  BY InitLInv DEF Init, LInv
<1>2. \A s \in Sources : source[s].row = "new"
  BY DEF Init, LifecycleInit
<1>3. SavedAreOwned /\ UrlsAreTyped /\ NoDuplicateConfiguration
  BY <1>2 DEF Init, SavedAreOwned, UrlsAreTyped, NoDuplicateConfiguration
<1>4. ThreadsAreTyped
  BY IdleIsTyped DEF Init, ThreadsAreTyped, ViewsAreTyped, Idle, SourceViews, CompanyViews
<1> QED
  BY <1>1, <1>3, <1>4 DEF MInv, RowsInv

LEMMA UnchangedRowsInv == RowsInv /\ UNCHANGED <<lifecycleVars, url>> => RowsInv'
BY DEF lifecycleVars, RowsInv, RunsInv, TypeOK, FreshPk, OneRunningPerSource, RunningIsOwned,
       Running, SavedAreOwned, UrlsAreTyped, NoDuplicateConfiguration, SameUrl, Siblings

(* company_source_toggle_active and company_toggle_active end with an      *)
(* UPDATE of one column, or with nothing when the row is gone.             *)
LEMMA ToggleMInv ==
  ASSUME MInv, NEW e \in Editors, SaveToggle(e) \/ SaveCompanyToggle(e)
  PROVE  MInv'
<1>1. Leave(e) /\ url' = url /\ UNCHANGED <<worker, fetching>>
  BY DEF SaveToggle, SaveCompanyToggle
<1>2. (~editor[e].row.active) \in BOOLEAN
  OBVIOUS
<1>3. CASE SaveToggle(e)
  <2>1. editor[e].key \in Sources
    BY <1>3 DEF SaveToggle, At, MInv, ThreadsAreTyped, ViewsAreTyped, SourceViews
  <2>2. \/ \E s \in Sources, b \in BOOLEAN : SaveSourceActive(s, b)
        \/ UNCHANGED lifecycleVars
    BY <1>2, <1>3, <2>1 DEF SaveToggle
  <2>3. LifecycleNext \/ UNCHANGED lifecycleVars
    BY <2>2 DEF LifecycleNext, Administer
  <2>4. \A s \in Sources : ~CreateSource(s)
    BY <2>2 DEF SaveSourceActive, CreateSource, lifecycleVars, MInv, RowsInv, RunsInv, TypeOK,
                SourceRow
  <2> QED
    BY <1>1, <2>3, <2>4, ServicesRowsInv, LeavingIsTyped DEF MInv
<1>4. CASE SaveCompanyToggle(e)
  <2>1. editor[e].key \in Companies
    BY <1>4 DEF SaveCompanyToggle, At, MInv, ThreadsAreTyped, ViewsAreTyped, CompanyViews
  <2>2. \/ \E c \in Companies, b \in BOOLEAN : SaveCompanyActive(c, b)
        \/ UNCHANGED lifecycleVars
    BY <1>2, <1>4, <2>1 DEF SaveCompanyToggle
  <2>3. LifecycleNext \/ UNCHANGED lifecycleVars
    BY <2>2 DEF LifecycleNext, Administer
  <2>4. \A s \in Sources : ~CreateSource(s)
    BY <2>2 DEF SaveCompanyActive, CreateSource, lifecycleVars, MInv, RowsInv, RunsInv, TypeOK,
                SourceRow
  <2> QED
    BY <1>1, <2>3, <2>4, ServicesRowsInv, LeavingIsTyped DEF MInv
<1> QED
  BY <1>3, <1>4

(* company_source_edit writes the whole row, and may bring a deleted row   *)
(* back: the database accepts it only beside its company and with a URL    *)
(* that no sibling has.                                                    *)
LEMMA SaveEditMInv ==
  ASSUME MInv, NEW e \in Editors, SaveEdit(e)
  PROVE  MInv'
<1> DEFINE s == editor[e].key
           u == editor[e].url
<1>1. Leave(e) /\ UNCHANGED <<worker, fetching>>
  BY DEF SaveEdit
<1>2. ThreadsAreTyped'
  BY <1>1, LeavingIsTyped DEF MInv
<1>3. s \in Sources /\ u \in Urls /\ editor[e].row.active \in BOOLEAN
  BY DEF SaveEdit, At, MInv, ThreadsAreTyped, ViewsAreTyped, SourceViews, EditorState, Loaded
<1>4. CASE ~MaySaveSource(s, u)
  BY <1>2, <1>4, UnchangedRowsInv DEF SaveEdit, MInv
<1>5. CASE MaySaveSource(s, u)
  <2>1. /\ source' = [source EXCEPT ![s] = [row |-> "saved", active |-> editor[e].row.active]]
        /\ url' = [url EXCEPT ![s] = u]
        /\ company' = company /\ run' = run /\ lastPk' = lastPk
    BY <1>5 DEF SaveEdit, FormUrl
  <2>2. /\ source' \in [Sources -> SourceRow] /\ source'[s].row = "saved"
        /\ \A t \in Sources \ {s} : source'[t] = source[t]
    BY <1>3, <2>1 DEF MInv, RowsInv, RunsInv, TypeOK, SourceRow, Presence
  <2>3. RunsInv'
    <3>1. company \in [Companies -> CompanyRow]
      BY DEF MInv, RowsInv, RunsInv, TypeOK
    <3> QED
      BY <2>1, <2>2, <3>1, SavedRowsRunsInv DEF MInv, RowsInv
  <2>4. SavedAreOwned'
    BY <1>5, <2>1, <2>2 DEF MInv, RowsInv, SavedAreOwned, MaySaveSource
  <2>5. UrlsAreTyped' /\ NoDuplicateConfiguration'
    <3>1. ~SameUrl(s, u)
      BY <1>5 DEF MaySaveSource
    <3> HIDE DEF s, u
    <3> QED
      BY <1>3, <2>1, <2>2, <3>1, NewUrlIsUnique DEF MInv, RowsInv
  <2> QED
    BY <1>2, <2>3, <2>4, <2>5 DEF MInv, RowsInv
<1> QED
  BY <1>4, <1>5

(* company_update writes the whole row of the company, and may bring a     *)
(* deleted one back: nothing of its own hangs below it any more.           *)
LEMMA SaveCompanyEditMInv ==
  ASSUME MInv, NEW e \in Editors, SaveCompanyEdit(e)
  PROVE  MInv'
<1> DEFINE c == editor[e].key
           newRow == [row |-> "saved", active |-> editor[e].active, status |-> editor[e].row.status]
<1>1. /\ Leave(e) /\ UNCHANGED <<worker, fetching>>
      /\ company' = [company EXCEPT ![c] = newRow]
      /\ source' = source /\ run' = run /\ lastPk' = lastPk /\ url' = url
  BY DEF SaveCompanyEdit
<1>2. ThreadsAreTyped'
  BY <1>1, LeavingIsTyped DEF MInv
<1>3. c \in Companies /\ newRow \in CompanyRow
  BY DEF SaveCompanyEdit, At, MInv, ThreadsAreTyped, ViewsAreTyped, CompanyViews, EditorState,
         Loaded, CompanyRow, Presence
<1>4. /\ company' \in [Companies -> CompanyRow]
      /\ \A d \in Companies : company[d].row = "saved" => company'[d].row = "saved"
  BY <1>1, <1>3 DEF MInv, RowsInv, RunsInv, TypeOK
<1>5. RunsInv'
  <2>1. source \in [Sources -> SourceRow]
    BY DEF MInv, RowsInv, RunsInv, TypeOK
  <2> QED
    BY <1>1, <1>4, <2>1, SavedRowsRunsInv DEF MInv, RowsInv
<1>6. SavedAreOwned'
  BY <1>1, <1>4, OwnerAssumption DEF MInv, RowsInv, SavedAreOwned
<1>7. UrlsAreTyped' /\ NoDuplicateConfiguration'
  BY <1>1 DEF MInv, RowsInv, UrlsAreTyped, NoDuplicateConfiguration, SameUrl, Siblings
<1> QED
  BY <1>2, <1>5, <1>6, <1>7 DEF MInv, RowsInv

(* company_source_create inserts a row whose URL is equivalent to that of  *)
(* no sibling, hence equal to none.                                        *)
LEMMA AddSourceMInv ==
  ASSUME MInv, NEW s \in Sources, NEW u \in Urls, AddSource(s, u)
  PROVE  MInv'
<1>1. /\ CreateSource(s) /\ url' = [url EXCEPT ![s] = u]
      /\ UNCHANGED <<worker, fetching, editor>> /\ ~Equivalent(s, u)
  BY DEF AddSource
<1>2. [LifecycleNext]_lifecycleVars
  BY <1>1 DEF LifecycleNext, Administer
<1>3. RunsInv' /\ SavedAreOwned'
  BY <1>2, NextRunsInv, ServicesKeepOwners DEF MInv, RowsInv
<1>4. ~SameUrl(s, u)
  BY <1>1 DEF SameUrl, Equivalent
<1>5. source'[s].row = "saved" /\ \A t \in Sources \ {s} : source'[t] = source[t]
  BY <1>1 DEF CreateSource, MInv, RowsInv, RunsInv, TypeOK, SourceRow
<1>6. UrlsAreTyped' /\ NoDuplicateConfiguration'
  BY <1>1, <1>4, <1>5, NewUrlIsUnique DEF MInv, RowsInv
<1>7. ThreadsAreTyped'
  BY <1>1 DEF MInv, ThreadsAreTyped, ViewsAreTyped
<1> QED
  BY <1>3, <1>6, <1>7 DEF MInv, RowsInv

(* The other services leave the views alone.                               *)
LEMMA TransactionMInv ==
  ASSUME MInv, OneTransaction \/ \E r \in RunIds : Finish(r)
  PROVE  MInv'
<1>1. url' = url /\ UNCHANGED <<worker, fetching, editor>>
  BY DEF OneTransaction, Finish, managementVars
<1>2. LifecycleNext
  BY DEF OneTransaction, Finish, LifecycleNext, Administer
<1>3. \A s \in Sources : ~CreateSource(s)
  <2> SUFFICES ASSUME NEW s \in Sources, CreateSource(s) PROVE FALSE
    OBVIOUS
  <2>1. /\ source[s].row = "new" /\ source'[s].row = "saved" /\ company' = company /\ run' = run
    BY DEF CreateSource, MInv, RowsInv, RunsInv, TypeOK, SourceRow
  <2>2. CASE \E c \in Companies : CreateCompany(c)
    BY <2>1, <2>2 DEF CreateCompany
  <2>3. CASE \E c \in Companies : DeleteCompany(c)
    BY <2>1, <2>3 DEF DeleteCompany, MInv, RowsInv, RunsInv, TypeOK
  <2>4. CASE \E t \in Sources : DeleteSource(t)
    BY <2>1, <2>4 DEF DeleteSource, MayDeleteSource, MInv, RowsInv, RunsInv, TypeOK, SourceRow
  <2>5. CASE \E r \in RunIds : Finish(r)
    BY <2>1, <2>5 DEF Finish, FinishRun
  <2> QED
    BY <2>2, <2>3, <2>4, <2>5 DEF OneTransaction
<1>4. RowsInv'
  BY <1>1, <1>2, <1>3, ServicesRowsInv DEF MInv
<1>5. ThreadsAreTyped'
  BY <1>1 DEF MInv, ThreadsAreTyped, ViewsAreTyped
<1> QED
  BY <1>4, <1>5 DEF MInv

(* A worker loads the URL of its source, and starts a run for it.          *)
LEMMA WorkerMInv ==
  ASSUME MInv, NEW s \in Sources, LoadSource(s) \/ StartLoaded(s)
  PROVE  MInv'
<1>1. url' = url /\ editor' = editor
  BY DEF LoadSource, StartLoaded
<1>2. StartRun(s) \/ UNCHANGED lifecycleVars
  BY DEF LoadSource, StartLoaded
<1>3. RowsInv'
  <2>1. [LifecycleNext]_lifecycleVars
    BY <1>2 DEF LifecycleNext
  <2>2. source' = source
    BY <1>2 DEF StartRun, lifecycleVars
  <2>3. \A t \in Sources : ~CreateSource(t)
    BY <2>2 DEF CreateSource, MInv, RowsInv, RunsInv, TypeOK, SourceRow
  <2> QED
    BY <1>1, <2>1, <2>3, ServicesRowsInv DEF MInv
<1>4. worker' \in [Sources -> Urls \cup {NoUrl}] /\ fetching' \in [RunIds -> Urls \cup {NoUrl}]
  BY DEF LoadSource, StartLoaded, MInv, RowsInv, UrlsAreTyped, ThreadsAreTyped
<1> QED
  BY <1>1, <1>3, <1>4 DEF MInv, ThreadsAreTyped, ViewsAreTyped

(* Every step keeps the invariant.                                         *)
LEMMA NextMInv == MInv /\ [Next]_vars => MInv'
<1> SUFFICES ASSUME MInv, [Next]_vars PROVE MInv'
  OBVIOUS
<1>1. ASSUME NEW e \in Editors, OpenView(e) PROVE MInv'
  <2>1. UNCHANGED <<lifecycleVars, url>>
    BY <1>1 DEF OpenView, Open
  <2> QED
    BY <1>1, <2>1, OpeningIsTyped, UnchangedRowsInv DEF MInv, RowsInv
<1>2. ASSUME NEW e \in Editors, CheckIdle(e) \/ CleanForm(e) PROVE MInv'
  <2>1. UNCHANGED <<lifecycleVars, url>> /\ UNCHANGED <<worker, fetching>>
    BY <1>2 DEF CheckIdle, CleanForm
  <2>2. Leave(e) \/ Goto(e, "checked") \/ Goto(e, "clean")
    BY <1>2 DEF CheckIdle, CleanForm
  <2>3. ThreadsAreTyped'
    BY <2>1, <2>2, LeavingIsTyped, GoingIsTyped DEF MInv
  <2> QED
    BY <2>1, <2>3, UnchangedRowsInv DEF MInv
<1>3. ASSUME NEW e \in Editors, SaveToggle(e) \/ SaveCompanyToggle(e) PROVE MInv'
  BY <1>3, ToggleMInv
<1>4. ASSUME NEW e \in Editors, SaveEdit(e) PROVE MInv'
  BY <1>4, SaveEditMInv
<1>5. ASSUME NEW e \in Editors, SaveCompanyEdit(e) PROVE MInv'
  BY <1>5, SaveCompanyEditMInv
<1>6. ASSUME NEW s \in Sources, NEW u \in Urls, AddSource(s, u) PROVE MInv'
  BY <1>6, AddSourceMInv
<1>7. CASE OneTransaction \/ \E r \in RunIds : Finish(r)
  BY <1>7, TransactionMInv
<1>8. ASSUME NEW s \in Sources, LoadSource(s) \/ StartLoaded(s) PROVE MInv'
  BY <1>8, WorkerMInv
<1>9. CASE UNCHANGED vars
  BY <1>9, UnchangedRowsInv DEF vars, managementVars, MInv, ThreadsAreTyped, ViewsAreTyped
<1> QED
  BY <1>1, <1>2, <1>3, <1>4, <1>5, <1>6, <1>7, <1>8, <1>9 DEF Next, EditorStep

LEMMA ManagementInvariant == Spec => []MInv
BY InitMInv, NextMInv, PTL DEF Spec

-----------------------------------------------------------------------------
(* The rows and the views keep their types, for any number of them.        *)
THEOREM ManagementType == Spec => []ManagementTypeOK
<1>1. MInv => ManagementTypeOK
  BY DEF MInv, RowsInv, RunsInv, UrlsAreTyped, ThreadsAreTyped, ManagementTypeOK
<1> QED
  BY <1>1, ManagementInvariant, PTL

(* However stale saves interleave with deletions, with each other and with *)
(* the monitoring runs, no RUNNING run outlives its source or company and  *)
(* no source outlives its company (companies/views.py, deletion.py).       *)
THEOREM ManagementOrphansNothing == Spec => []NothingIsOrphaned
<1>1. MInv => NothingIsOrphaned
  BY DEF MInv, RowsInv, RunsInv, SavedAreOwned, NothingIsOrphaned
<1> QED
  BY <1>1, ManagementInvariant, PTL

(* Two source rows of a company never have one URL, whichever forms raced  *)
(* (uniq_company_source_config, CompanySourceForm.clean).                  *)
THEOREM ManagementIsUnique == Spec => []NoDuplicateConfiguration
<1>1. MInv => NoDuplicateConfiguration
  BY DEF MInv, RowsInv
<1> QED
  BY <1>1, ManagementInvariant, PTL

(* Two runs of one source never exist, although the views write rows that  *)
(* the runs depend on without looking at them again (run_lifecycle.py).    *)
THEOREM ManagementOneRunning == Spec => []OneRunningPerSource
<1>1. MInv => OneRunningPerSource
  BY DEF MInv, RowsInv, RunsInv
<1> QED
  BY <1>1, ManagementInvariant, PTL

-----------------------------------------------------------------------------
(* Every step is a step of the run services or leaves the runs alone: no   *)
(* view, however stale what it saves, writes a ScrapeRun.                  *)
LEMMA StepsKeepRuns ==
  ASSUME [Next]_vars
  PROVE  [LifecycleNext]_lifecycleVars \/ UNCHANGED run
<1>1. ASSUME NEW e \in Editors, EditorStep(e)
      PROVE  UNCHANGED run
  <2>1. CASE OpenView(e) \/ CheckIdle(e) \/ CleanForm(e)
    BY <2>1 DEF OpenView, Open, CheckIdle, CleanForm, lifecycleVars
  <2>2. CASE SaveToggle(e) \/ SaveCompanyToggle(e)
    BY <2>2 DEF SaveToggle, SaveCompanyToggle, SaveSourceActive, SaveCompanyActive, lifecycleVars
  <2>3. CASE SaveEdit(e) \/ SaveCompanyEdit(e)
    BY <2>3 DEF SaveEdit, SaveCompanyEdit, lifecycleVars
  <2> QED
    BY <1>1, <2>1, <2>2, <2>3 DEF EditorStep
<1>2. ASSUME NEW s \in Sources, NEW u \in Urls, AddSource(s, u)
      PROVE  UNCHANGED run
  BY <1>2 DEF AddSource, CreateSource
<1>3. CASE OneTransaction \/ \E r \in RunIds : Finish(r)
  BY <1>3 DEF OneTransaction, Finish, LifecycleNext, Administer
<1>4. ASSUME NEW s \in Sources, LoadSource(s) \/ StartLoaded(s)
      PROVE  [LifecycleNext]_lifecycleVars
  BY <1>4 DEF LoadSource, StartLoaded, LifecycleNext
<1>5. CASE UNCHANGED vars
  BY <1>5 DEF vars
<1> QED BY <1>1, <1>2, <1>3, <1>4, <1>5 DEF Next

(* The history of runs survives the views: no edit, switch or deletion of  *)
(* a source changes the status of a run that has ended, and its row goes   *)
(* only with its company (companies/views.py, deletion.py).                *)
THEOREM ManagementTerminalIsFinal == Spec => TerminalIsFinal
<1>1. MInv /\ [Next]_vars => [\A r \in RunIds : RowIsFinal(r)]_lifecycleVars
  BY StepsKeepRuns, NextRowsAreFinal DEF MInv, RowsInv
<1> QED
  BY <1>1, ManagementInvariant, PTL DEF Spec, TerminalIsFinal, RowIsFinal
=============================================================================
