--------------------------- MODULE UpdateJobs_proofs ---------------------------
(***************************************************************************)
(* Proofs about what comes of Update jobs and Update all: the banner that  *)
(* waits for the runs, the count of those that failed, and the details     *)
(* that the runs store.  Three modules that share nothing but their user.  *)
(*                                                                         *)
(* The first part is about the banner of one browser, for any sources, and *)
(* any number of submissions and runs.                                     *)
(***************************************************************************)
EXTENDS RunPolling, UnreadFailures, GenericEnrichment, FiniteSetTheorems, WellFoundedInduction, TLAPS

Tickets == UNION {[S -> Nat] : S \in SUBSET Sources}
Batch == [after : Nat, sources : SUBSET Sources, ticket : Tickets, quiet : BOOLEAN]
Phase == {"idle", "queued", "stamped", "running"}
Status == {"none", "running", "terminal"}

(* Without the bounds of keys and tickets, which only matter to TLC.       *)
Worker == [pc : Phase, started : 0 .. MaxTime, run : Nat, ticket : Nat]
Row == [source : Sources \cup {0}, status : Status, started : 0 .. MaxTime, ticket : Nat]
Request == [kind : Kinds \cup {"none"}, todo : SUBSET Sources, batch : Batch]

PollingTyped ==
  /\ now \in 0 .. MaxTime /\ lastPk \in Nat /\ saved \in SUBSET Sources
  /\ work \in [Sources -> Worker]
  /\ run \in [RunIds -> Row]
  /\ request \in [Browsers -> Request]
  /\ watch \in [Browsers -> [Kinds -> Batch]]

(* A row belongs to a submission of its source, unless that is deleted ... *)
RowsAreWork ==
  \A r \in Rows : /\ r <= lastPk
                  /\ run[r].source \in Sources => run[r].ticket <= work[run[r].source].ticket
WorkersOwnRows ==
  \A s \in Sources : work[s].pc = "running" /\ work[s].run \in RunIds =>
    run[work[s].run].status = "running" /\ run[work[s].run].source = s

(* ... and is terminal only when that submission is over.                  *)
TerminalIsOver ==
  \A r \in Rows : run[r].source \in Sources /\ run[r].status = "terminal" =>
                    Over(run[r].source, run[r].ticket)

(* No row behind a quiet baseline is older than the submission.            *)
BatchIsKept(batch) ==
  /\ batch.ticket \in [batch.sources -> Nat]
  /\ \A s \in batch.sources :
       /\ batch.ticket[s] <= work[s].ticket
       /\ batch.quiet => \A r \in RunsAfter(s, batch.after) : run[r].ticket >= batch.ticket[s]
BatchesAreKept ==
  \A b \in Browsers : /\ BatchIsKept(watch[b]["all"])
                      /\ request[b].kind = "all" => BatchIsKept(request[b].batch)

(* While the request still submits, what is to come was not touched since. *)
TodoIsFresh ==
  \A b \in Browsers : request[b].kind = "all" /\ request[b].batch.quiet =>
    \A s \in request[b].todo : work[s].pc = "idle" /\ RunsAfter(s, request[b].batch.after) = {}

PollingInv ==
  /\ PollingTyped /\ RowsAreWork /\ WorkersOwnRows /\ TerminalIsOver
  /\ BatchesAreKept /\ TodoIsFresh

OneBrowser == \A a, b \in Browsers : a = b

LEMMA RunIdsAre == RunIds \subseteq Nat /\ Rows \subseteq RunIds
BY DEF RunIds, Rows

LEMMA TicketsAre ==
  ASSUME NEW S \in SUBSET Sources
  PROVE  [S -> Nat] \subseteq Tickets
BY DEF Tickets

LEMMA NoWatchIs ==
  /\ NoWatch \in Batch /\ NoWatch.sources = {} /\ NoWatch.ticket \in [{} -> Nat]
  /\ \A after \in Nat, quiet \in BOOLEAN :
       LET batch == [NoWatch EXCEPT !.after = after, !.quiet = quiet] IN
       /\ batch \in Batch /\ batch.sources = {} /\ batch.ticket \in [{} -> Nat]
       /\ batch.after = after /\ batch.quiet = quiet
<1>1. [s \in {} |-> 0] \in [{} -> Nat]
  OBVIOUS
<1>2. [{} -> Nat] \subseteq Tickets
  BY TicketsAre
<1>3. PICK t \in Tickets : /\ NoWatch = [after |-> 0, sources |-> {}, ticket |-> t, quiet |-> FALSE]
                           /\ t \in [{} -> Nat]
  BY <1>1, <1>2 DEF NoWatch
<1>4. PICK no \in BOOLEAN : no = FALSE
  OBVIOUS
<1>5. NoWatch = [after |-> 0, sources |-> {}, ticket |-> t, quiet |-> no]
  BY <1>3, <1>4
<1>6. NoWatch \in Batch
  BY <1>5 DEF Batch
<1>7. NoWatch.sources = {} /\ NoWatch.ticket = t
  BY <1>5
<1>8. ASSUME NEW after \in Nat, NEW quiet \in BOOLEAN
      PROVE  LET batch == [NoWatch EXCEPT !.after = after, !.quiet = quiet] IN
             /\ batch \in Batch /\ batch.sources = {} /\ batch.ticket = t
             /\ batch.after = after /\ batch.quiet = quiet
  BY <1>6, <1>7 DEF Batch
<1> QED BY <1>3, <1>6, <1>7, <1>8

-----------------------------------------------------------------------------
(* What a step may do to rows and submissions without touching a batch.    *)
RowsGrow ==
  \A r \in RunIds : run'[r].status # "none" /\ run'[r].source \in Sources =>
    \/ /\ run[r].status # "none" /\ run'[r].source = run[r].source
       /\ run'[r].ticket = run[r].ticket
    \/ /\ run'[r].source \in Sources /\ work[run'[r].source].pc # "idle"
       /\ run'[r].ticket = work[run'[r].source].ticket
TicketsGrow == \A s \in Sources : work[s].ticket <= work'[s].ticket

LEMMA BatchStays ==
  ASSUME PollingTyped, PollingTyped', RowsGrow, TicketsGrow,
         NEW batch \in Batch, BatchIsKept(batch)
  PROVE  BatchIsKept(batch)'
<1>1. ASSUME NEW s \in batch.sources
      PROVE  batch.ticket[s] <= work'[s].ticket
  <2>1. s \in Sources /\ batch.ticket[s] \in Nat /\ batch.ticket[s] <= work[s].ticket
    BY DEF Batch, BatchIsKept
  <2>2. work[s].ticket \in Nat /\ work'[s].ticket \in Nat /\ work[s].ticket <= work'[s].ticket
    BY <2>1 DEF PollingTyped, Worker, TicketsGrow
  <2> QED BY <2>1, <2>2
<1>2. ASSUME NEW s \in batch.sources, batch.quiet, NEW r \in RunsAfter(s, batch.after)'
      PROVE  run'[r].ticket >= batch.ticket[s]
  <2>1. r \in RunIds /\ run'[r].status # "none" /\ run'[r].source = s /\ r > batch.after
        /\ s \in Sources
    BY DEF RunsAfter, Rows, Batch
  <2>2. CASE run[r].status # "none" /\ run'[r].source = run[r].source
             /\ run'[r].ticket = run[r].ticket
    BY <1>2, <2>1, <2>2 DEF BatchIsKept, RunsAfter, Rows
  <2>3. CASE run'[r].ticket = work[s].ticket
    <3>1. batch.ticket[s] <= work[s].ticket /\ batch.ticket[s] \in Nat /\ work[s].ticket \in Nat
      BY DEF Batch, BatchIsKept, PollingTyped, Worker
    <3> QED BY <2>3, <3>1
  <2> QED BY <2>1, <2>2, <2>3 DEF RowsGrow
<1> QED BY <1>1, <1>2 DEF BatchIsKept

(* A worker moves: the requests and what they wait for stay as they are.   *)
LEMMA WorkKeeps ==
  ASSUME PollingInv, PollingTyped', RowsGrow, TicketsGrow, UNCHANGED <<request, watch>>,
         RowsAreWork', WorkersOwnRows', TerminalIsOver',
         \A s \in Sources : work[s].pc = "idle" => work'[s].pc = "idle"
  PROVE  PollingInv'
<1>1. request' = request /\ watch' = watch
  OBVIOUS
<1>2. ASSUME NEW b \in Browsers
      PROVE  /\ BatchIsKept(watch[b]["all"])'
             /\ request[b].kind = "all" => BatchIsKept(request[b].batch)'
  <2>1. watch[b]["all"] \in Batch /\ request[b].batch \in Batch
    BY DEF PollingInv, PollingTyped, Request, Kinds
  <2>2. PICK shown \in Batch : shown = watch[b]["all"]
    BY <2>1
  <2>3. PICK sent \in Batch : sent = request[b].batch
    BY <2>1
  <2>4. BatchIsKept(shown)' /\ (request[b].kind = "all" => BatchIsKept(sent)')
    BY <2>2, <2>3, BatchStays DEF PollingInv, BatchesAreKept
  <2> QED BY <1>1, <2>2, <2>3, <2>4 DEF BatchIsKept
<1>3. BatchesAreKept'
  BY <1>1, <1>2 DEF BatchesAreKept
<1>4. TodoIsFresh'
  <2>1. ASSUME NEW b \in Browsers, request[b].kind = "all", request[b].batch.quiet,
               NEW s \in request[b].todo
        PROVE  work'[s].pc = "idle" /\ RunsAfter(s, request[b].batch.after)' = {}
    <3>1. s \in Sources /\ work[s].pc = "idle" /\ RunsAfter(s, request[b].batch.after) = {}
      BY <2>1 DEF PollingInv, PollingTyped, Request, TodoIsFresh
    <3>2. ASSUME NEW r \in RunIds, run'[r].status # "none", run'[r].source = s,
                 r > request[b].batch.after
          PROVE  FALSE
      BY <3>1, <3>2 DEF RowsGrow, RunsAfter, Rows
    <3> QED BY <1>1, <3>1, <3>2 DEF RunsAfter, Rows
  <2> QED BY <1>1, <2>1 DEF TodoIsFresh
<1> QED BY <1>3, <1>4 DEF PollingInv

-----------------------------------------------------------------------------
(* What the queries return.                                                *)
LEMMA LeastOf ==
  ASSUME NEW S \in SUBSET Nat, S # {}
  PROVE  \E x \in S : \A y \in S : x <= y
<1> DEFINE R == {p \in Nat \X Nat : p[1] < p[2]}
<1>1. IsWellFoundedOn(R, Nat)
  BY NatLessThanWellFounded, Zenon DEF OpToRel
<1> HIDE DEF R
<1>2. PICK x \in S : \A y \in S : <<y, x>> \notin R
  BY <1>1, WFMin
<1>3. ASSUME NEW y \in S, y < x PROVE FALSE
  <2>1. <<y, x>> \in Nat \X Nat /\ <<y, x>>[1] = y /\ <<y, x>>[2] = x
    OBVIOUS
  <2>2. <<y, x>> \in R
    BY <1>3, <2>1, Zenon DEF R
  <2> QED BY <1>2, <2>2
<1> QED BY <1>3

LEMMA SmallestIs ==
  ASSUME NEW rows \in SUBSET Rows, rows # {}
  PROVE  SmallestPk(rows) \in rows
<1>1. \E r \in rows : \A q \in rows : r <= q
  BY LeastOf, RunIdsAre
<1> QED BY <1>1 DEF SmallestPk

LEMMA LatestIs ==
  ASSUME PollingTyped, RowsAreWork, Rows # {}
  PROVE  LatestStart(Rows) \in Rows
<1> DEFINE Age(r) == MaxTime - run[r].started
           Ages == {Age(r) : r \in Rows}
<1>1. \A r \in Rows : run[r].started \in Nat /\ Age(r) \in Nat /\ r \in Nat /\ lastPk - r \in Nat
  BY RunIdsAre, PollingAssumption DEF PollingTyped, Row, RowsAreWork
<1>2. Ages \in SUBSET Nat /\ Ages # {}
  BY <1>1
<1>3. PICK age \in Ages : \A other \in Ages : age <= other
  BY <1>2, LeastOf
<1> DEFINE Youngest == {r \in Rows : Age(r) = age}
           Distances == {lastPk - r : r \in Youngest}
<1>4. Distances \in SUBSET Nat /\ Distances # {}
  BY <1>1, <1>3
<1>5. PICK distance \in Distances : \A other \in Distances : distance <= other
  BY <1>4, LeastOf
<1>6. PICK r \in Youngest : lastPk - r = distance
  BY <1>5
<1>7. ASSUME NEW q \in Rows \ {r} PROVE NewerStart(r, q)
  <2>1. run[r].started \in Nat /\ run[q].started \in Nat /\ q \in Nat /\ r \in Nat
        /\ lastPk \in Nat /\ MaxTime \in Nat
    BY <1>1, <1>6, PollingAssumption DEF PollingTyped
  <2>2. Age(r) <= Age(q)
    BY <1>3, <1>6
  <2>3. Age(q) = Age(r) => lastPk - r <= lastPk - q
    BY <1>5, <1>6
  <2>4. run[q].started <= run[r].started
    BY <2>1, <2>2
  <2>5. run[q].started = run[r].started => q <= r
    BY <2>1, <2>3
  <2> QED BY <1>7, <2>1, <2>4, <2>5 DEF NewerStart
<1>8. r \in Rows
  BY <1>6
<1> QED BY <1>7, <1>8 DEF LatestStart

LEMMA NewestIs ==
  ASSUME PollingTyped, RowsAreWork, Rows # {}
  PROVE  NewestPk \in Rows /\ \A r \in Rows : r <= NewestPk
<1> DEFINE Distances == {lastPk - r : r \in Rows}
<1>1. lastPk \in Nat /\ \A r \in Rows : r \in Nat /\ r <= lastPk
  BY RunIdsAre DEF PollingTyped, RowsAreWork
<1>2. Distances \in SUBSET Nat /\ Distances # {}
  BY <1>1
<1>3. PICK distance \in Distances : \A other \in Distances : distance <= other
  BY <1>2, LeastOf
<1>4. PICK r \in Rows : lastPk - r = distance
  OBVIOUS
<1>5. \A q \in Rows : lastPk - r <= lastPk - q
  BY <1>3, <1>4
<1>6. \A q \in Rows : r >= q
  BY <1>1, <1>5
<1>7. NewestPk \in Rows /\ \A q \in Rows : NewestPk >= q
  BY <1>6 DEF NewestPk
<1> QED BY <1>1, <1>7

LEMMA BaselineIs ==
  ASSUME PollingTyped, RowsAreWork, NEW kind \in Kinds
  PROVE  /\ Baseline(kind) \in Nat
         /\ kind = "all" => \A r \in Rows : r <= Baseline(kind)
<1>1. Rows # {} => NewestPk \in Nat /\ \A r \in Rows : r <= NewestPk
  BY NewestIs, RunIdsAre
<1>2. Rows # {} => LatestStart(Rows) \in Nat
  BY LatestIs, RunIdsAre
<1> QED BY <1>1, <1>2 DEF Baseline, Kinds

LEMMA PollingStarts == PollingInit => PollingInv
<1> SUFFICES ASSUME PollingInit PROVE PollingInv
  OBVIOUS
<1>1. Rows = {}
  BY DEF PollingInit, Rows, NoRun
<1>2. \A b \in Browsers : request[b] = NoRequest /\ watch[b] = [kind \in Kinds |-> NoWatch]
  BY DEF PollingInit
<1>3. NoRequest \in Request /\ NoRequest.kind = "none"
  BY NoWatchIs DEF NoRequest, Request
<1>4. PollingTyped
  <2>1. now \in 0 .. MaxTime /\ lastPk \in Nat /\ 0 \in 0 .. MaxTime /\ saved \in SUBSET Sources
    BY PollingAssumption DEF PollingInit
  <2>2. work \in [Sources -> Worker]
    BY <2>1 DEF PollingInit, Worker, Phase
  <2>3. NoRun \in Row
    BY <2>1 DEF NoRun, Row, Status
  <2>4. run \in [RunIds -> Row]
    BY <2>3 DEF PollingInit
  <2>5. request \in [Browsers -> Request] /\ watch \in [Browsers -> [Kinds -> Batch]]
    BY <1>3, NoWatchIs DEF PollingInit
  <2> QED BY <2>1, <2>2, <2>4, <2>5 DEF PollingTyped
<1>5. RowsAreWork /\ WorkersOwnRows /\ TerminalIsOver
  BY <1>1 DEF PollingInit, RowsAreWork, WorkersOwnRows, TerminalIsOver
<1>6. BatchesAreKept /\ TodoIsFresh
  <2>1. \A b \in Browsers : watch[b]["all"] = NoWatch /\ request[b].kind # "all"
    BY <1>2, <1>3 DEF Kinds
  <2>2. BatchIsKept(NoWatch)
    BY NoWatchIs DEF BatchIsKept
  <2> QED BY <2>1, <2>2 DEF BatchesAreKept, TodoIsFresh, BatchIsKept
<1> QED BY <1>4, <1>5, <1>6 DEF PollingInv

-----------------------------------------------------------------------------
(* The workers.                                                            *)
LEMMA TickSteps == PollingInv /\ Tick => PollingInv'
<1> SUFFICES ASSUME PollingInv, Tick PROVE PollingInv'
  OBVIOUS
<1>1. UNCHANGED <<saved, work, run, lastPk, request, watch>>
  BY DEF Tick
<1>2. now' \in 0 .. MaxTime
  BY PollingAssumption DEF Tick, PollingInv, PollingTyped
<1>3. PollingTyped'
  BY <1>1, <1>2 DEF PollingInv, PollingTyped
<1>4. RowsAreWork' /\ WorkersOwnRows' /\ TerminalIsOver'
  BY <1>1 DEF PollingInv, RowsAreWork, WorkersOwnRows, TerminalIsOver, Over, Rows
<1>5. RowsGrow /\ TicketsGrow
  BY <1>1, <1>3 DEF RowsGrow, TicketsGrow, PollingTyped, Worker
<1> QED BY <1>1, <1>3, <1>4, <1>5, WorkKeeps

(* A worker moves on, and leaves the rows alone.                           *)
LEMMA MoveKeeps ==
  ASSUME PollingInv, NEW s \in Sources, NEW phase \in Phase, NEW started \in 0 .. MaxTime,
         work[s].pc # "idle", phase # "running",
         work' = [work EXCEPT ![s].pc = phase, ![s].started = started],
         UNCHANGED <<now, saved, run, lastPk, request, watch>>
  PROVE  PollingInv'
<1>1. work' \in [Sources -> Worker]
  BY DEF PollingInv, PollingTyped, Worker
<1>2. PollingTyped'
  BY <1>1 DEF PollingInv, PollingTyped
<1>3. /\ work'[s].pc = phase /\ work'[s].ticket = work[s].ticket
      /\ \A t \in Sources \ {s} : work'[t] = work[t]
  BY DEF PollingInv, PollingTyped, Worker
<1>4. RowsAreWork'
  BY <1>3 DEF PollingInv, RowsAreWork, Rows
<1>5. WorkersOwnRows'
  <2>1. ASSUME NEW t \in Sources, work'[t].pc = "running", work'[t].run \in RunIds
        PROVE  run'[work'[t].run].status = "running" /\ run'[work'[t].run].source = t
    <3>1. t # s /\ work'[t] = work[t]
      BY <1>3, <2>1
    <3>2. QED BY <2>1, <3>1 DEF PollingInv, WorkersOwnRows
  <2>2. QED BY <2>1 DEF WorkersOwnRows
<1>6. TerminalIsOver'
  <2>1. ASSUME NEW r \in Rows, run[r].source \in Sources, run[r].status = "terminal"
        PROVE  Over(run[r].source, run[r].ticket)'
    <3>1. run[r].source \in Sources /\ Over(run[r].source, run[r].ticket)
      BY <2>1 DEF PollingInv, TerminalIsOver
    <3>2. CASE run[r].source = s
      BY <1>3, <3>1, <3>2 DEF Over
    <3>3. CASE run[r].source # s
      BY <1>3, <3>1, <3>3 DEF Over
    <3> QED BY <3>2, <3>3
  <2> QED BY <2>1 DEF TerminalIsOver, Rows
<1>7. RowsGrow /\ TicketsGrow
  BY <1>3 DEF PollingInv, PollingTyped, RowsGrow, TicketsGrow, Worker
<1>8. \A t \in Sources : work[t].pc = "idle" => work'[t].pc = "idle"
  BY <1>3
<1> QED BY <1>2, <1>4, <1>5, <1>6, <1>7, <1>8, WorkKeeps

LEMMA ReadClockSteps ==
  ASSUME PollingInv, NEW s \in Sources, ReadClock(s) PROVE PollingInv'
<1>1. work[s].pc # "idle" /\ now \in 0 .. MaxTime /\ "stamped" \in Phase
  BY DEF PollingInv, PollingTyped, ReadClock, Phase
<1> QED BY <1>1, MoveKeeps DEF ReadClock

LEMMA GiveUpSteps ==
  ASSUME PollingInv, NEW s \in Sources, GiveUp(s) PROVE PollingInv'
<1>1. /\ work[s].pc # "idle" /\ "idle" \in Phase /\ work[s].started \in 0 .. MaxTime
      /\ [work EXCEPT ![s].pc = "idle"]
           = [work EXCEPT ![s].pc = "idle", ![s].started = work[s].started]
  BY DEF PollingInv, PollingTyped, Worker, GiveUp, Phase
<1> QED BY <1>1, MoveKeeps DEF GiveUp

LEMMA InsertRunSteps ==
  ASSUME PollingInv, NEW s \in Sources, InsertRun(s) PROVE PollingInv'
<1>1. PollingTyped
  BY DEF PollingInv
<1>2. PICK new \in Row : new = [source |-> s, status |-> "running",
                                started |-> work[s].started, ticket |-> work[s].ticket]
  BY <1>1 DEF PollingTyped, Row, Worker, Status
<1>3. PICK key \in Nat : key = lastPk + 1
  BY <1>1 DEF PollingTyped
<1>4. /\ run' = [run EXCEPT ![key] = new] /\ lastPk' = key
      /\ work' = [work EXCEPT ![s].pc = "running", ![s].run = key]
      /\ work[s].pc = "stamped" /\ UNCHANGED <<now, saved, request, watch>>
  BY <1>2, <1>3 DEF InsertRun
<1>5. /\ new.source = s /\ new.status = "running" /\ new.ticket = work[s].ticket
  BY <1>2
<1>6. work' \in [Sources -> Worker] /\ run' \in [RunIds -> Row]
  BY <1>1, <1>4 DEF PollingTyped, Worker, Phase
<1>7. PollingTyped'
  BY <1>1, <1>4, <1>6 DEF PollingTyped
<1>8. /\ work'[s].pc = "running" /\ work'[s].run = key /\ work'[s].ticket = work[s].ticket
      /\ \A t \in Sources \ {s} : work'[t] = work[t]
  BY <1>1, <1>4 DEF PollingTyped, Worker
<1>9. /\ \A r \in RunIds \ {key} : run'[r] = run[r]
      /\ key \in RunIds => run'[key] = new
      /\ key \notin Rows
  <2>1. lastPk \in Nat /\ ~(key <= lastPk)
    BY <1>1, <1>3 DEF PollingTyped
  <2> QED BY <1>1, <1>4, <2>1 DEF PollingInv, PollingTyped, RowsAreWork
<1>10. Rows' \subseteq Rows \cup {key} /\ Rows \subseteq Rows' /\ (key \in RunIds => key \in Rows')
  BY <1>5, <1>9 DEF Rows
<1>11. RowsAreWork'
  <2>1. ASSUME NEW r \in Rows'
        PROVE  r <= key /\ (run'[r].source \in Sources =>
                               run'[r].ticket <= work'[run'[r].source].ticket)
    <3>1. CASE r = key
      <4>1. r \in RunIds /\ run'[r] = new /\ work[s].ticket \in Nat
        BY <1>1, <1>9, <3>1 DEF Rows, PollingTyped, Worker
      <4> QED BY <1>3, <1>5, <1>8, <3>1, <4>1
    <3>2. CASE r # key
      <4>1. r \in Rows /\ r \in Nat /\ run'[r] = run[r]
        BY <1>9, <1>10, <3>2, RunIdsAre
      <4>2. r <= lastPk /\ (run[r].source \in Sources =>
                              run[r].ticket <= work[run[r].source].ticket)
        BY <4>1 DEF PollingInv, RowsAreWork
      <4>3. run[r].source \in Sources =>
              work'[run[r].source].ticket = work[run[r].source].ticket
        BY <1>8
      <4>4. r <= key
        BY <1>1, <1>3, <4>1, <4>2 DEF PollingTyped
      <4> QED BY <4>1, <4>2, <4>3, <4>4
    <3> QED BY <3>1, <3>2
  <2> QED BY <1>4, <2>1 DEF RowsAreWork
<1>12. WorkersOwnRows'
  <2>1. ASSUME NEW t \in Sources, work'[t].pc = "running", work'[t].run \in RunIds
        PROVE  run'[work'[t].run].status = "running" /\ run'[work'[t].run].source = t
    <3>1. CASE t = s
      BY <1>5, <1>8, <1>9, <2>1, <3>1
    <3>2. CASE t # s
      <4>1. work[t].run # key
        BY <1>8, <1>9, <2>1, <3>2 DEF PollingInv, WorkersOwnRows, Rows
      <4> QED BY <1>8, <1>9, <2>1, <3>2, <4>1 DEF PollingInv, WorkersOwnRows
    <3> QED BY <3>1, <3>2
  <2> QED BY <2>1 DEF WorkersOwnRows
<1>13. TerminalIsOver'
  <2>1. ASSUME NEW r \in Rows', run'[r].source \in Sources, run'[r].status = "terminal"
        PROVE  Over(run[r].source, run[r].ticket)' /\ run'[r] = run[r]
    <3>1. r \in Rows /\ run'[r] = run[r]
      BY <1>5, <1>9, <1>10, <2>1 DEF Rows
    <3>2. run[r].source \in Sources /\ Over(run[r].source, run[r].ticket)
      BY <2>1, <3>1 DEF PollingInv, TerminalIsOver
    <3> QED BY <1>4, <1>8, <3>1, <3>2 DEF Over
  <2> QED BY <2>1 DEF TerminalIsOver, Over
<1>14. RowsGrow
  <2>1. ASSUME NEW r \in RunIds, run'[r].status # "none"
        PROVE  \/ /\ run[r].status # "none" /\ run'[r].source = run[r].source
                  /\ run'[r].ticket = run[r].ticket
               \/ /\ run'[r].source \in Sources /\ work[run'[r].source].pc # "idle"
                  /\ run'[r].ticket = work[run'[r].source].ticket
    <3>1. CASE r = key
      BY <1>4, <1>5, <1>9, <2>1, <3>1
    <3>2. CASE r # key
      BY <1>9, <2>1, <3>2
    <3> QED BY <3>1, <3>2
  <2> QED BY <2>1 DEF RowsGrow
<1>15. TicketsGrow
  BY <1>1, <1>8 DEF TicketsGrow, PollingTyped, Worker
<1>16. \A t \in Sources : work[t].pc = "idle" => work'[t].pc = "idle"
  BY <1>4, <1>8
<1> QED BY <1>4, <1>7, <1>11, <1>12, <1>13, <1>14, <1>15, <1>16, WorkKeeps

LEMMA FinishRunSteps ==
  ASSUME PollingInv, NEW s \in Sources, FinishRun(s) PROVE PollingInv'
<1>1. PollingTyped
  BY DEF PollingInv
<1>2. PICK key \in Nat : key = work[s].run
  BY <1>1 DEF PollingTyped, Worker
<1>3. /\ run' = [run EXCEPT ![key].status = "terminal"]
      /\ work' = [work EXCEPT ![s].pc = "idle"]
      /\ work[s].pc = "running" /\ UNCHANGED <<now, saved, lastPk, request, watch>>
  BY <1>2 DEF FinishRun
<1>4. work' \in [Sources -> Worker] /\ run' \in [RunIds -> Row]
  BY <1>1, <1>3 DEF PollingTyped, Worker, Phase, Row, Status
<1>5. PollingTyped'
  BY <1>1, <1>3, <1>4 DEF PollingTyped
<1>6. /\ work'[s].pc = "idle" /\ work'[s].ticket = work[s].ticket
      /\ \A t \in Sources \ {s} : work'[t] = work[t]
  BY <1>1, <1>3 DEF PollingTyped, Worker
<1>7. key \in RunIds => key \in Rows /\ run[key].source = s
  BY <1>2, <1>3 DEF PollingInv, WorkersOwnRows, Rows
<1>8. /\ \A r \in RunIds : run'[r].source = run[r].source /\ run'[r].ticket = run[r].ticket
      /\ \A r \in RunIds \ {key} : run'[r] = run[r]
      /\ key \in RunIds => run'[key].status = "terminal"
  BY <1>1, <1>3 DEF PollingTyped, Row
<1>9. Rows' = Rows
  BY <1>7, <1>8 DEF Rows
<1>10. \A t \in Sources : work'[t].ticket = work[t].ticket
  BY <1>6
<1>11. RowsAreWork'
  BY <1>3, <1>8, <1>9, <1>10, RunIdsAre DEF PollingInv, RowsAreWork
<1>12. WorkersOwnRows'
  <2>1. ASSUME NEW t \in Sources, work'[t].pc = "running", work'[t].run \in RunIds
        PROVE  run'[work'[t].run].status = "running" /\ run'[work'[t].run].source = t
    <3>1. t # s /\ work'[t] = work[t]
      BY <1>6, <2>1
    <3>2. run[work[t].run].status = "running" /\ run[work[t].run].source = t
      BY <2>1, <3>1 DEF PollingInv, WorkersOwnRows
    <3>3. work[t].run # key
      BY <1>7, <2>1, <3>1, <3>2
    <3> QED BY <1>8, <2>1, <3>1, <3>2, <3>3
  <2> QED BY <2>1 DEF WorkersOwnRows
<1>13. TerminalIsOver'
  <2>1. ASSUME NEW r \in Rows, run'[r].source \in Sources, run'[r].status = "terminal"
        PROVE  work'[run'[r].source].ticket # run'[r].ticket \/ work'[run'[r].source].pc = "idle"
    <3>1. r \in RunIds /\ run[r].source \in Sources
      BY <1>8, <2>1, RunIdsAre
    <3>2. CASE run[r].source = s
      BY <1>6, <1>8, <3>1, <3>2
    <3>3. CASE run[r].source # s
      <4>1. r # key /\ run'[r] = run[r]
        BY <1>7, <1>8, <3>1, <3>3
      <4>2. Over(run[r].source, run[r].ticket)
        BY <2>1, <4>1 DEF PollingInv, TerminalIsOver
      <4> QED BY <1>6, <3>1, <3>3, <4>1, <4>2 DEF Over
    <3> QED BY <3>2, <3>3
  <2> QED BY <1>9, <2>1 DEF TerminalIsOver, Over
<1>14. RowsGrow
  <2>1. ASSUME NEW r \in RunIds, run'[r].status # "none" PROVE run[r].status # "none"
    BY <1>7, <1>8, <2>1 DEF Rows
  <2> QED BY <1>8, <2>1 DEF RowsGrow
<1>15. TicketsGrow
  BY <1>1, <1>10 DEF TicketsGrow, PollingTyped, Worker
<1>16. \A t \in Sources : work[t].pc = "idle" => work'[t].pc = "idle"
  BY <1>6
<1> QED BY <1>3, <1>5, <1>11, <1>12, <1>13, <1>14, <1>15, <1>16, WorkKeeps

-----------------------------------------------------------------------------
(* The deletions: rows lose their source, or go.                           *)
LEMMA DeletionKeeps ==
  ASSUME PollingInv, UNCHANGED <<now, work, lastPk, request, watch>>,
         saved' \in SUBSET Sources, run' \in [RunIds -> Row],
         \A r \in RunIds : run'[r].status # "none" =>
           /\ run'[r].status = run[r].status /\ run'[r].ticket = run[r].ticket
           /\ run'[r].source = run[r].source \/ run'[r].source = 0,
         \A s \in Sources : work[s].pc = "running" /\ work[s].run \in RunIds =>
           run'[work[s].run] = run[work[s].run]
  PROVE  PollingInv'
<1>1. PollingTyped'
  BY DEF PollingInv, PollingTyped
<1>2. 0 \notin Sources
  BY PollingAssumption
<1>3. ASSUME NEW r \in Rows', run'[r].source \in Sources
      PROVE  /\ r \in Rows /\ run'[r].source = run[r].source /\ run'[r].ticket = run[r].ticket
             /\ run'[r].status = run[r].status
  BY <1>2, <1>3 DEF Rows
<1>4. \A r \in Rows' : r \in Rows
  BY DEF Rows
<1>5. RowsAreWork'
  BY <1>3, <1>4 DEF PollingInv, RowsAreWork
<1>6. WorkersOwnRows'
  BY DEF PollingInv, WorkersOwnRows
<1>7. TerminalIsOver'
  BY <1>3 DEF PollingInv, TerminalIsOver, Over
<1>8. RowsGrow /\ TicketsGrow
  <2>1. RowsGrow
    BY <1>2, <1>3 DEF RowsGrow, Rows
  <2>2. TicketsGrow
    BY DEF TicketsGrow, PollingInv, PollingTyped, Worker
  <2> QED BY <2>1, <2>2
<1> QED BY <1>1, <1>5, <1>6, <1>7, <1>8, WorkKeeps

LEMMA DeleteSourceSteps ==
  ASSUME PollingInv, NEW s \in Sources, DeleteSource(s) PROVE PollingInv'
<1>1. run \in [RunIds -> Row] /\ saved \in SUBSET Sources
  BY DEF PollingInv, PollingTyped
<1>2. \A r \in RunIds :
        IF run[r].source = s
          THEN /\ run'[r] \in Row /\ run'[r].source = 0 /\ run'[r].ticket = run[r].ticket
               /\ run'[r].status = run[r].status
          ELSE run'[r] = run[r]
  BY <1>1 DEF DeleteSource, Row
<1>3. run' \in [RunIds -> Row]
  <2>1. run' = [r \in RunIds |->
                 IF run[r].source = s THEN [run[r] EXCEPT !.source = 0] ELSE run[r]]
    BY DEF DeleteSource
  <2>2. \A r \in RunIds : run'[r] \in Row
    BY <1>1, <1>2
  <2> QED BY <2>1, <2>2
<1>4. ASSUME NEW t \in Sources, work[t].pc = "running", work[t].run \in RunIds
      PROVE  run'[work[t].run] = run[work[t].run]
  <2>1. run[work[t].run].status = "running" /\ run[work[t].run].source = t
    BY <1>4 DEF PollingInv, WorkersOwnRows
  <2>2. t # s
    BY <1>4, <2>1 DEF DeleteSource, Running, Rows
  <2> QED BY <1>2, <1>4, <2>1, <2>2
<1>5. saved' \in SUBSET Sources /\ UNCHANGED <<now, work, lastPk, request, watch>>
  BY <1>1 DEF DeleteSource
<1>6. \A r \in RunIds :
        /\ run'[r].status = run[r].status /\ run'[r].ticket = run[r].ticket
        /\ run'[r].source = run[r].source \/ run'[r].source = 0
  BY <1>2
<1> QED BY <1>3, <1>4, <1>5, <1>6, DeletionKeeps

LEMMA DeleteCompanySteps == PollingInv /\ DeleteCompany => PollingInv'
<1> SUFFICES ASSUME PollingInv, DeleteCompany PROVE PollingInv'
  OBVIOUS
<1>1. NoRun \in Row /\ NoRun.status = "none"
  BY PollingAssumption DEF NoRun, Row, Status
<1>2. run' = [r \in RunIds |-> NoRun] /\ saved' \in SUBSET Sources
      /\ UNCHANGED <<now, work, lastPk, request, watch>>
  BY DEF DeleteCompany
<1>3. run' \in [RunIds -> Row] /\ \A r \in RunIds : run'[r].status = "none"
  BY <1>1, <1>2
<1>4. ASSUME NEW s \in Sources, work[s].pc = "running", work[s].run \in RunIds
      PROVE  FALSE
  BY <1>4 DEF PollingInv, WorkersOwnRows, DeleteCompany, Running, Rows
<1> QED BY <1>2, <1>3, <1>4, DeletionKeeps

-----------------------------------------------------------------------------
(* The web threads.                                                        *)

(* They leave the rows alone, and only begin submissions of idle sources.  *)
LEMMA WebKeepsRows ==
  ASSUME PollingInv, UNCHANGED <<now, saved, run, lastPk>>,
         \A s \in Sources : \/ work'[s] = work[s]
                            \/ /\ work[s].pc = "idle" /\ work'[s].pc = "queued"
                               /\ work'[s].ticket = work[s].ticket + 1
  PROVE  RowsAreWork' /\ WorkersOwnRows' /\ TerminalIsOver' /\ RowsGrow /\ TicketsGrow
<1>1. \A s \in Sources : work[s].ticket \in Nat
  BY DEF PollingInv, PollingTyped, Worker
<1>2. \A r \in Rows : run[r].source \in Sources =>
        run[r].ticket \in Nat /\ run[r].ticket <= work[run[r].source].ticket
  BY RunIdsAre DEF PollingInv, PollingTyped, RowsAreWork, Row
<1>3. \A s \in Sources : work'[s].ticket \in Nat /\ work[s].ticket <= work'[s].ticket
  BY <1>1
<1>4. RowsAreWork'
  <2>1. ASSUME NEW r \in Rows, run[r].source \in Sources
        PROVE  run[r].ticket <= work'[run[r].source].ticket
    BY <1>1, <1>2, <1>3, <2>1
  <2> QED BY <2>1 DEF PollingInv, RowsAreWork, Rows
<1>5. WorkersOwnRows'
  BY DEF PollingInv, WorkersOwnRows, Rows
<1>6. TerminalIsOver'
  <2>1. ASSUME NEW r \in Rows, run[r].source \in Sources, run[r].status = "terminal"
        PROVE  work'[run[r].source].ticket # run[r].ticket \/ work'[run[r].source].pc = "idle"
    <3>1. Over(run[r].source, run[r].ticket)
      BY <2>1 DEF PollingInv, TerminalIsOver
    <3>2. CASE work'[run[r].source] = work[run[r].source]
      BY <3>1, <3>2 DEF Over
    <3>3. CASE work'[run[r].source].ticket = work[run[r].source].ticket + 1
      BY <1>1, <1>2, <2>1, <3>3
    <3> QED BY <2>1, <3>2, <3>3
  <2> QED BY <2>1 DEF TerminalIsOver, Over, Rows
<1> QED BY <1>3, <1>4, <1>5, <1>6 DEF RowsGrow, TicketsGrow

LEMMA StopWatchingSteps ==
  ASSUME PollingInv, NEW b \in Browsers, NEW kind \in Kinds, StopWatching(b, kind)
  PROVE  PollingInv'
<1>1. UNCHANGED <<now, saved, work, run, lastPk, request>>
      /\ watch' = [watch EXCEPT ![b][kind] = NoWatch]
  BY DEF StopWatching
<1>2. watch' \in [Browsers -> [Kinds -> Batch]]
  BY <1>1, NoWatchIs DEF PollingInv, PollingTyped
<1>3. PollingTyped'
  BY <1>1, <1>2 DEF PollingInv, PollingTyped
<1>4. \A c \in Browsers : watch'[c]["all"] = watch[c]["all"] \/ watch'[c]["all"] = NoWatch
  BY <1>1 DEF PollingInv, PollingTyped, Kinds
<1>5. RowsAreWork' /\ WorkersOwnRows' /\ TerminalIsOver'
  BY <1>1, WebKeepsRows
<1>6. BatchIsKept(NoWatch)
  BY NoWatchIs DEF BatchIsKept
<1>7. ASSUME NEW c \in Browsers PROVE BatchIsKept(watch[c]["all"])'
  <2>1. PICK batch : batch = watch'[c]["all"]
    OBVIOUS
  <2>2. BatchIsKept(batch)
    BY <1>4, <1>6, <2>1 DEF PollingInv, BatchesAreKept
  <2> QED BY <1>1, <2>1, <2>2 DEF BatchIsKept, RunsAfter, Rows
<1>8. BatchesAreKept'
  BY <1>1, <1>7 DEF PollingInv, BatchesAreKept, BatchIsKept, RunsAfter, Rows
<1>9. TodoIsFresh'
  BY <1>1 DEF PollingInv, TodoIsFresh, RunsAfter, Rows
<1> QED BY <1>3, <1>5, <1>8, <1>9 DEF PollingInv

LEMMA RedirectSteps ==
  ASSUME PollingInv, NEW b \in Browsers, Redirect(b)
  PROVE  PollingInv'
<1>1. UNCHANGED <<now, saved, work, run, lastPk>> /\ request' = [request EXCEPT ![b] = NoRequest]
      /\ request[b].kind # "none"
  BY DEF Redirect
<1>2. PICK kind \in Kinds : kind = request[b].kind
  BY <1>1 DEF PollingInv, PollingTyped, Request
<1>3. PICK batch \in Batch : batch = request[b].batch
  BY DEF PollingInv, PollingTyped, Request
<1>4. watch' = watch \/ watch' = [watch EXCEPT ![b][kind] = batch]
      \/ watch' = [watch EXCEPT ![b][kind] = NoWatch]
  BY <1>2, <1>3 DEF Redirect
<1>5. NoRequest \in Request /\ NoRequest.kind = "none"
  BY NoWatchIs DEF NoRequest, Request
<1>6. PollingTyped'
  <2>1. request' \in [Browsers -> Request]
    BY <1>1, <1>5 DEF PollingInv, PollingTyped
  <2>2. NoWatch \in Batch /\ watch \in [Browsers -> [Kinds -> Batch]]
    BY NoWatchIs DEF PollingInv, PollingTyped
  <2>3. \A next \in Batch : [watch EXCEPT ![b][kind] = next] \in [Browsers -> [Kinds -> Batch]]
    BY <2>2
  <2>4. watch' \in [Browsers -> [Kinds -> Batch]]
    BY <1>4, <2>2, <2>3
  <2> QED BY <1>1, <2>1, <2>4 DEF PollingInv, PollingTyped
<1>7. RowsAreWork' /\ WorkersOwnRows' /\ TerminalIsOver'
  BY <1>1, WebKeepsRows
<1>8. /\ \A c \in Browsers \ {b} : request'[c] = request[c] /\ watch'[c] = watch[c]
      /\ request'[b].kind = "none"
      /\ \/ watch'[b]["all"] = watch[b]["all"] \/ watch'[b]["all"] = NoWatch
         \/ watch'[b]["all"] = batch /\ kind = "all"
  BY <1>1, <1>4, <1>5 DEF PollingInv, PollingTyped, Kinds
<1>9. BatchIsKept(NoWatch)
  BY NoWatchIs DEF BatchIsKept
<1>10. ASSUME NEW c \in Browsers PROVE BatchIsKept(watch[c]["all"])'
  <2>1. PICK shown : shown = watch'[c]["all"]
    OBVIOUS
  <2>2. BatchIsKept(shown)
    BY <1>2, <1>3, <1>8, <1>9, <2>1 DEF PollingInv, BatchesAreKept
  <2> QED BY <1>1, <2>1, <2>2 DEF BatchIsKept, RunsAfter, Rows
<1>11. BatchesAreKept'
  <2>1. ASSUME NEW c \in Browsers, request'[c].kind = "all"
        PROVE  request'[c] = request[c] /\ c # b
    BY <1>8, <2>1
  <2>2. ASSUME NEW c \in Browsers, request'[c].kind = "all"
        PROVE  BatchIsKept(request[c].batch)'
    BY <1>1, <2>1, <2>2 DEF PollingInv, BatchesAreKept, BatchIsKept, RunsAfter, Rows
  <2> QED BY <1>10, <2>2 DEF BatchesAreKept
<1>12. TodoIsFresh'
  <2>1. ASSUME NEW c \in Browsers, request'[c].kind = "all"
        PROVE  request'[c] = request[c]
    BY <1>8, <2>1
  <2> QED BY <1>1, <2>1 DEF PollingInv, TodoIsFresh, RunsAfter, Rows
<1> QED BY <1>6, <1>7, <1>11, <1>12 DEF PollingInv

LEMMA ReadBaselineSteps ==
  ASSUME PollingInv, NEW b \in Browsers, NEW kind \in Kinds, ReadBaseline(b, kind)
  PROVE  PollingInv'
<1>1. UNCHANGED <<now, saved, work, run, lastPk, watch>>
  BY DEF ReadBaseline
<1>2. PICK after \in Nat : after = Baseline(kind) /\ (kind = "all" => \A r \in Rows : r <= after)
  BY BaselineIs DEF PollingInv
<1>3. PICK quiet \in BOOLEAN : quiet = \A s \in Sources : work[s].pc = "idle"
  OBVIOUS
<1>4. PICK batch \in Batch : /\ batch = [NoWatch EXCEPT !.after = after, !.quiet = quiet]
                             /\ batch.sources = {} /\ batch.ticket \in [{} -> Nat]
                             /\ batch.after = after /\ batch.quiet = quiet
  <2> DEFINE batch == [NoWatch EXCEPT !.after = after, !.quiet = quiet]
  <2>1. /\ batch \in Batch /\ batch.sources = {} /\ batch.ticket \in [{} -> Nat]
        /\ batch.after = after /\ batch.quiet = quiet
    BY NoWatchIs
  <2> QED BY <2>1
<1>5. PICK begun \in Request : begun = [kind |-> kind, todo |-> saved, batch |-> batch]
  BY DEF Request, PollingInv, PollingTyped
<1>6. request' = [request EXCEPT ![b] = begun]
  BY <1>2, <1>3, <1>4, <1>5 DEF ReadBaseline
<1>7. PollingTyped'
  <2>1. request' \in [Browsers -> Request]
    BY <1>6 DEF PollingInv, PollingTyped
  <2> QED BY <1>1, <2>1 DEF PollingInv, PollingTyped
<1>8. RowsAreWork' /\ WorkersOwnRows' /\ TerminalIsOver'
  BY <1>1, WebKeepsRows
<1>9. begun.kind = kind /\ begun.todo = saved /\ begun.batch = batch
  BY <1>5
<1>10. /\ \A c \in Browsers \ {b} : request'[c] = request[c]
       /\ request'[b] = begun
  BY <1>6 DEF PollingInv, PollingTyped
<1>11. BatchIsKept(batch)
  BY <1>4 DEF BatchIsKept
<1>12. BatchesAreKept'
  <2>1. ASSUME NEW c \in Browsers, request'[c].kind = "all"
        PROVE  BatchIsKept(request[c].batch)'
    <3>1. PICK sent : sent = request'[c].batch
      OBVIOUS
    <3>2. BatchIsKept(sent)
      BY <1>9, <1>10, <1>11, <2>1, <3>1 DEF PollingInv, BatchesAreKept
    <3> QED BY <1>1, <3>1, <3>2 DEF BatchIsKept, RunsAfter, Rows
  <2>2. \A c \in Browsers : BatchIsKept(watch[c]["all"])'
    BY <1>1 DEF PollingInv, BatchesAreKept, BatchIsKept, RunsAfter, Rows
  <2> QED BY <2>1, <2>2 DEF BatchesAreKept
<1>13. TodoIsFresh'
  <2>1. ASSUME NEW c \in Browsers, request'[c].kind = "all", request'[c].batch.quiet,
               NEW s \in request'[c].todo
        PROVE  work[s].pc = "idle" /\ RunsAfter(s, request'[c].batch.after) = {}
    <3>1. CASE c # b
      BY <1>10, <2>1, <3>1 DEF PollingInv, TodoIsFresh
    <3>2. CASE c = b
      <4>1. kind = "all" /\ quiet /\ s \in Sources /\ request'[c].batch.after = after
        BY <1>4, <1>9, <1>10, <2>1, <3>2 DEF PollingInv, PollingTyped
      <4>2. \A r \in Rows : r \in Nat /\ r <= after
        BY <1>2, <4>1, RunIdsAre
      <4>3. \A r \in Rows : ~(r > after)
        BY <4>2
      <4>4. RunsAfter(s, after) = {}
        BY <4>3 DEF RunsAfter
      <4>5. work[s].pc = "idle"
        BY <1>3, <4>1, Zenon
      <4> QED BY <4>1, <4>4, <4>5
    <3> QED BY <3>1, <3>2
  <2> QED BY <1>1, <2>1 DEF TodoIsFresh, RunsAfter, Rows
<1> QED BY <1>7, <1>8, <1>12, <1>13 DEF PollingInv

(* A refused submission, and an accepted one.                              *)
LEMMA SubmitSteps ==
  ASSUME PollingInv, OneBrowser, NEW b \in Browsers, NEW s \in Sources, Submit(b, s)
  PROVE  PollingInv'
<1>1. PollingTyped
  BY DEF PollingInv
<1>2. UNCHANGED <<now, saved, run, lastPk, watch>> /\ s \in request[b].todo
  BY DEF Submit
<1>3. PICK sent \in Request : sent = request[b]
  BY <1>1 DEF PollingTyped
<1>4. PICK batch \in Batch : batch = sent.batch
  BY DEF Request
<1>5. /\ \A c \in Browsers : c = b
      /\ sent.kind = "all" => BatchIsKept(batch)
      /\ sent.kind = "all" /\ batch.quiet =>
           \A t \in sent.todo : work[t].pc = "idle" /\ RunsAfter(t, batch.after) = {}
  BY <1>3, <1>4 DEF PollingInv, OneBrowser, BatchesAreKept, TodoIsFresh
<1>6. ASSUME NEW next \in Request, request' = [request EXCEPT ![b] = next],
             next.kind = sent.kind, next.todo = sent.todo \ {s},
             next.batch.quiet = batch.quiet, next.batch.after = batch.after,
             sent.kind = "all" => BatchIsKept(next.batch)',
             work' \in [Sources -> Worker],
             \A t \in Sources \ {s} : work'[t] = work[t],
             \/ work'[s] = work[s]
             \/ /\ work[s].pc = "idle" /\ work'[s].pc = "queued"
                /\ work'[s].ticket = work[s].ticket + 1
      PROVE  PollingInv'
  <2>1. request' \in [Browsers -> Request] /\ request'[b] = next
    BY <1>1, <1>6 DEF PollingTyped
  <2>2. PollingTyped'
    BY <1>1, <1>2, <1>6, <2>1 DEF PollingTyped
  <2>3. RowsAreWork' /\ WorkersOwnRows' /\ TerminalIsOver' /\ RowsGrow /\ TicketsGrow
    BY <1>2, <1>6, WebKeepsRows
  <2>4. ASSUME NEW c \in Browsers
        PROVE  BatchIsKept(watch[c]["all"])'
    <3>1. PICK shown \in Batch : shown = watch[c]["all"]
      BY <1>1 DEF PollingTyped, Kinds
    <3>2. BatchIsKept(shown)
      BY <3>1 DEF PollingInv, BatchesAreKept
    <3>3. BatchIsKept(shown)'
      BY <1>1, <2>2, <2>3, <3>2, BatchStays
    <3> QED BY <1>2, <3>1, <3>3 DEF BatchIsKept
  <2>5. ASSUME NEW c \in Browsers, request'[c].kind = "all"
        PROVE  BatchIsKept(request[c].batch)'
    BY <1>5, <1>6, <2>1, <2>5 DEF BatchIsKept
  <2>6. BatchesAreKept'
    BY <2>4, <2>5 DEF BatchesAreKept
  <2>7. ASSUME NEW c \in Browsers, request'[c].kind = "all", request'[c].batch.quiet,
               NEW t \in request'[c].todo
        PROVE  work'[t].pc = "idle" /\ RunsAfter(t, request'[c].batch.after) = {}
    <3>1. request'[c] = next /\ t \in sent.todo /\ t # s /\ sent.kind = "all" /\ batch.quiet
      BY <1>5, <1>6, <2>1, <2>7
    <3>2. t \in Sources
      BY <3>1 DEF Request
    <3> QED BY <1>5, <1>6, <3>1, <3>2
  <2>8. TodoIsFresh'
    BY <1>2, <2>7 DEF TodoIsFresh, RunsAfter, Rows
  <2> QED BY <2>2, <2>3, <2>6, <2>8 DEF PollingInv
<1>7. CASE ~Accepted(s)
  <2>1. work' = work /\ request' = [request EXCEPT ![b].todo = @ \ {s}]
    BY <1>7 DEF Submit
  <2>2. PICK next \in Request : next = [sent EXCEPT !.todo = sent.todo \ {s}]
    BY DEF Request
  <2>3. request' = [request EXCEPT ![b] = next]
    BY <1>3, <2>1, <2>2
  <2>4. next.kind = sent.kind /\ next.todo = sent.todo \ {s} /\ next.batch = batch
    BY <1>4, <2>2 DEF Request
  <2>5. sent.kind = "all" => BatchIsKept(batch)'
    BY <1>2, <1>5, <2>1 DEF BatchIsKept, RunsAfter, Rows
  <2>6. sent.kind = "all" => BatchIsKept(next.batch)'
    BY <2>4, <2>5
  <2>7. work' \in [Sources -> Worker]
    BY <1>1, <2>1 DEF PollingTyped
  <2> QED BY <1>6, <2>1, <2>3, <2>4, <2>6, <2>7
<1>8. CASE Accepted(s)
  <2>1. /\ work' = [work EXCEPT ![s].pc = "queued", ![s].ticket = @ + 1]
        /\ request' = [request EXCEPT ![b].todo = @ \ {s}, ![b].batch = Extended(@, s)]
        /\ work[s].pc = "idle"
    BY <1>8 DEF Submit, Accepted
  <2>2. work' \in [Sources -> Worker] /\ work[s].ticket \in Nat
    BY <1>1, <2>1 DEF PollingTyped, Worker, Phase
  <2>3. /\ \A t \in Sources \ {s} : work'[t] = work[t]
        /\ work'[s].pc = "queued" /\ work'[s].ticket = work[s].ticket + 1
    BY <1>1, <2>1 DEF PollingTyped, Worker
  <2> DEFINE more == batch.sources \cup {s}
             due == [t \in DOMAIN batch.ticket \cup {s} |->
                       IF t = s THEN work[s].ticket + 1 ELSE batch.ticket[t]]
  <2>4. due \in Tickets
    <3>1. PICK S \in SUBSET Sources : batch.ticket \in [S -> Nat]
      BY DEF Batch, Tickets
    <3>2. due \in [S \cup {s} -> Nat] /\ S \cup {s} \in SUBSET Sources
      BY <2>2, <3>1
    <3> QED BY <3>2, TicketsAre
  <2>5. PICK extended \in Batch : extended = [batch EXCEPT !.sources = more, !.ticket = due]
    BY <2>4 DEF Batch
  <2>6. Extended(batch, s) = extended
    BY <2>5 DEF Extended, Batch
  <2>7. PICK next \in Request : next = [sent EXCEPT !.todo = sent.todo \ {s}, !.batch = extended]
    BY DEF Request
  <2>8. request' = [request EXCEPT ![b] = next]
    BY <1>1, <1>3, <1>4, <2>1, <2>6, <2>7 DEF PollingTyped, Request
  <2>9. next.kind = sent.kind /\ next.todo = sent.todo \ {s} /\ next.batch = extended
    BY <2>7 DEF Request
  <2>10. /\ extended.sources = more /\ extended.ticket = due
         /\ extended.quiet = batch.quiet /\ extended.after = batch.after
    BY <2>5 DEF Batch
  <2>11. ASSUME sent.kind = "all" PROVE BatchIsKept(extended)'
    <3>1. batch.ticket \in [batch.sources -> Nat] /\ batch.sources \subseteq Sources
      BY <1>5, <2>11 DEF BatchIsKept, Batch
    <3>2. due \in [more -> Nat]
      BY <2>2, <3>1
    <3>3. /\ due[s] = work[s].ticket + 1
          /\ \A t \in batch.sources \ {s} : due[t] = batch.ticket[t]
      BY <3>1
    <3>4. ASSUME NEW t \in more PROVE due[t] <= work'[t].ticket
      <4>1. CASE t = s
        BY <2>2, <2>3, <3>3, <4>1
      <4>2. CASE t # s
        BY <1>5, <2>3, <2>11, <3>1, <3>3, <3>4, <4>2 DEF BatchIsKept
      <4> QED BY <4>1, <4>2
    <3>5. ASSUME NEW t \in more, batch.quiet, NEW r \in RunsAfter(t, batch.after)
          PROVE  run[r].ticket >= due[t]
      <4>1. t # s
        BY <1>2, <1>3, <1>5, <2>11, <3>5
      <4> QED BY <1>5, <2>11, <3>3, <3>5, <4>1 DEF BatchIsKept
    <3> HIDE DEF more, due
    <3> QED BY <1>2, <2>10, <3>2, <3>4, <3>5 DEF BatchIsKept, RunsAfter, Rows
  <2>12. sent.kind = "all" => BatchIsKept(next.batch)'
    BY <2>9, <2>11
  <2> QED BY <1>6, <2>1, <2>2, <2>3, <2>8, <2>9, <2>10, <2>12
<1> QED BY <1>7, <1>8

LEMMA PollingSteps ==
  ASSUME OneBrowser PROVE PollingInv /\ [PollingNext]_pollingVars => PollingInv'
<1> SUFFICES ASSUME PollingInv, [PollingNext]_pollingVars PROVE PollingInv'
  OBVIOUS
<1>1. ASSUME NEW b \in Browsers, RequestStep(b) PROVE PollingInv'
  BY <1>1, SubmitSteps, RedirectSteps DEF RequestStep
<1>2. ASSUME NEW b \in Browsers, NEW kind \in Kinds, ReadBaseline(b, kind) \/ StopWatching(b, kind)
      PROVE  PollingInv'
  BY <1>2, ReadBaselineSteps, StopWatchingSteps
<1>3. ASSUME NEW s \in Sources, WorkerStep(s) PROVE PollingInv'
  BY <1>3, ReadClockSteps, InsertRunSteps, GiveUpSteps, FinishRunSteps DEF WorkerStep
<1>4. ASSUME NEW s \in Sources, DeleteSource(s) PROVE PollingInv'
  BY <1>4, DeleteSourceSteps
<1>5. CASE DeleteCompany
  BY <1>5, DeleteCompanySteps
<1>6. CASE Tick
  BY <1>6, TickSteps
<1>7. CASE UNCHANGED pollingVars
  BY <1>7 DEF pollingVars, PollingInv, PollingTyped, RowsAreWork, WorkersOwnRows, TerminalIsOver,
              BatchesAreKept, BatchIsKept, TodoIsFresh, RunsAfter, Over, Rows
<1> QED BY <1>1, <1>2, <1>3, <1>4, <1>5, <1>6, <1>7 DEF PollingNext

(* The first run behind the baseline is not older than the submission; so  *)
(* when it is terminal, the submission is over.                            *)
LEMMA PatienceHolds == PollingInv => QuietBannerIsPatient
<1> SUFFICES ASSUME PollingInv, NEW b \in Browsers, watch[b]["all"].quiet, Complete(b, "all"),
                    NEW s \in watch[b]["all"].sources
             PROVE  Over(s, watch[b]["all"].ticket[s])
  BY DEF QuietBannerIsPatient, Patient
<1>1. PICK batch \in Batch : batch = watch[b]["all"]
  BY DEF PollingInv, PollingTyped, Kinds
<1>2. batch.quiet /\ s \in batch.sources /\ s \in Sources
  BY <1>1 DEF Batch
<1> DEFINE rows == RunsAfter(s, batch.after)
<1>3. rows # {} /\ run[ExpectedRun("all", rows)].status = "terminal"
  BY <1>1 DEF Complete
<1>4. PICK r \in rows : run[r].status = "terminal"
  <2>1. rows \subseteq Rows
    BY DEF RunsAfter
  <2>2. SmallestPk(rows) \in rows
    BY <1>3, <2>1, SmallestIs
  <2> QED BY <1>3, <2>2 DEF ExpectedRun
<1>5. r \in Rows /\ run[r].source = s
  BY DEF RunsAfter
<1>6. /\ batch.ticket[s] \in Nat /\ run[r].ticket \in Nat /\ work[s].ticket \in Nat
      /\ batch.ticket[s] <= run[r].ticket
  BY <1>1, <1>2, <1>5, RunIdsAre
     DEF PollingInv, PollingTyped, Row, Worker, BatchesAreKept, BatchIsKept
<1>7. run[r].ticket <= work[s].ticket /\ Over(s, run[r].ticket)
  BY <1>2, <1>4, <1>5 DEF PollingInv, RowsAreWork, TerminalIsOver
<1> QED BY <1>1, <1>6, <1>7 DEF Over

(* The banner of Update all, in a browser that is the only one at work and *)
(* whose click found nothing running: it goes only when the tasks of its   *)
(* batch have ended, however many sources, submissions and clicks there    *)
(* are, and whatever is deleted meanwhile.  With a second browser a run of *)
(* its submission may be taken for the batch's own.                        *)
THEOREM QuietBannersWait ==
  ASSUME OneBrowser PROVE PollingSpec => []QuietBannerIsPatient
<1>1. PollingInit => PollingInv
  BY PollingStarts
<1>2. PollingInv /\ [PollingNext]_pollingVars => PollingInv'
  BY PollingSteps
<1>3. PollingInv => QuietBannerIsPatient
  BY PatienceHolds
<1> QED BY <1>1, <1>2, <1>3, PTL DEF PollingSpec

-----------------------------------------------------------------------------
(* The second part is about the count of unread failures, for any number   *)
(* of runs and clock readings.                                             *)

Boundaries == [finished_at : Nat, run_id : Nat]
Ending == [status : {"running", "stamped", "success", "failed"}, finished_at : Nat]
Tab == [pc : {"idle", "acknowledging"}, boundary : Boundaries, loaded : Boundaries]

UnreadTyped ==
  /\ clock \in Nat
  /\ scrapeRun \in [ScrapeRunIds -> Ending]
  /\ marker \in Boundaries
  /\ tab \in [Tabs -> Tab]

(* What is linked, and so may be acknowledged, is a failure for good.      *)
LinksAreFailures ==
  /\ linked \subseteq Failed
  /\ \A t \in Tabs : tab[t].pc = "acknowledging" =>
       \E r \in linked : tab[t].boundary = BoundaryOf(r)

(* Nobody else moves the marker while a request holds it.                  *)
OneTab == \A s, t \in Tabs : s = t
LoadedIsCurrent == \A t \in Tabs : tab[t].pc = "acknowledging" => tab[t].loaded = marker

UnreadInv == UnreadTyped /\ LinksAreFailures /\ MarkerWasLinked

(* A run that has failed stays as it is.                                   *)
FailuresStay == \A r \in Failed : r \in Failed' /\ scrapeRun'[r] = scrapeRun[r]

LEMMA BoundaryIs ==
  ASSUME UnreadTyped
  PROVE  /\ NoBoundary \in Boundaries
         /\ \A r \in ScrapeRunIds : BoundaryOf(r) \in Boundaries
<1>1. ScrapeRunIds \subseteq Nat
  BY DEF ScrapeRunIds
<1> QED BY <1>1 DEF NoBoundary, BoundaryOf, Boundaries, UnreadTyped, Ending

LEMMA BeyondIsTransitive ==
  ASSUME NEW a \in Boundaries, NEW b \in Boundaries, NEW c \in Boundaries,
         ~Beyond(a, b), Beyond(c, b)
  PROVE  ~Beyond(a, c)
BY DEF Beyond, Boundaries

LEMMA NoTabIs == NoTab \in Tab /\ NoTab.pc = "idle"
<1>1. PICK none \in Boundaries : none = NoBoundary
  BY DEF NoBoundary, Boundaries
<1>2. NoTab = [pc |-> "idle", boundary |-> none, loaded |-> none]
  BY <1>1 DEF NoTab
<1> QED BY <1>2 DEF Tab

LEMMA UnreadStarts == UnreadInit => UnreadInv /\ LoadedIsCurrent
<1> SUFFICES ASSUME UnreadInit PROVE UnreadInv /\ LoadedIsCurrent
  OBVIOUS
<1>1. PICK none \in Boundaries : none = NoBoundary
  BY DEF NoBoundary, Boundaries
<1>2. PICK closed \in Tab : closed = NoTab /\ closed.pc = "idle"
  BY NoTabIs
<1>3. tab = [t \in Tabs |-> closed] /\ marker = none /\ linked = {} /\ clock = 0
  BY <1>1, <1>2 DEF UnreadInit
<1>4. scrapeRun \in [ScrapeRunIds -> Ending]
  BY DEF UnreadInit, Ending
<1>5. UnreadTyped
  BY <1>3, <1>4 DEF UnreadTyped
<1> QED BY <1>1, <1>2, <1>3, <1>5
        DEF UnreadInv, LinksAreFailures, MarkerWasLinked, LoadedIsCurrent

LEMMA UnreadSteps ==
  ASSUME UnreadInv, [UnreadNext]_unreadVars
  PROVE  /\ UnreadInv' /\ FailuresStay
         /\ OneTab /\ LoadedIsCurrent => LoadedIsCurrent'
<1>1. UnreadTyped /\ LinksAreFailures
  BY DEF UnreadInv
(* Nothing but runs that have not failed, and links, change.               *)
<1>2. ASSUME UnreadTyped', FailuresStay, UNCHANGED <<marker, tab>>,
             linked \subseteq linked', linked' \subseteq Failed'
      PROVE  /\ UnreadInv' /\ FailuresStay
             /\ OneTab /\ LoadedIsCurrent => LoadedIsCurrent'
  <2>1. \A r \in linked : BoundaryOf(r)' = BoundaryOf(r)
    BY <1>1, <1>2 DEF LinksAreFailures, FailuresStay, BoundaryOf
  <2>2. LinksAreFailures'
    BY <1>1, <1>2, <2>1 DEF LinksAreFailures
  <2>3. MarkerWasLinked'
    BY <1>2, <2>1 DEF UnreadInv, MarkerWasLinked
  <2>4. LoadedIsCurrent => LoadedIsCurrent'
    BY <1>2 DEF LoadedIsCurrent
  <2> QED BY <1>2, <2>2, <2>3, <2>4 DEF UnreadInv
<1>3. CASE ClockTicks
  <2>1. clock' \in Nat /\ UNCHANGED <<scrapeRun, marker, linked, tab>>
    BY <1>1, <1>3 DEF ClockTicks, UnreadTyped
  <2> QED BY <1>1, <1>2, <2>1 DEF UnreadTyped, LinksAreFailures, FailuresStay, Failed
<1>4. CASE ShowDashboard
  <2>1. linked' = linked \cup NewestFailure /\ UNCHANGED <<clock, scrapeRun, marker, tab>>
        /\ NewestFailure \subseteq Failed
    BY <1>4 DEF ShowDashboard, NewestFailure
  <2> QED BY <1>1, <1>2, <2>1 DEF UnreadTyped, LinksAreFailures, FailuresStay, Failed
<1>5. ASSUME NEW r \in ScrapeRunIds, StampRun(r) \/ SaveRun(r)
      PROVE  UnreadTyped' /\ FailuresStay /\ UNCHANGED <<marker, linked, tab>>
  <2>1. PICK next \in Ending : scrapeRun' = [scrapeRun EXCEPT ![r] = next]
    <3>1. CASE StampRun(r)
      <4> DEFINE next == [status |-> "stamped", finished_at |-> clock]
      <4>1. next \in Ending /\ scrapeRun' = [scrapeRun EXCEPT ![r] = next]
        BY <1>1, <3>1 DEF StampRun, UnreadTyped, Ending
      <4> QED BY <4>1
    <3>2. CASE SaveRun(r)
      <4>1. PICK status \in {"success", "failed"} :
              scrapeRun' = [scrapeRun EXCEPT ![r].status = status]
        BY <3>2 DEF SaveRun
      <4> DEFINE next == [scrapeRun[r] EXCEPT !.status = status]
      <4>2. next \in Ending /\ scrapeRun' = [scrapeRun EXCEPT ![r] = next]
        BY <1>1, <4>1 DEF UnreadTyped, Ending
      <4> QED BY <4>2
    <3> QED BY <1>5, <3>1, <3>2
  <2>2. scrapeRun[r].status # "failed" /\ UNCHANGED <<clock, marker, linked, tab>>
    BY <1>5 DEF StampRun, SaveRun
  <2>3. scrapeRun' \in [ScrapeRunIds -> Ending]
        /\ \A q \in ScrapeRunIds \ {r} : scrapeRun'[q] = scrapeRun[q]
    BY <1>1, <2>1 DEF UnreadTyped
  <2>4. FailuresStay
    BY <2>2, <2>3 DEF FailuresStay, Failed
  <2> QED BY <1>1, <2>2, <2>3, <2>4 DEF UnreadTyped
<1>6. ASSUME NEW r \in ScrapeRunIds, StampRun(r) \/ SaveRun(r)
      PROVE  /\ UnreadInv' /\ FailuresStay
             /\ OneTab /\ LoadedIsCurrent => LoadedIsCurrent'
  <2>1. linked' \subseteq Failed'
    BY <1>1, <1>5, <1>6 DEF LinksAreFailures, FailuresStay
  <2> QED BY <1>2, <1>5, <1>6, <2>1
(* Only requests move, in a way that keeps the links.                      *)
<1>7. ASSUME NEW t \in Tabs, NEW next \in Tab, tab' = [tab EXCEPT ![t] = next],
             UNCHANGED <<clock, scrapeRun, linked>>, marker' \in Boundaries,
             next.pc = "acknowledging" => \E r \in linked : next.boundary = BoundaryOf(r),
             marker' = marker \/ \E r \in linked : marker' = BoundaryOf(r)
      PROVE  /\ UnreadInv' /\ FailuresStay
             /\ tab'[t] = next /\ \A s \in Tabs \ {t} : tab'[s] = tab[s]
  <2>1. tab' \in [Tabs -> Tab] /\ tab'[t] = next /\ \A s \in Tabs \ {t} : tab'[s] = tab[s]
    BY <1>1, <1>7 DEF UnreadTyped
  <2>2. UnreadTyped' /\ FailuresStay
    BY <1>1, <1>7, <2>1 DEF UnreadTyped, FailuresStay, Failed
  <2>3. LinksAreFailures'
    BY <1>1, <1>7, <2>1 DEF LinksAreFailures, Failed, BoundaryOf
  <2>4. MarkerWasLinked'
    BY <1>1, <1>7 DEF UnreadInv, MarkerWasLinked, LinksAreFailures, Failed, BoundaryOf
  <2> QED BY <2>1, <2>2, <2>3, <2>4 DEF UnreadInv
<1>8. ASSUME NEW t \in Tabs, NEW r \in ScrapeRunIds, BeginAcknowledge(t, r)
      PROVE  /\ UnreadInv' /\ FailuresStay
             /\ OneTab /\ LoadedIsCurrent => LoadedIsCurrent'
  <2>1. BoundaryOf(r) \in Boundaries /\ marker \in Boundaries
    BY <1>1, BoundaryIs DEF UnreadTyped
  <2>2. PICK next \in Tab : next = [pc |-> "acknowledging", boundary |-> AcknowledgedBoundary(r),
                                    loaded |-> marker]
    BY <2>1 DEF Tab, AcknowledgedBoundary
  <2>3. next.boundary = BoundaryOf(r) /\ next.loaded = marker
    BY <2>2 DEF AcknowledgedBoundary
  <2>4. /\ r \in linked /\ tab' = [tab EXCEPT ![t] = next]
        /\ UNCHANGED <<clock, scrapeRun, marker, linked>>
    BY <1>8, <2>2 DEF BeginAcknowledge
  <2>5. UnreadInv' /\ FailuresStay /\ tab'[t] = next /\ \A s \in Tabs \ {t} : tab'[s] = tab[s]
    BY <1>7, <2>1, <2>3, <2>4
  <2> QED BY <2>3, <2>4, <2>5 DEF LoadedIsCurrent
<1>9. ASSUME NEW t \in Tabs, EndAcknowledge(t)
      PROVE  /\ UnreadInv' /\ FailuresStay
             /\ OneTab /\ LoadedIsCurrent => LoadedIsCurrent'
  <2>1. PICK next \in Tab : next = NoTab /\ next.pc = "idle"
    BY NoTabIs
  <2>2. /\ tab' = [tab EXCEPT ![t] = next] /\ tab[t].pc = "acknowledging"
        /\ UNCHANGED <<clock, scrapeRun, linked>>
        /\ marker' = marker \/ marker' = tab[t].boundary
    BY <1>9, <2>1 DEF EndAcknowledge
  <2>3. marker' \in Boundaries /\ (marker' = marker \/ \E r \in linked : marker' = BoundaryOf(r))
    BY <1>1, <2>2 DEF UnreadTyped, Tab, LinksAreFailures
  <2>4. UnreadInv' /\ FailuresStay /\ tab'[t] = next
    BY <1>7, <2>1, <2>2, <2>3
  <2>5. OneTab => LoadedIsCurrent'
    BY <2>1, <2>4 DEF OneTab, LoadedIsCurrent
  <2> QED BY <2>4, <2>5
<1>10. CASE UNCHANGED unreadVars
  <2>1. UNCHANGED <<clock, scrapeRun, marker, linked, tab>>
    BY <1>10 DEF unreadVars
  <2> QED BY <1>1, <1>2, <2>1 DEF UnreadTyped, LinksAreFailures, FailuresStay, Failed
<1> QED BY <1>3, <1>4, <1>6, <1>8, <1>9, <1>10 DEF UnreadNext

(* The marker of a session is the boundary of a failure that some          *)
(* dashboard of the session has linked, whatever order the runs end in and *)
(* however many requests overlap: an acknowledgement never reaches beyond  *)
(* what was on the page.                                                   *)
THEOREM AcknowledgedWasShown == UnreadSpec => []MarkerWasLinked
<1>1. UnreadInit => UnreadInv
  BY UnreadStarts
<1>2. UnreadInv /\ [UnreadNext]_unreadVars => UnreadInv'
  BY UnreadSteps
<1>3. UnreadInv => MarkerWasLinked
  BY DEF UnreadInv
<1> QED BY <1>1, <1>2, <1>3, PTL DEF UnreadSpec

(* In a session whose requests do not overlap the marker never moves back: *)
(* a failure that was read is not counted again.                           *)
THEOREM ReadFailuresStayRead == ASSUME OneTab PROVE UnreadSpec => ReadStaysRead
<1> DEFINE Inv == UnreadInv /\ LoadedIsCurrent
<1>1. UnreadInit => Inv
  BY UnreadStarts
<1>2. Inv /\ [UnreadNext]_unreadVars => Inv'
  BY UnreadSteps
<1>3. Inv /\ [UnreadNext]_unreadVars => [\A r \in Failed : r \notin Unread => r \notin Unread']_unreadVars
  <2> SUFFICES ASSUME Inv, [UnreadNext]_unreadVars, NEW r \in Failed, r \notin Unread
               PROVE  r \notin Unread'
    OBVIOUS
  <2>1. UnreadTyped /\ r \in ScrapeRunIds /\ ~Beyond(BoundaryOf(r), marker)
    BY DEF UnreadInv, Unread, Failed
  <2>2. scrapeRun'[r] = scrapeRun[r]
    BY UnreadSteps DEF FailuresStay
  <2>3. PICK mine \in Boundaries : mine = BoundaryOf(r)
    BY <2>1, BoundaryIs
  <2>4. PICK before \in Boundaries : before = marker
    BY <2>1 DEF UnreadTyped
  <2>5. PICK after : after = marker'
    OBVIOUS
  <2>6. after = before \/ (after \in Boundaries /\ Beyond(after, before))
    <3>1. ASSUME NEW t \in Tabs, EndAcknowledge(t) PROVE marker' = marker \/ (after \in Boundaries /\ Beyond(after, before))
      <4>1. tab[t].loaded = before /\ tab[t].boundary \in Boundaries
        BY <2>1, <2>4, <3>1 DEF EndAcknowledge, LoadedIsCurrent, UnreadTyped, Tab
      <4> QED BY <2>4, <2>5, <3>1, <4>1 DEF EndAcknowledge, IsAdvance
    <3>2. CASE marker' = marker
      BY <2>4, <2>5, <3>2
    <3> QED BY <2>4, <2>5, <3>1, <3>2 DEF UnreadNext, unreadVars, ClockTicks, ShowDashboard, StampRun,
                              SaveRun, BeginAcknowledge
  <2>7. ~Beyond(mine, after)
    BY <2>1, <2>3, <2>4, <2>6, BeyondIsTransitive
  <2> QED BY <2>2, <2>3, <2>5, <2>7 DEF Unread, BoundaryOf
<1> QED BY <1>1, <1>2, <1>3, PTL DEF UnreadSpec, ReadStaysRead

-----------------------------------------------------------------------------
(* The third part is about the details of a Generic source, for any number *)
(* of pages and any limit.                                                 *)

(* What a run skips is what is enriched, and stays so until the run ends.  *)
EnrichmentInv ==
  /\ stored \in [Urls -> Addresses]
  /\ page \in [Urls -> SUBSET Fields]
  /\ row \in [Urls -> SUBSET Columns]
  /\ details \in [Urls -> SUBSET Fields]
  /\ pc = "details" => skip = SkipUrls

(* An enriched posting that is alone under its address is the one that the *)
(* address is skipped for, and its row the only one that is kept under it. *)
LEMMA AloneIs ==
  ASSUME NEW u \in Alone
  PROVE  /\ u \in Urls /\ (u \in SkipUrls <=> u \in Enriched)
         /\ RowsOf(u) \subseteq {u}
<1>1. u \in Urls /\ \A v \in Urls : stored[v] = u <=> v = u
  BY DEF Alone
<1> QED BY <1>1 DEF SkipUrls, Enriched, RowsOf

LEMMA EnrichmentSteps ==
  ASSUME EnrichmentInv, [EnrichmentNext]_enrichmentVars
  PROVE  EnrichmentInv' /\ Enriched \cap Alone \subseteq Enriched' /\ stored' = stored
<1> USE DEF EnrichmentInv
<1>1. ASSUME UNCHANGED <<stored, page, row>>,
             details' \in [Urls -> SUBSET Fields],
             pc' = "details" => skip' = SkipUrls
      PROVE  EnrichmentInv' /\ Enriched \cap Alone \subseteq Enriched' /\ stored' = stored
  BY <1>1 DEF Enriched, SkipUrls
<1>2. ASSUME NEW list \in Listings, BeginRun(list)
      PROVE  EnrichmentInv' /\ Enriched \cap Alone \subseteq Enriched' /\ stored' = stored
  <2>1. [u \in Urls |-> {}] \in [Urls -> SUBSET Fields]
    OBVIOUS
  <2> QED BY <1>1, <1>2, <2>1 DEF BeginRun
<1>3. CASE SkipDetail \/ RefuseDetail
  BY <1>1, <1>3 DEF SkipDetail, RefuseDetail, LoopAt
<1>4. CASE GetDetail
  <2>1. UNCHANGED <<stored, page, row, pc, skip>>
        /\ (details' = details \/ details' = [details EXCEPT ![Current] = page[Current]])
        /\ pc = "details"
    BY <1>4 DEF GetDetail, LoopAt
  <2>2. details' \in [Urls -> SUBSET Fields]
    BY <2>1
  <2> QED BY <1>1, <2>1, <2>2
<1>5. CASE CommitRun
  <2>1. pc' = "idle" /\ UNCHANGED <<stored, page, details>> /\ skip = SkipUrls
    BY <1>5 DEF CommitRun
  <2>2. PICK keeper \in [Urls -> Urls] :
          /\ \A u \in Urls : IF u \in skip THEN keeper[u] \in RowsOf(u) ELSE keeper[u] = u
          /\ row' = [u \in Urls |-> IF u \in listed THEN Merged(u, keeper[u]) ELSE row[u]]
    BY <1>5 DEF CommitRun
  <2>3. \A u \in Urls : Merged(u, keeper[u]) \in SUBSET Columns
    BY DEF Merged, Columns, Carried, Fields
  <2>4. EnrichmentInv'
    <3>1. \A u \in Urls : (IF u \in listed THEN Merged(u, keeper[u]) ELSE row[u]) \in SUBSET Columns
      BY <2>3
    <3>2. row' \in [Urls -> SUBSET Columns]
      BY <2>2, <3>1
    <3> QED BY <2>1, <3>2
  <2>5. ASSUME NEW u \in Enriched \cap Alone PROVE u \in Enriched'
    <3>1. u \in Urls /\ Carried \subseteq row[u] /\ u \in skip /\ keeper[u] = u
      BY <2>1, <2>2, AloneIs DEF Enriched, Sufficient
    <3>2. Carried \subseteq Merged(u, keeper[u])
      BY <3>1 DEF Merged
    <3> QED BY <2>2, <3>1, <3>2 DEF Enriched, Sufficient
  <2> QED BY <2>1, <2>4, <2>5
<1>6. CASE FailRun
  BY <1>1, <1>6 DEF FailRun
<1>7. CASE UNCHANGED enrichmentVars
  BY <1>1, <1>7 DEF enrichmentVars, Enriched, SkipUrls
<1> QED BY <1>2, <1>3, <1>4, <1>5, <1>6, <1>7 DEF EnrichmentNext, Run

LEMMA EnrichmentStarts == EnrichmentInit => EnrichmentInv
BY EnrichmentAssumption DEF EnrichmentInit, EnrichmentInv, Columns

(* A posting that satisfies the enrichment criteria never stops to do so,  *)
(* whatever its site lists, answers or refuses in later runs, and wherever *)
(* they end: the run that does not fetch its page again carries over what  *)
(* makes it sufficient.  That is for postings whose row alone stores the   *)
(* address of their link; nothing is assumed of the other links.           *)
THEOREM EnrichmentLasts == EnrichmentSpec => EnrichedStaysEnriched
<1>1. EnrichmentInit => EnrichmentInv
  BY EnrichmentStarts
<1>2. EnrichmentInv /\ [EnrichmentNext]_enrichmentVars
        => EnrichmentInv' /\ [Enriched \cap Alone \subseteq Enriched']_enrichmentVars
  BY EnrichmentSteps
<1> QED BY <1>1, <1>2, PTL DEF EnrichmentSpec, EnrichedStaysEnriched

-----------------------------------------------------------------------------
(* Where the requests of a run go: every listed posting is one to skip, or *)
(* was tried, or is still to come, and nothing is tried twice.             *)
LimitInv ==
  pc = "details" =>
    /\ todo \in Seq(Urls) /\ requests \in Nat /\ IsFiniteSet(tried)
    /\ \A i, j \in 1 .. Len(todo) : todo[i] = todo[j] => i = j
    /\ \A i \in 1 .. Len(todo) : todo[i] \notin tried
    /\ \A u \in listed : u \in skip \cup tried \/ \E i \in 1 .. Len(todo) : todo[i] = u
    /\ tried \cap skip = {} /\ listed \subseteq Urls
    /\ requests <= Cardinality(tried)

LEMMA TailIs ==
  ASSUME todo \in Seq(Urls), todo # <<>>
  PROVE  /\ Tail(todo) \in Seq(Urls) /\ Len(todo) \in Nat /\ Len(todo) >= 1
         /\ Len(Tail(todo)) = Len(todo) - 1 /\ Current = todo[1]
         /\ \A i \in 1 .. Len(Tail(todo)) : Tail(todo)[i] = todo[i + 1]
BY DEF Current

(* A page leaves the list, and is counted if it is tried.                  *)
LEMMA PopKeepsLimit ==
  ASSUME LimitInv, LoopAt, todo' = Tail(todo), UNCHANGED <<pc, skip, listed>>,
         \/ tried' = tried /\ Current \in skip /\ requests' = requests
         \/ /\ tried' = tried \cup {Current} /\ Current \notin skip
            /\ requests' \in {requests, requests + 1}
  PROVE  LimitInv'
<1>1. /\ pc = "details" /\ todo \in Seq(Urls) /\ todo # <<>>
      /\ requests \in Nat /\ IsFiniteSet(tried) /\ requests <= Cardinality(tried)
      /\ \A i, j \in 1 .. Len(todo) : todo[i] = todo[j] => i = j
      /\ \A i \in 1 .. Len(todo) : todo[i] \notin tried
      /\ \A u \in listed : u \in skip \cup tried \/ \E i \in 1 .. Len(todo) : todo[i] = u
      /\ tried \cap skip = {} /\ listed \subseteq Urls
  BY DEF LimitInv, LoopAt
<1>2. PICK rest \in Seq(Urls) : rest = Tail(todo)
  BY <1>1, TailIs
<1>3. PICK n \in Nat : n = Len(todo)
  BY <1>1, TailIs
<1>4. /\ n >= 1 /\ Len(rest) = n - 1 /\ Current = todo[1]
      /\ \A i \in 1 .. n - 1 : rest[i] = todo[i + 1]
  BY <1>1, <1>2, <1>3, TailIs
<1>5. Current \notin tried /\ \A i \in 1 .. n - 1 : todo[i + 1] # Current
  BY <1>1, <1>3, <1>4
<1>6. \A i, j \in 1 .. n - 1 : rest[i] = rest[j] => i = j
  <2>1. ASSUME NEW i \in 1 .. n - 1, NEW j \in 1 .. n - 1, rest[i] = rest[j] PROVE i = j
    <3>1. i + 1 \in 1 .. n /\ j + 1 \in 1 .. n /\ todo[i + 1] = todo[j + 1]
      BY <1>4, <2>1
    <3>2. i + 1 = j + 1
      BY <1>1, <1>3, <3>1
    <3> QED BY <3>2
  <2> QED BY <2>1
<1>7. \A i \in 1 .. n - 1 : rest[i] \notin tried'
  BY <1>1, <1>3, <1>4, <1>5
<1>8. ASSUME NEW u \in listed
      PROVE  u \in skip \cup tried' \/ \E i \in 1 .. n - 1 : rest[i] = u
  <2>1. CASE u \in skip \cup tried
    BY <2>1
  <2>2. CASE \E i \in 1 .. n : todo[i] = u
    <3>1. PICK i \in 1 .. n : todo[i] = u
      BY <2>2
    <3>2. CASE i = 1
      BY <1>4, <3>1, <3>2
    <3>3. CASE i # 1
      <4>1. i - 1 \in 1 .. n - 1 /\ rest[i - 1] = todo[(i - 1) + 1] /\ (i - 1) + 1 = i
        BY <1>4, <3>1, <3>3
      <4> QED BY <3>1, <4>1
    <3> QED BY <3>2, <3>3
  <2> QED BY <1>1, <1>3, <2>1, <2>2
<1>9. IsFiniteSet(tried') /\ requests' \in Nat /\ requests' <= Cardinality(tried')
  <2>1. IsFiniteSet(tried \cup {Current}) /\ Cardinality(tried \cup {Current}) = Cardinality(tried) + 1
        /\ Cardinality(tried) \in Nat
    BY <1>1, <1>5, FS_AddElement, FS_CardinalityType
  <2>2. CASE tried' = tried /\ requests' = requests
    BY <1>1, <2>2
  <2>3. CASE tried' = tried \cup {Current} /\ requests' \in {requests, requests + 1}
    BY <1>1, <2>1, <2>3
  <2> QED BY <2>2, <2>3
<1>10. tried' \cap skip' = {} /\ listed' \subseteq Urls
  BY <1>1
<1> QED BY <1>2, <1>4, <1>6, <1>7, <1>8, <1>9, <1>10 DEF LimitInv

LEMMA LimitSteps == LimitInv /\ [EnrichmentNext]_enrichmentVars => LimitInv'
<1> SUFFICES ASSUME LimitInv, [EnrichmentNext]_enrichmentVars PROVE LimitInv'
  OBVIOUS
<1>1. ASSUME NEW list \in Listings, BeginRun(list) PROVE LimitInv'
  <2>1. PICK n \in 1 .. Cardinality(Urls) : list \in [1 .. n -> Urls]
    BY DEF Listings
  <2>2. list \in Seq(Urls) /\ DOMAIN list = 1 .. Len(list)
    BY <2>1
  <2>3. /\ todo' = list /\ listed' = {list[i] : i \in DOMAIN list}
        /\ requests' = 0 /\ tried' = {}
        /\ \A i, j \in DOMAIN list : list[i] = list[j] => i = j
    BY <1>1 DEF BeginRun, Listings
  <2>4. IsFiniteSet({}) /\ Cardinality({}) = 0
    BY FS_EmptySet
  <2> QED BY <2>2, <2>3, <2>4 DEF LimitInv
<1>2. CASE SkipDetail
  BY <1>2, PopKeepsLimit DEF SkipDetail
<1>3. CASE RefuseDetail
  BY <1>3, PopKeepsLimit DEF RefuseDetail
<1>4. CASE GetDetail
  BY <1>4, PopKeepsLimit DEF GetDetail
<1>5. CASE CommitRun \/ FailRun
  BY <1>5 DEF CommitRun, FailRun, LimitInv
<1>6. CASE UNCHANGED enrichmentVars
  BY <1>6 DEF enrichmentVars, LimitInv
<1> QED BY <1>1, <1>2, <1>3, <1>4, <1>5, <1>6 DEF EnrichmentNext, Run

(* The limit of a run goes to pages that need it, as far as links and rows *)
(* spell addresses alike: no enriched posting is tried whose row alone     *)
(* stores the address of its link, and when the detail loop ends with such *)
(* a posting listed that is neither enriched nor tried, it has tried as    *)
(* many pages as the limit allows, and none of them twice.                 *)
THEOREM LimitGoesToNeed == EnrichmentSpec => []LimitIsSpentOnNeed
<1> DEFINE Inv == EnrichmentInv /\ LimitInv
<1>1. EnrichmentInit => Inv
  BY EnrichmentStarts DEF EnrichmentInit, LimitInv
<1>2. Inv /\ [EnrichmentNext]_enrichmentVars => Inv'
  BY LimitSteps, EnrichmentSteps
<1>3. Inv => LimitIsSpentOnNeed
  <2> SUFFICES ASSUME Inv, pc = "details"
               PROVE  /\ tried \cap Enriched \cap Alone = {}
                      /\ todo = <<>> \/ ~UnderLimit =>
                           \/ listed \cap Alone \subseteq Enriched \cup tried
                           \/ Cardinality(tried) >= MaxDetails
    BY DEF LimitIsSpentOnNeed
  <2>1. skip = SkipUrls /\ tried \cap skip = {}
    BY DEF EnrichmentInv, LimitInv
  <2>2. \A u \in Alone : u \in skip <=> u \in Enriched
    BY <2>1, AloneIs
  <2>3. tried \cap Enriched \cap Alone = {}
    BY <2>1, <2>2
  <2>4. ASSUME todo = <<>> PROVE listed \cap Alone \subseteq Enriched \cup tried
    <3>1. listed \subseteq skip \cup tried
      BY <2>4 DEF LimitInv
    <3> QED BY <2>2, <3>1
  <2>5. ASSUME ~UnderLimit PROVE Cardinality(tried) >= MaxDetails
    <3>1. requests \in Nat /\ IsFiniteSet(tried) /\ requests <= Cardinality(tried)
          /\ MaxDetails \in Nat /\ ~(requests < MaxDetails)
      BY <2>5, EnrichmentAssumption DEF LimitInv, UnderLimit
    <3>2. Cardinality(tried) \in Nat
      BY <3>1, FS_CardinalityType
    <3> QED BY <3>1, <3>2
  <2> QED BY <2>3, <2>4, <2>5
<1> QED BY <1>1, <1>2, <1>3, PTL DEF EnrichmentSpec
=============================================================================
